-------------------------- MODULE InterfaceProofs --------------------------
(***************************************************************************)
(* Theorems about Interface, for classes with any members and any number   *)
(* of signals, changes, calls and writes: both ends of every interface     *)
(* mean the same member by an index, and what a program reads of a replica *)
(* is what the source has.                                                 *)
(***************************************************************************)
EXTENDS Interface, SequenceTheorems, FiniteSetTheorems, WellFoundedInduction, TLAPS

-----------------------------------------------------------------------------
(* Induction, and folds *)

(* A set of numbers has a smallest one, *)
LEMMA Smallest ==
  ASSUME NEW S \in SUBSET Nat, S # {}  PROVE \E k \in S : \A j \in S : k <= j
<1>. DEFINE R == OpToRel(<, Nat)
<1>1. IsWellFoundedOn(R, Nat)
  BY NatLessThanWellFounded
<1>2. \A x, y \in Nat : <<y, x>> \in R <=> y < x
  BY DEF OpToRel
<1>. HIDE DEF R
<1>3. PICK k \in S : \A j \in S : <<j, k>> \notin R
  BY <1>1, WFMin
<1>4. ASSUME NEW j \in S  PROVE k <= j
  <2>1. j \in Nat /\ k \in Nat /\ ~(j < k)
    BY <1>2, <1>3
  <2>. QED  BY <2>1
<1>. QED  BY <1>4

(* so that a set with 0 and each next number has them all. *)
LEMMA SetInduction ==
  ASSUME NEW T, 0 \in T, \A n \in Nat : n \in T => n + 1 \in T
  PROVE  \A n \in Nat : n \in T
<1>. SUFFICES ASSUME Nat \ T # {}  PROVE FALSE
  OBVIOUS
<1>1. PICK k \in Nat \ T : \A j \in Nat \ T : k <= j
  BY Smallest
<1>2. k # 0 /\ k \in Nat
  BY <1>1
<1>3. PICK j \in Nat : j = k - 1
  BY <1>2
<1>4. j + 1 = k /\ j < k
  BY <1>2, <1>3
<1>5. j \notin T
  BY <1>1, <1>4
<1>. QED  BY <1>1, <1>2, <1>4, <1>5

(* The last of the first numbers, *)
LEMMA MaxOf ==
  ASSUME NEW n \in Nat, NEW s \in SUBSET (1..n), s # {}
  PROVE  Max(s) \in s /\ \A y \in s : Max(s) >= y
<1>. DEFINE Bound == {k \in Nat : \A y \in s : k >= y}
<1>1. n \in Bound
  OBVIOUS
<1>2. PICK k \in Bound : \A j \in Bound : k <= j
  BY <1>1, Smallest
<1>3. k \in s
  <2>. SUFFICES ASSUME k \notin s  PROVE FALSE
    OBVIOUS
  <2>1. PICK y \in s : TRUE
    OBVIOUS
  <2>2. y \in Nat /\ y >= 1 /\ k >= y /\ k \in Nat
    BY <1>2
  <2>3. k - 1 \in Nat
    BY <2>2
  <2>4. \A z \in s : k - 1 >= z
    BY <1>2, <2>2
  <2>5. k <= k - 1
    BY <1>2, <2>3, <2>4
  <2>. QED  BY <2>2, <2>5
<1>4. \A y \in s : k >= y
  BY <1>2
<1>. QED  BY <1>3, <1>4 DEF Max

(* and what is left without it. *)
LEMMA WithoutMax ==
  ASSUME NEW n \in Nat, NEW s \in SUBSET (1..n + 1), s # {}
  PROVE  s \ {Max(s)} \in SUBSET (1..n)
<1>. n + 1 \in Nat
  OBVIOUS
<1>1. Max(s) \in s /\ \A y \in s : Max(s) >= y
  BY MaxOf
<1>2. ASSUME NEW y \in s, y # Max(s)  PROVE y \in 1..n
  <2>1. y \in 1..n + 1 /\ Max(s) \in 1..n + 1 /\ Max(s) >= y
    BY <1>1
  <2>. QED  BY <1>2, <2>1
<1>. QED  BY <1>2

LEMMA WithoutLast ==
  ASSUME NEW n \in Nat
  PROVE  (1..n + 1) \ {Max(1..n + 1)} = 1..n /\ Max(1..n + 1) = n + 1
<1>1. 1..n + 1 # {} /\ n + 1 \in Nat /\ n + 1 \in 1..n + 1
  OBVIOUS
<1>2. /\ Max(1..n + 1) \in 1..n + 1
      /\ \A y \in 1..n + 1 : Max(1..n + 1) >= y
  BY <1>1, MaxOf
<1>3. Max(1..n + 1) = n + 1
  BY <1>1, <1>2
<1>. QED  BY <1>3

(* The model's folds: what each does with one element. *)
Added(x, i) ==
  [host |-> SerializeProperty(x.host, i, value).host,
   values |-> Append(x.values, SerializeProperty(x.host, i, value).value)]
Turn(kind, x, e, arg) ==
  IF kind = "emission" THEN HandleMetaCall(x, e, arg.vals, arg.args) ELSE Added(x, e)


(* A fold over the elements at s, from the results without its last one.   *)
Turned(kind, g, base, seq, arg, s) ==
  IF s = {} THEN base ELSE Turn(kind, g[s \ {Max(s)}], seq[Max(s)], arg)

Folds(kind, g, base, seq, arg, n) ==
  g = [s \in SUBSET (1..n) |-> Turned(kind, g, base, seq, arg, s)]

(* The results of a fold exist, *)
LEMMA FoldExists ==
  ASSUME NEW kind, NEW base, NEW seq, NEW arg, NEW n \in Nat
  PROVE  \E g : Folds(kind, g, base, seq, arg, n)
<1>. DEFINE T == {k \in Nat : \E g : Folds(kind, g, base, seq, arg, k)}
<1>1. 0 \in T
  <2>. DEFINE g == [s \in SUBSET (1..0) |-> base]
  <2>1. \A s \in SUBSET (1..0) : s = {}
    OBVIOUS
  <2>2. \A s \in SUBSET (1..0) : Turned(kind, g, base, seq, arg, s) = base
    BY <2>1 DEF Turned
  <2>3. g = [s \in SUBSET (1..0) |-> Turned(kind, g, base, seq, arg, s)]
    BY <2>2
  <2>. HIDE DEF g
  <2>. QED  BY <2>3 DEF Folds
<1>2. ASSUME NEW k \in Nat, k \in T  PROVE k + 1 \in T
  <2>1. PICK g : Folds(kind, g, base, seq, arg, k)
    BY <1>2
  <2>2. g = [s \in SUBSET (1..k) |-> Turned(kind, g, base, seq, arg, s)]
    BY <2>1 DEF Folds
  <2>. DEFINE h == [s \in SUBSET (1..k + 1) |-> Turned(kind, g, base, seq, arg, s)]
  <2>3. ASSUME NEW s \in SUBSET (1..k)  PROVE h[s] = g[s]
    <3>1. s \in SUBSET (1..k + 1)
      OBVIOUS
    <3>2. g[s] = Turned(kind, g, base, seq, arg, s)
      BY <2>2
    <3>. QED  BY <3>1, <3>2
  <2>. HIDE DEF h
  <2>4. ASSUME NEW s \in SUBSET (1..k + 1)
        PROVE  Turned(kind, h, base, seq, arg, s) = Turned(kind, g, base, seq, arg, s)
    <3>1. CASE s = {}
      BY <3>1 DEF Turned
    <3>2. CASE s # {}
      <4>1. s \ {Max(s)} \in SUBSET (1..k)
        BY <3>2, WithoutMax
      <4>2. h[s \ {Max(s)}] = g[s \ {Max(s)}]
        BY <2>3, <4>1
      <4>. QED  BY <4>2 DEF Turned
    <3>. QED  BY <3>1, <3>2
  <2>5. h = [s \in SUBSET (1..k + 1) |-> Turned(kind, h, base, seq, arg, s)]
    BY <2>4 DEF h
  <2>. QED  BY <2>5 DEF Folds
<1>. HIDE DEF T
<1>3. n \in T
  BY <1>1, <1>2, SetInduction
<1>. QED  BY <1>3 DEF T

(* and the last one is a turn after those of the elements before. *)
LEMMA FoldStep ==
  ASSUME NEW kind, NEW g, NEW base, NEW seq, NEW arg, NEW n \in Nat,
         Folds(kind, g, base, seq, arg, n)
  PROVE  /\ g[1..0] = base
         /\ \A k \in 0..n - 1 :
              g[1..k + 1] = Turn(kind, g[1..k], seq[k + 1], arg)
<1>1. \A s \in SUBSET (1..n) : g[s] = Turned(kind, g, base, seq, arg, s)
  <2>1. g = [s \in SUBSET (1..n) |-> Turned(kind, g, base, seq, arg, s)]
    BY DEF Folds
  <2>. QED  BY <2>1
<1>2. 1..0 \in SUBSET (1..n) /\ 1..0 = {}
  OBVIOUS
<1>3. g[1..0] = base
  BY <1>1, <1>2 DEF Turned
<1>4. ASSUME NEW k \in 0..n - 1
      PROVE  g[1..k + 1] = Turn(kind, g[1..k], seq[k + 1], arg)
  <2>1. k \in Nat /\ 1..k + 1 \in SUBSET (1..n) /\ 1..k + 1 # {}
    <3>1. k \in Nat /\ k + 1 <= n
      OBVIOUS
    <3>2. k + 1 \in 1..k + 1
      BY <3>1
    <3>3. \A i \in 1..k + 1 : i \in 1..n
      BY <3>1
    <3>. QED  BY <3>1, <3>2, <3>3
  <2>2. g[1..k + 1] = Turned(kind, g, base, seq, arg, 1..k + 1)
    BY <1>1, <2>1
  <2>. QED  BY <2>1, <2>2, WithoutLast DEF Turned
<1>. QED  BY <1>3, <1>4

-----------------------------------------------------------------------------
(* Sets of numbers in their order, and places of names *)

LEMMA InOrderOf ==
  ASSUME NEW S \in SUBSET Nat, IsFiniteSet(S)
  PROVE  /\ Cardinality(S) \in Nat /\ DOMAIN InOrder(S) = 1..Cardinality(S)
         /\ \A k \in 1..Cardinality(S) : InOrder(S)[k] \in S
         /\ \A i \in S : \E k \in 1..Cardinality(S) : InOrder(S)[k] = i
         /\ \A k, l \in 1..Cardinality(S) : k < l => InOrder(S)[k] < InOrder(S)[l]
<1>. DEFINE n == Cardinality(S)
            Upto(i) == {j \in S : j <= i}
            rank == [i \in S |-> Cardinality(Upto(i))]
<1>1. n \in Nat
  BY FS_CardinalityType
<1>2. ASSUME NEW i \in S
      PROVE  IsFiniteSet(Upto(i)) /\ Cardinality(Upto(i)) \in 1..n
  <2>1. Upto(i) \in SUBSET S /\ i \in Upto(i)
    OBVIOUS
  <2>2. IsFiniteSet(Upto(i)) /\ Cardinality(Upto(i)) <= n
    BY <2>1, FS_Subset
  <2>3. Cardinality(Upto(i)) \in Nat /\ Cardinality(Upto(i)) # 0
    BY <2>1, <2>2, FS_CardinalityType, FS_EmptySet
  <2>. QED  BY <1>1, <2>2, <2>3
<1>3. ASSUME NEW i \in S, NEW j \in S, i < j  PROVE rank[i] < rank[j]
  <2>. i \in Nat /\ j \in Nat /\ \A x \in S : x \in Nat
    OBVIOUS
  <2>1. \A x \in S : x <= i => x <= j
    BY <1>3
  <2>2. ~(j <= i) /\ j <= j
    BY <1>3
  <2>3. Upto(i) \in SUBSET Upto(j) /\ j \in Upto(j) /\ j \notin Upto(i)
    BY <2>1, <2>2
  <2>4. Cardinality(Upto(i)) <= Cardinality(Upto(j))
        /\ Cardinality(Upto(i)) # Cardinality(Upto(j))
    BY <1>2, <2>3, FS_Subset
  <2>. QED  BY <1>2, <2>4
<1>4. ASSUME NEW i \in S, NEW j \in S, rank[i] = rank[j]  PROVE i = j
  <2>1. i \in Nat /\ j \in Nat /\ rank[i] \in Nat /\ rank[j] \in Nat
    BY <1>2
  <2>. QED  BY <1>3, <1>4, <2>1
<1>5. rank \in Injection(S, 1..n)
  <2>1. rank \in [S -> 1..n]
    BY <1>2
  <2>. HIDE DEF rank
  <2>. QED  BY <1>4, <2>1 DEF Injection, IsInjective
<1>6. IsFiniteSet(1..n) /\ Cardinality(1..n) = n
  BY <1>1, FS_Interval
<1>7. rank \in Surjection(S, 1..n)
  BY <1>5, <1>6, FS_Injection
<1>8. \A k \in 1..n : \E i \in S : rank[i] = k
  BY <1>7 DEF Surjection
<1>9. ASSUME NEW k \in 1..n  PROVE InOrder(S)[k] \in S /\ rank[InOrder(S)[k]] = k
  <2>1. InOrder(S)[k] = CHOOSE i \in S : Cardinality(Upto(i)) = k
    BY DEF InOrder
  <2>2. \E i \in S : Cardinality(Upto(i)) = k
    BY <1>8
  <2>. QED  BY <2>1, <2>2
<1>10. DOMAIN InOrder(S) = 1..n
  BY DEF InOrder
<1>. HIDE DEF rank, n
<1>11. ASSUME NEW i \in S  PROVE \E k \in 1..n : InOrder(S)[k] = i
  <2>1. rank[i] \in 1..n
    BY <1>7 DEF Surjection
  <2>. QED  BY <1>4, <1>9, <2>1
<1>12. ASSUME NEW k \in 1..n, NEW l \in 1..n, k < l
       PROVE  InOrder(S)[k] < InOrder(S)[l]
  <2>1. /\ InOrder(S)[k] \in S /\ InOrder(S)[l] \in S
        /\ InOrder(S)[k] \in Nat /\ InOrder(S)[l] \in Nat
        /\ rank[InOrder(S)[k]] = k /\ rank[InOrder(S)[l]] = l
    BY <1>9
  <2>. QED  BY <1>1, <1>3, <1>12, <2>1
<1>. QED  BY <1>1, <1>9, <1>10, <1>11, <1>12 DEF n

LEMMA NumbersAreFinite ==
  ASSUME NEW n \in Nat, NEW S \in SUBSET (1..n)
  PROVE  S \in SUBSET Nat /\ IsFiniteSet(S)
<1>1. IsFiniteSet(1..n)
  BY FS_Interval
<1>2. \A i \in S : i \in 1..n
  OBVIOUS
<1>3. S \in SUBSET Nat
  BY <1>2
<1>. QED  BY <1>1, <1>3, FS_Subset

LEMMA OrderedApart ==
  ASSUME NEW S \in SUBSET Nat, NEW n \in Nat, NEW f, \A k \in 1..n : f[k] \in S,
         \A k, l \in 1..n : k < l => f[k] < f[l]
  PROVE  \A k, l \in 1..n : f[k] = f[l] => k = l
<1>. SUFFICES ASSUME NEW k \in 1..n, NEW l \in 1..n, f[k] = f[l]  PROVE k = l
  OBVIOUS
<1>1. f[k] \in Nat /\ f[l] \in Nat
  OBVIOUS
<1>2. ~(f[k] < f[l]) /\ ~(f[l] < f[k])
  BY <1>1
<1>. QED  BY <1>2

LEMMA InOrderOfInterval ==
  ASSUME NEW a \in Nat, NEW n \in Nat
  PROVE  /\ DOMAIN InOrder(a + 1..a + n) = 1..n
         /\ \A k \in 1..n : InOrder(a + 1..a + n)[k] = a + k
<1>. DEFINE S == a + 1..a + n
<1>1. IsFiniteSet(S) /\ Cardinality(S) = n /\ S \in SUBSET Nat
  <2>1. IsFiniteSet(S) /\ Cardinality(S) = IF a + 1 > a + n THEN 0 ELSE a + n - (a + 1) + 1
    BY FS_Interval
  <2>. QED  BY <2>1
<1>2. ASSUME NEW k \in 1..n  PROVE InOrder(S)[k] = a + k
  <2>1. InOrder(S)[k] = CHOOSE i \in S : Cardinality({j \in S : j <= i}) = k
    BY <1>1 DEF InOrder
  <2>2. ASSUME NEW i \in S  PROVE Cardinality({j \in S : j <= i}) = i - a
    <3>1. {j \in S : j <= i} = a + 1..i
      OBVIOUS
    <3>2. i \in Int /\ a + 1 <= i
      OBVIOUS
    <3>. HIDE DEF S
    <3>3. Cardinality(a + 1..i) = i - (a + 1) + 1
      BY <3>2, FS_Interval
    <3>4. i - (a + 1) + 1 = i - a
      BY <3>2
    <3>. QED  BY <3>1, <3>3, <3>4, Zenon
  <2>3. a + k \in S
    OBVIOUS
  <2>4. Cardinality({j \in S : j <= a + k}) = k
    BY <2>2, <2>3
  <2>5. \A i \in S : Cardinality({j \in S : j <= i}) = k => i = a + k
    BY <2>2
  <2>. QED  BY <2>1, <2>3, <2>4, <2>5
<1>3. DOMAIN InOrder(S) = 1..n
  BY <1>1 DEF InOrder
<1>. QED  BY <1>2, <1>3

LEMMA IndexOfNone ==
  ASSUME NEW s, NEW n \in Nat, DOMAIN s = 1..n, Len(s) = n, NEW name
  PROVE  /\ IndexOf(s, name) \in 0..n
         /\ IndexOf(s, name) # 0 => s[IndexOf(s, name)].name = name
         /\ IndexOf(s, name) = 0 => \A i \in 1..n : s[i].name # name
         /\ \A i \in 1..n : s[i].name = name => IndexOf(s, name) <= i
<1>. DEFINE I == {i \in 1..Len(s) : s[i].name = name}
<1>1. IndexOf(s, name) = IF I # {} THEN Min(I) ELSE 0
  BY DEF IndexOf, SelectInSeq
<1>2. I # {} => Min(I) \in I /\ \A i \in I : Min(I) <= i
  <2>1. I \in SUBSET Nat
    OBVIOUS
  <2>2. I # {} => \E k \in I : \A j \in I : k <= j
    BY <2>1, Smallest
  <2>. QED  BY <2>2 DEF Min
<1>3. \A i : i \in I <=> i \in 1..n /\ s[i].name = name
  OBVIOUS
<1>. HIDE DEF I
<1>. QED  BY <1>1, <1>2, <1>3

LEMMA IndexOfDistinct ==
  ASSUME NEW s, NEW n \in Nat, DOMAIN s = 1..n, Len(s) = n, Distinct(s),
         NEW i \in 1..n
  PROVE  IndexOf(s, s[i].name) = i
BY IndexOfNone DEF Distinct

-----------------------------------------------------------------------------
(* Sequences, of whatever their elements are *)

LEMMA SeqIs ==
  ASSUME NEW S, NEW s \in Seq(S)  PROVE IsSeq(s) /\ ToSet(s) \subseteq S
<1>1. s = [i \in 1..Len(s) |-> s[i]] /\ Len(s) \in Nat
  BY LenProperties
<1>2. \A i \in 1..Len(s) : s[i] \in S
  OBVIOUS
<1>. QED  BY <1>1, <1>2 DEF IsSeq, ToSet

LEMMA IsSeqElements ==
  ASSUME NEW s, IsSeq(s)
  PROVE  Len(s) \in Nat /\ DOMAIN s = 1..Len(s) /\ \A i \in 1..Len(s) : s[i] \in ToSet(s)
BY LenProperties DEF IsSeq, ToSet

LEMMA WiderSeq ==
  ASSUME NEW S, NEW T, S \subseteq T, NEW s \in Seq(S)  PROVE s \in Seq(T)
OBVIOUS

LEMMA AppendSeq ==
  ASSUME NEW s, IsSeq(s), NEW e
  PROVE  /\ IsSeq(Append(s, e)) /\ Len(Append(s, e)) = Len(s) + 1
         /\ \A i \in 1..Len(s) : Append(s, e)[i] = s[i]
         /\ Append(s, e)[Len(s) + 1] = e
<1>. DEFINE S == ToSet(s) \cup {e}
<1>1. s \in Seq(S) /\ e \in S
  BY WiderSeq DEF IsSeq
<1>. HIDE DEF S
<1>2. /\ Append(s, e) \in Seq(S) /\ Len(Append(s, e)) = Len(s) + 1
      /\ \A i \in 1..Len(s) : Append(s, e)[i] = s[i]
      /\ Append(s, e)[Len(s) + 1] = e
  BY <1>1, AppendProperties
<1>. QED  BY <1>2, SeqIs

LEMMA TailSeq ==
  ASSUME NEW s, IsSeq(s), s # <<>>
  PROVE  /\ IsSeq(Tail(s)) /\ Len(s) \in Nat \ {0} /\ Len(Tail(s)) = Len(s) - 1
         /\ Head(s) = s[1] /\ \A i \in 1..Len(s) - 1 : Tail(s)[i] = s[i + 1]
<1>1. s \in Seq(ToSet(s))
  BY DEF IsSeq
<1>2. /\ Head(s) = s[1] /\ Tail(s) \in Seq(ToSet(s)) /\ Len(s) \in Nat \ {0}
      /\ Len(Tail(s)) = Len(s) - 1
      /\ \A i \in 1..Len(s) - 1 : Tail(s)[i] = s[i + 1]
  BY <1>1, HeadTailProperties, EmptySeq, LenProperties
<1>. QED  BY <1>2, SeqIs

LEMMA ConcatSeq ==
  ASSUME NEW s, IsSeq(s), NEW t, IsSeq(t)
  PROVE  /\ IsSeq(s \o t) /\ Len(s \o t) = Len(s) + Len(t)
         /\ \A i \in 1..Len(s) + Len(t) :
              (s \o t)[i] = IF i <= Len(s) THEN s[i] ELSE t[i - Len(s)]
<1>. DEFINE S == ToSet(s) \cup ToSet(t)
<1>1. s \in Seq(S) /\ t \in Seq(S)
  BY WiderSeq DEF IsSeq
<1>. HIDE DEF S
<1>2. s \o t \in Seq(S)
  BY <1>1
<1>. QED  BY <1>1, <1>2, SeqIs, ConcatProperties

LEMMA NoSeq == IsSeq(<<>>) /\ Len(<<>>) = 0
<1>1. <<>> \in Seq({}) /\ Len(<<>>) = 0
  OBVIOUS
<1>. QED  BY <1>1, SeqIs

LEMMA FunctionIsSeq ==
  ASSUME NEW n \in Nat, NEW f, f = [i \in 1..n |-> f[i]]
  PROVE  IsSeq(f) /\ Len(f) = n /\ DOMAIN f = 1..n
<1>1. f \in Seq(ToSet(f)) /\ Len(f) = n /\ DOMAIN f = 1..n
  BY DEF ToSet
<1>. QED  BY <1>1 DEF IsSeq

(* The two parts of a sequence, by places from the start of each. *)
LEMMA TwoParts ==
  ASSUME NEW m \in Nat, NEW n \in Nat
  PROVE  \A i \in 1..m + n : i \in 1..m \/ \E j \in 1..n : i = m + j
<1>. SUFFICES ASSUME NEW i \in 1..m + n, i \notin 1..m
              PROVE  \E j \in 1..n : i = m + j
  OBVIOUS
<1>1. i - m \in 1..n /\ i = m + (i - m)
  OBVIOUS
<1>. QED  BY <1>1

Joins(s, t, u) ==
  /\ IsSeq(u) /\ Len(u) = Len(s) + Len(t)
  /\ Len(s) \in Nat /\ Len(t) \in Nat
  /\ \A i \in 1..Len(s) : u[i] = s[i]
  /\ \A i \in 1..Len(t) : u[Len(s) + i] = t[i]
  /\ \A i \in 1..Len(u) : i \in 1..Len(s) \/ \E j \in 1..Len(t) : i = Len(s) + j

LEMMA Joined ==
  ASSUME NEW s, IsSeq(s), NEW t, IsSeq(t)
  PROVE  Joins(s, t, s \o t)
<1>1. Len(s) \in Nat /\ Len(t) \in Nat
  BY IsSeqElements
<1>2. /\ IsSeq(s \o t) /\ Len(s \o t) = Len(s) + Len(t)
      /\ \A i \in 1..Len(s) + Len(t) :
           (s \o t)[i] = IF i <= Len(s) THEN s[i] ELSE t[i - Len(s)]
  BY ConcatSeq
<1>3. ASSUME NEW i \in 1..Len(t)  PROVE (s \o t)[Len(s) + i] = t[i]
  <2>1. Len(s) + i \in 1..Len(s) + Len(t) /\ ~(Len(s) + i <= Len(s))
        /\ Len(s) + i - Len(s) = i
    BY <1>1
  <2>. QED  BY <1>2, <2>1
<1>4. ASSUME NEW i \in 1..Len(s)  PROVE (s \o t)[i] = s[i]
  BY <1>1, <1>2
<1>5. ASSUME NEW i \in 1..Len(s) + Len(t)
      PROVE  i \in 1..Len(s) \/ \E j \in 1..Len(t) : i = Len(s) + j
  <2>1. CASE i <= Len(s)
    BY <1>1, <2>1
  <2>2. CASE ~(i <= Len(s))
    <3>1. i - Len(s) \in 1..Len(t) /\ i = Len(s) + (i - Len(s))
      BY <1>1, <2>2
    <3>. QED  BY <3>1
  <2>. QED  BY <2>1, <2>2
<1>. QED  BY <1>1, <1>2, <1>3, <1>4, <1>5 DEF Joins

LEMMA Parts ==
  ASSUME NEW s, IsSeq(s), NEW t, IsSeq(t)
  PROVE  /\ IsSeq(s \o t) /\ Len(s \o t) = Len(s) + Len(t)
         /\ Len(s) \in Nat /\ Len(t) \in Nat
         /\ \A i \in 1..Len(s) : (s \o t)[i] = s[i]
         /\ \A i \in 1..Len(t) : (s \o t)[Len(s) + i] = t[i]
         /\ \A i \in 1..Len(s \o t) :
              i \in 1..Len(s) \/ \E j \in 1..Len(t) : i = Len(s) + j
<1>1. Joins(s, t, s \o t)
  BY Joined
<1>. QED  BY <1>1 DEF Joins

LEMMA DistinctParts ==
  ASSUME NEW s, IsSeq(s), Distinct(s), NEW t, IsSeq(t), Distinct(t),
         \A i \in 1..Len(s), j \in 1..Len(t) : s[i].name # t[j].name
  PROVE  Distinct(s \o t)
<1>1. DOMAIN s = 1..Len(s) /\ DOMAIN t = 1..Len(t) /\ DOMAIN (s \o t) = 1..Len(s \o t)
  BY IsSeqElements, Parts
<1>. /\ \A i \in 1..Len(s) : (s \o t)[i] = s[i]
     /\ \A i \in 1..Len(t) : (s \o t)[Len(s) + i] = t[i]
  BY Parts
<1>2. SUFFICES ASSUME NEW i \in 1..Len(s \o t), NEW j \in 1..Len(s \o t),
                      (s \o t)[i].name = (s \o t)[j].name
               PROVE  i = j
  BY <1>1 DEF Distinct
<1>3. CASE i \in 1..Len(s) /\ j \in 1..Len(s)
  <2>1. (s \o t)[i] = s[i] /\ (s \o t)[j] = s[j]
    BY <1>3
  <2>. QED  BY <1>1, <1>2, <1>3, <2>1 DEF Distinct
<1>4. CASE i \in 1..Len(s) /\ j \notin 1..Len(s)
  <2>1. PICK l \in 1..Len(t) : j = Len(s) + l
    BY <1>4, Parts
  <2>2. (s \o t)[i] = s[i] /\ (s \o t)[j] = t[l]
    BY <1>4, <2>1
  <2>. QED  BY <1>2, <1>4, <2>2
<1>5. CASE i \notin 1..Len(s) /\ j \in 1..Len(s)
  <2>1. PICK k \in 1..Len(t) : i = Len(s) + k
    BY <1>5, Parts
  <2>2. (s \o t)[i] = t[k] /\ (s \o t)[j] = s[j]
    BY <1>5, <2>1
  <2>. QED  BY <1>2, <1>5, <2>2
<1>6. CASE i \notin 1..Len(s) /\ j \notin 1..Len(s)
  <2>1. PICK k \in 1..Len(t), l \in 1..Len(t) : i = Len(s) + k /\ j = Len(s) + l
    BY <1>6, Parts
  <2>2. (s \o t)[i] = t[k] /\ (s \o t)[j] = t[l]
    BY <2>1
  <2>3. k = l
    BY <1>1, <1>2, <2>2 DEF Distinct
  <2>. QED  BY <2>1, <2>3
<1>. QED  BY <1>3, <1>4, <1>5, <1>6

-----------------------------------------------------------------------------
(* The tables of both ends, which stay what they are.                      *)

NameOf(o, a, k) == o.methods[a.signals[k]].name

PropertiesAgree(o, a, mt) ==
  /\ \E n \in Nat : DOMAIN mt.props = 1..n /\ DOMAIN a.properties = 1..n
  /\ \A j \in DOMAIN mt.props :
       /\ a.properties[j] \in DOMAIN o.props
       /\ mt.props[j].name = o.props[a.properties[j]].name
       /\ mt.props[j].sort = o.props[a.properties[j]].sort
  /\ \A i, j \in DOMAIN mt.props :
       mt.props[i].sort = "class" /\ mt.props[j].sort = "class" => i = j

SignalsAgree(offset, o, a, mt) ==
  /\ \E n \in Nat : DOMAIN a.signals = 1..n
  /\ \E n \in Nat : DOMAIN mt.methods = 1..n
  /\ \A k \in DOMAIN a.signals :
       /\ k \in DOMAIN mt.methods /\ a.signals[k] \in DOMAIN o.methods
       /\ mt.methods[k].name = NameOf(o, a, k)
       /\ mt.methods[k].arity = o.methods[a.signals[k]].arity
       /\ \A i \in DOMAIN mt.methods :
            mt.methods[i].name = NameOf(o, a, k) => i \in DOMAIN a.signals
  /\ \A m \in DOMAIN o.methods :
       o.methods[m].sort = "signal" /\ ~o.methods[m].cloned /\ m > offset =>
         \E k \in DOMAIN a.signals : a.signals[k] = m

RawsAgree(o, a, mt) ==
  /\ \A k \in DOMAIN a.raw :
       /\ k \in DOMAIN a.signals /\ a.raw[k] \in DOMAIN mt.props
       /\ o.props[a.properties[a.raw[k]]].notify = NameOf(o, a, k)
  /\ \A k \in DOMAIN a.signals : o.methods[a.signals[k]].pointer => k \in DOMAIN a.raw

Signals(mt) == Cardinality({i \in DOMAIN mt.methods : mt.methods[i].sort = "signal"})
MethodsAgree(d, offset, o, a, mt) ==
  \A m \in DOMAIN o.methods :
    o.methods[m].sort = "slot" /\ m > offset =>
      LET index == IndexOf(mt.methods, o.methods[m].name)
      IN  IF index > Signals(mt)
          THEN /\ index - Signals(mt) \in DOMAIN a.methods
               /\ a.methods[index - Signals(mt)] = m
          ELSE d.acq = "dynamic" /\ o.methods[m].name[1] = "push"

NotifiersAreOwn(offset, o) ==
  \A i \in DOMAIN o.props, m \in DOMAIN o.methods :
    o.methods[m].name = o.props[i].notify => m > offset

Agree(d, o, a, mt) ==
  /\ PlainClass(o) /\ PropertiesAgree(o, a, mt)
  /\ SignalsAgree(MethodOffset(d), o, a, mt) /\ RawsAgree(o, a, mt)
  /\ MethodsAgree(d, MethodOffset(d), o, a, mt)
  /\ NotifiersAreOwn(MethodOffset(d), o)

-----------------------------------------------------------------------------
(* The members repc writes, in their order *)

Order(c, M) == InOrder(WithModifier(c, M))
Number(c, M) == Cardinality(WithModifier(c, M))

LEMMA OrderOf ==
  ASSUME NEW c, RepClass(c), NEW M
  PROVE  /\ Number(c, M) \in Nat /\ DOMAIN Order(c, M) = 1..Number(c, M)
         /\ \A k \in 1..Number(c, M) :
              /\ Order(c, M)[k] \in 1..Len(c.props) /\ Order(c, M)[k] \in WithModifier(c, M)
              /\ c.props[Order(c, M)[k]].mod \in M
         /\ \A i \in WithModifier(c, M) : \E k \in 1..Number(c, M) : Order(c, M)[k] = i
         /\ \A k, l \in 1..Number(c, M) : Order(c, M)[k] = Order(c, M)[l] => k = l
<1>. DEFINE S == WithModifier(c, M)
<1>1. DOMAIN c.props = 1..Len(c.props) /\ Len(c.props) \in Nat
  BY DEF RepClass
<1>2. S \in SUBSET (1..Len(c.props))
  BY <1>1 DEF WithModifier
<1>3. S \in SUBSET Nat /\ IsFiniteSet(S)
  <2>1. IsFiniteSet(1..Len(c.props))
    BY <1>1, FS_Interval
  <2>2. \A i \in S : i \in 1..Len(c.props)
    BY <1>2
  <2>. QED  BY <1>1, <1>2, <2>1, <2>2, FS_Subset
<1>4. \A i \in S : c.props[i].mod \in M
  BY DEF WithModifier
<1>. HIDE DEF S
<1>5. /\ Cardinality(S) \in Nat /\ DOMAIN InOrder(S) = 1..Cardinality(S)
      /\ \A k \in 1..Cardinality(S) : InOrder(S)[k] \in S
      /\ \A i \in S : \E k \in 1..Cardinality(S) : InOrder(S)[k] = i
      /\ \A k, l \in 1..Cardinality(S) : k < l => InOrder(S)[k] < InOrder(S)[l]
  BY <1>3, InOrderOf
<1>6. ASSUME NEW k \in 1..Cardinality(S), NEW l \in 1..Cardinality(S),
             InOrder(S)[k] = InOrder(S)[l]
      PROVE  k = l
  <2>1. InOrder(S)[k] \in Nat /\ k \in Nat /\ l \in Nat
    <3>1. InOrder(S)[k] \in S
      BY <1>5, Zenon
    <3>2. InOrder(S)[k] \in Nat
      BY <1>3, <3>1, Zenon
    <3>3. Cardinality(S) \in Nat
      BY <1>5
    <3>. QED  BY <3>2, <3>3
  <2>2. ~(InOrder(S)[k] < InOrder(S)[l]) /\ ~(InOrder(S)[l] < InOrder(S)[k])
    BY <1>6, <2>1
  <2>3. ~(k < l) /\ ~(l < k)
    BY <1>5, <2>2
  <2>. QED  BY <2>1, <2>3
<1>7. Order(c, M) = InOrder(S) /\ Number(c, M) = Cardinality(S)
  BY DEF Order, Number, S
<1>. QED  BY <1>2, <1>4, <1>5, <1>6, <1>7 DEF S

LEMMA PropTypes ==
  ASSUME NEW c, RepClass(c), NEW i \in 1..Len(c.props)
  PROVE  /\ c.props[i].name \in STRING /\ c.props[i].mod \in Modifiers
         /\ c.props[i].sort \in {"value", "class"} /\ c.props[i].enum \in BOOLEAN
         /\ i \in DOMAIN c.props
<1>. DEFINE P == [name : STRING, mod : Modifiers, sort : {"value", "class"}, enum : BOOLEAN]
<1>1. c.props \in Seq(P)
  BY DEF RepClass
<1>2. \A p \in P : /\ p.name \in STRING /\ p.mod \in Modifiers
                   /\ p.sort \in {"value", "class"} /\ p.enum \in BOOLEAN
  OBVIOUS
<1>. HIDE DEF P
<1>3. c.props[i] \in P /\ i \in DOMAIN c.props
  BY <1>1
<1>. QED  BY <1>2, <1>3

(* What a class declares is a method of its own, *)
LEMMA SignalIs ==
  ASSUME NEW name, NEW arity \in Nat, NEW pointer \in BOOLEAN, NEW cloned \in BOOLEAN
  PROVE  /\ IsMethod(Signal(name, arity, pointer, cloned))
         /\ Signal(name, arity, pointer, cloned).name = name
BY DEF Signal, IsMethod

LEMMA SlotIs ==
  ASSUME NEW name
  PROVE  IsMethod(Slot(name)) /\ Slot(name).name = name
BY DEF Slot, IsMethod

LEMMA RepTypes ==
  ASSUME NEW c, RepClass(c)
  PROVE  /\ IsSeq(c.props) /\ IsSeq(c.signals) /\ IsSeq(c.slots)
         /\ DOMAIN c.props = 1..Len(c.props) /\ Len(c.props) \in Nat
         /\ DOMAIN c.signals = 1..Len(c.signals) /\ Len(c.signals) \in Nat
         /\ DOMAIN c.slots = 1..Len(c.slots) /\ Len(c.slots) \in Nat
         /\ \A k \in 1..Len(c.signals) : c.signals[k].name \in STRING /\ c.signals[k].arity \in Nat
         /\ \A k \in 1..Len(c.slots) : c.slots[k] \in STRING
<1>. DEFINE P == [name : STRING, mod : Modifiers, sort : {"value", "class"}, enum : BOOLEAN]
            G == [name : STRING, arity : Nat]
<1>1. c.props \in Seq(P) /\ c.signals \in Seq(G) /\ c.slots \in Seq(STRING)
  BY DEF RepClass
<1>2. \A p \in G : p.name \in STRING /\ p.arity \in Nat
  OBVIOUS
<1>. HIDE DEF P, G
<1>3. IsSeq(c.props) /\ IsSeq(c.signals) /\ IsSeq(c.slots)
  BY <1>1, SeqIs
<1>4. /\ DOMAIN c.props = 1..Len(c.props) /\ Len(c.props) \in Nat
      /\ DOMAIN c.signals = 1..Len(c.signals) /\ Len(c.signals) \in Nat
      /\ DOMAIN c.slots = 1..Len(c.slots) /\ Len(c.slots) \in Nat
  BY <1>3, IsSeqElements
<1>5. /\ \A k \in 1..Len(c.signals) : c.signals[k] \in G
      /\ \A k \in 1..Len(c.slots) : c.slots[k] \in STRING
  BY <1>1
<1>. QED  BY <1>2, <1>3, <1>4, <1>5

LEMMA OfModifierIs ==
  ASSUME NEW c, RepClass(c), NEW M
  PROVE  /\ IsSeq(OfModifier(c, M)) /\ Len(OfModifier(c, M)) = Number(c, M)
         /\ DOMAIN OfModifier(c, M) = 1..Number(c, M)
         /\ \A k \in 1..Number(c, M) : OfModifier(c, M)[k] = c.props[Order(c, M)[k]]
<1>1. OfModifier(c, M) = [k \in 1..Number(c, M) |-> c.props[Order(c, M)[k]]]
  BY OrderOf DEF OfModifier, Order
<1>2. Number(c, M) \in Nat
  BY OrderOf
<1>. QED  BY <1>1, <1>2, FunctionIsSeq

ChangedOf(c, i) == Signal(Changed(c.props[i]), 1, c.props[i].sort = "class", FALSE)

LEMMA ChangedSignalsOf ==
  ASSUME NEW c, RepClass(c), NEW M, NEW s, s = ChangedSignals(OfModifier(c, M))
  PROVE  /\ IsSeq(s) /\ Len(s) = Number(c, M) /\ DOMAIN s = 1..Number(c, M) /\ Distinct(s)
         /\ \A k \in 1..Number(c, M) :
              /\ s[k] = ChangedOf(c, Order(c, M)[k]) /\ IsMethod(s[k])
              /\ s[k].name = <<"changed", c.props[Order(c, M)[k]].name>>
<1>1. s = [k \in 1..Number(c, M) |-> ChangedOf(c, Order(c, M)[k])]
  <2>. DEFINE f == OfModifier(c, M)
  <2>1. s = [k \in DOMAIN f |-> Signal(Changed(f[k]), 1, f[k].sort = "class", FALSE)]
    BY DEF ChangedSignals
  <2>2. /\ DOMAIN f = 1..Number(c, M)
        /\ \A k \in 1..Number(c, M) : f[k] = c.props[Order(c, M)[k]]
    BY OfModifierIs
  <2>. HIDE DEF f
  <2>. QED  BY <2>1, <2>2, Zenon DEF ChangedOf
<1>2. Number(c, M) \in Nat
  BY OrderOf
<1>3. IsSeq(s) /\ Len(s) = Number(c, M) /\ DOMAIN s = 1..Number(c, M)
  BY <1>1, <1>2, FunctionIsSeq
<1>4. ASSUME NEW i \in 1..Len(c.props)
      PROVE  /\ IsMethod(ChangedOf(c, i))
             /\ ChangedOf(c, i).name = <<"changed", c.props[i].name>>
  <2>1. (c.props[i].sort = "class") \in BOOLEAN /\ 1 \in Nat /\ FALSE \in BOOLEAN
    OBVIOUS
  <2>. QED  BY <2>1, SignalIs DEF ChangedOf, Changed
<1>5. ASSUME NEW k \in 1..Number(c, M), NEW l \in 1..Number(c, M), s[k].name = s[l].name
      PROVE  k = l
  <2>. DEFINE i == Order(c, M)[k]
              j == Order(c, M)[l]
  <2>1. i \in 1..Len(c.props) /\ j \in 1..Len(c.props)
    BY OrderOf
  <2>2. <<"changed", c.props[i].name>> = <<"changed", c.props[j].name>>
    BY <1>1, <1>4, <1>5, <2>1
  <2>3. i = j
    BY <2>1, <2>2, PropTypes DEF RepClass, Distinct
  <2>. QED  BY <2>3, OrderOf
<1>6. ASSUME NEW k \in 1..Number(c, M)
      PROVE  /\ s[k] = ChangedOf(c, Order(c, M)[k]) /\ IsMethod(s[k])
             /\ s[k].name = <<"changed", c.props[Order(c, M)[k]].name>>
  <2>1. Order(c, M)[k] \in 1..Len(c.props)
    BY OrderOf
  <2>. QED  BY <1>1, <1>4, <2>1
<1>. QED  BY <1>3, <1>5, <1>6 DEF Distinct

LEMMA OwnSignalsOf ==
  ASSUME NEW c, RepClass(c), NEW s, s = OwnSignals(c)
  PROVE  /\ IsSeq(s) /\ Len(s) = Len(c.signals) /\ DOMAIN s = 1..Len(c.signals)
         /\ Len(c.signals) \in Nat /\ Distinct(s)
         /\ \A k \in 1..Len(c.signals) :
              /\ s[k] = Signal(<<"signal", c.signals[k].name>>, c.signals[k].arity, FALSE, FALSE)
              /\ IsMethod(s[k]) /\ s[k].name = <<"signal", c.signals[k].name>>
<1>1. /\ DOMAIN c.signals = 1..Len(c.signals) /\ Len(c.signals) \in Nat
      /\ \A k \in 1..Len(c.signals) : c.signals[k].name \in STRING /\ c.signals[k].arity \in Nat
  BY RepTypes
<1>2. s = [k \in 1..Len(c.signals) |->
             Signal(<<"signal", c.signals[k].name>>, c.signals[k].arity, FALSE, FALSE)]
  BY <1>1 DEF OwnSignals
<1>3. IsSeq(s) /\ Len(s) = Len(c.signals) /\ DOMAIN s = 1..Len(c.signals)
  BY <1>1, <1>2, FunctionIsSeq
<1>4. ASSUME NEW k \in 1..Len(c.signals)
      PROVE  IsMethod(s[k]) /\ s[k].name = <<"signal", c.signals[k].name>>
  <2>1. s[k] = Signal(<<"signal", c.signals[k].name>>, c.signals[k].arity, FALSE, FALSE)
    BY <1>2
  <2>2. c.signals[k].arity \in Nat /\ FALSE \in BOOLEAN
    BY <1>1
  <2>. QED  BY <2>1, <2>2, SignalIs, Zenon
<1>5. Distinct(s)
  <2>1. \A k, l \in 1..Len(c.signals) :
          <<"signal", c.signals[k].name>> = <<"signal", c.signals[l].name>> => k = l
    BY <1>1 DEF RepClass, Distinct
  <2>. QED  BY <1>3, <1>4, <2>1 DEF Distinct
<1>. QED  BY <1>1, <1>2, <1>3, <1>4, <1>5

LEMMA PushSlotsOf ==
  ASSUME NEW c, RepClass(c), NEW s, s = PushSlots(c), NEW n, n = Number(c, {"ReadPush"})
  PROVE  /\ IsSeq(s) /\ Len(s) = n /\ DOMAIN s = 1..n /\ Distinct(s)
         /\ \A k \in 1..n :
              LET i == Order(c, {"ReadPush"})[k] IN
              /\ s[k] = Slot(<<"push", c.props[i].name>>)
              /\ IsMethod(s[k]) /\ s[k].name = <<"push", c.props[i].name>>
<1>. DEFINE order == Order(c, {"ReadPush"})
<1>1. s = [k \in 1..n |-> Slot(<<"push", c.props[order[k]].name>>)]
  BY OfModifierIs DEF PushSlots
<1>2. n \in Nat /\ \A k \in 1..n : order[k] \in 1..Len(c.props)
  BY OrderOf
<1>3. IsSeq(s) /\ Len(s) = n /\ DOMAIN s = 1..n
  BY <1>1, <1>2, FunctionIsSeq
<1>4. ASSUME NEW k \in 1..n
      PROVE  IsMethod(s[k]) /\ s[k].name = <<"push", c.props[order[k]].name>>
  BY <1>1, SlotIs
<1>5. ASSUME NEW k \in 1..n, NEW l \in 1..n, s[k].name = s[l].name  PROVE k = l
  <2>1. <<"push", c.props[order[k]].name>> = <<"push", c.props[order[l]].name>>
    BY <1>4, <1>5
  <2>2. order[k] = order[l]
    BY <1>2, <2>1, PropTypes DEF RepClass, Distinct
  <2>. QED  BY <2>2, OrderOf
<1>. QED  BY <1>1, <1>3, <1>4, <1>5 DEF Distinct

LEMMA OwnSlotsOf ==
  ASSUME NEW c, RepClass(c), NEW s, s = OwnSlots(c)
  PROVE  /\ IsSeq(s) /\ Len(s) = Len(c.slots) /\ DOMAIN s = 1..Len(c.slots)
         /\ Len(c.slots) \in Nat /\ Distinct(s)
         /\ \A k \in 1..Len(c.slots) :
              /\ s[k] = Slot(<<"slot", c.slots[k]>>) /\ IsMethod(s[k])
              /\ s[k].name = <<"slot", c.slots[k]>>
<1>1. /\ DOMAIN c.slots = 1..Len(c.slots) /\ Len(c.slots) \in Nat
      /\ \A k \in 1..Len(c.slots) : c.slots[k] \in STRING
  BY RepTypes
<1>2. s = [k \in 1..Len(c.slots) |-> Slot(<<"slot", c.slots[k]>>)]
  BY <1>1 DEF OwnSlots
<1>3. IsSeq(s) /\ Len(s) = Len(c.slots) /\ DOMAIN s = 1..Len(c.slots)
  BY <1>1, <1>2, FunctionIsSeq
<1>4. ASSUME NEW k \in 1..Len(c.slots)
      PROVE  IsMethod(s[k]) /\ s[k].name = <<"slot", c.slots[k]>>
  BY <1>1, <1>2, SlotIs
<1>5. Distinct(s)
  <2>1. \A k, l \in 1..Len(c.slots) : <<"slot", c.slots[k]>> = <<"slot", c.slots[l]>> => k = l
    BY <1>1 DEF RepClass
  <2>. QED  BY <1>3, <1>4, <2>1 DEF Distinct
<1>. QED  BY <1>1, <1>2, <1>3, <1>4, <1>5

Changes(c) == Number(c, Changing)
Pushes(c) == Number(c, {"ReadPush"})

(* The signals of both ends, *)
LEMMA SourceSignalsOf ==
  ASSUME NEW c, RepClass(c)
  PROVE  LET x == SourceSignals(c)
             p == Changes(c)
             s == Len(c.signals)
         IN
         /\ IsSeq(x) /\ Len(x) = p + s /\ DOMAIN x = 1..p + s /\ Distinct(x)
         /\ p \in Nat /\ s \in Nat
         /\ \A k \in 1..p : /\ x[k] = ChangedOf(c, Order(c, Changing)[k])
                            /\ x[k].name = <<"changed", c.props[Order(c, Changing)[k]].name>>
         /\ \A k \in 1..s : /\ x[p + k].name = <<"signal", c.signals[k].name>>
                            /\ ~x[p + k].pointer
         /\ \A k \in 1..p + s :
              /\ IsMethod(x[k]) /\ x[k].sort = "signal" /\ ~x[k].cloned
              /\ k \in 1..p \/ \E l \in 1..s : k = p + l
<1>. DEFINE a == ChangedSignals(OfModifier(c, Changing))
            b == OwnSignals(c)
            x == SourceSignals(c)
            p == Changes(c)
            s == Len(c.signals)
<1>1. /\ IsSeq(a) /\ Len(a) = p /\ DOMAIN a = 1..p /\ Distinct(a)
      /\ \A k \in 1..p :
           /\ a[k] = ChangedOf(c, Order(c, Changing)[k]) /\ IsMethod(a[k])
           /\ a[k].name = <<"changed", c.props[Order(c, Changing)[k]].name>>
  BY ChangedSignalsOf DEF Changes
<1>2. /\ IsSeq(b) /\ Len(b) = s /\ DOMAIN b = 1..s /\ s \in Nat /\ Distinct(b)
      /\ \A k \in 1..s :
           /\ b[k] = Signal(<<"signal", c.signals[k].name>>, c.signals[k].arity, FALSE, FALSE)
           /\ IsMethod(b[k]) /\ b[k].name = <<"signal", c.signals[k].name>>
  BY OwnSignalsOf
<1>3. x = a \o b /\ p \in Nat
  BY OrderOf DEF SourceSignals, Changes
<1>. HIDE DEF a, b, x, p, s
<1>4. /\ IsSeq(a \o b) /\ Len(a \o b) = Len(a) + Len(b)
      /\ \A i \in 1..Len(a) : (a \o b)[i] = a[i]
      /\ \A i \in 1..Len(b) : (a \o b)[Len(a) + i] = b[i]
  <2>1. IsSeq(a) /\ IsSeq(b)
    BY <1>1, <1>2
  <2>2. Joins(a, b, a \o b)
    BY <2>1, Joined
  <2>. QED  BY <2>2 DEF Joins
<1>5. /\ IsSeq(x) /\ Len(x) = p + s /\ DOMAIN x = 1..p + s
      /\ \A i \in 1..p : x[i] = a[i]
      /\ \A i \in 1..s : x[p + i] = b[i]
      /\ \A i \in 1..p + s : i \in 1..p \/ \E j \in 1..s : i = p + j
  BY <1>1, <1>2, <1>3, <1>4, IsSeqElements, TwoParts
<1>6. Distinct(x)
  <2>1. ASSUME NEW i \in 1..p, NEW j \in 1..s  PROVE a[i].name # b[j].name
    <3>1. /\ \E n : a[i].name = <<"changed", n>>
          /\ \E n : b[j].name = <<"signal", n>>
      BY <1>1, <1>2, Zenon
    <3>. QED  BY <3>1
  <2>. QED  BY <1>1, <1>2, <1>3, <2>1, DistinctParts
<1>7. ASSUME NEW k \in 1..p
      PROVE  /\ x[k].sort = "signal" /\ ~x[k].cloned /\ IsMethod(x[k])
             /\ x[k] = ChangedOf(c, Order(c, Changing)[k])
             /\ x[k].name = <<"changed", c.props[Order(c, Changing)[k]].name>>
  <2>1. x[k] = a[k]
    BY <1>5, Zenon
  <2>. QED  BY <1>1, <2>1 DEF ChangedOf, Signal
<1>8. ASSUME NEW k \in 1..s
      PROVE  /\ x[p + k].sort = "signal" /\ ~x[p + k].cloned /\ IsMethod(x[p + k])
             /\ ~x[p + k].pointer /\ x[p + k].name = <<"signal", c.signals[k].name>>
  <2>1. x[p + k] = b[k]
    BY <1>5, Zenon
  <2>2. /\ b[k] = Signal(<<"signal", c.signals[k].name>>, c.signals[k].arity, FALSE, FALSE)
        /\ IsMethod(b[k]) /\ b[k].name = <<"signal", c.signals[k].name>>
    BY <1>2, Zenon
  <2>. QED  BY <2>1, <2>2 DEF Signal
<1>9. ASSUME NEW k \in 1..p + s
      PROVE  /\ IsMethod(x[k]) /\ x[k].sort = "signal" /\ ~x[k].cloned
             /\ k \in 1..p \/ \E l \in 1..s : k = p + l
  BY <1>5, <1>7, <1>8
<1>10. /\ IsSeq(x) /\ Len(x) = p + s /\ DOMAIN x = 1..p + s /\ Distinct(x)
       /\ p \in Nat /\ s \in Nat
  BY <1>2, <1>3, <1>5, <1>6
<1>. QED  BY <1>7, <1>8, <1>9, <1>10, Zenon DEF x, p, s

(* and their slots. *)
LEMMA SlotsOf ==
  ASSUME NEW c, RepClass(c)
  PROVE  LET z == Slots(c)
             q == Pushes(c)
             t == Len(c.slots)
         IN
         /\ IsSeq(z) /\ Len(z) = q + t /\ DOMAIN z = 1..q + t /\ Distinct(z)
         /\ q \in Nat /\ t \in Nat
         /\ \A k \in 1..q : z[k].name = <<"push", c.props[Order(c, {"ReadPush"})[k]].name>>
         /\ \A k \in 1..t : z[q + k].name = <<"slot", c.slots[k]>>
         /\ \A k \in 1..q + t :
              /\ IsMethod(z[k]) /\ z[k].sort = "slot" /\ ~z[k].pointer
              /\ k \in 1..q \/ \E l \in 1..t : k = q + l
<1>. DEFINE a == PushSlots(c)
            b == OwnSlots(c)
            z == Slots(c)
            q == Pushes(c)
            t == Len(c.slots)
<1>1. /\ IsSeq(a) /\ Len(a) = q /\ DOMAIN a = 1..q /\ Distinct(a)
      /\ \A k \in 1..q :
           LET i == Order(c, {"ReadPush"})[k] IN
           /\ a[k] = Slot(<<"push", c.props[i].name>>)
           /\ IsMethod(a[k]) /\ a[k].name = <<"push", c.props[i].name>>
  BY PushSlotsOf DEF Pushes
<1>2. /\ IsSeq(b) /\ Len(b) = t /\ DOMAIN b = 1..t /\ t \in Nat /\ Distinct(b)
      /\ \A k \in 1..t :
           /\ b[k] = Slot(<<"slot", c.slots[k]>>) /\ IsMethod(b[k])
           /\ b[k].name = <<"slot", c.slots[k]>>
  BY OwnSlotsOf
<1>3. z = a \o b /\ q \in Nat
  BY OrderOf DEF Slots, Pushes
<1>. HIDE DEF a, b, z, q, t
<1>4. /\ IsSeq(a \o b) /\ Len(a \o b) = Len(a) + Len(b)
      /\ \A i \in 1..Len(a) : (a \o b)[i] = a[i]
      /\ \A i \in 1..Len(b) : (a \o b)[Len(a) + i] = b[i]
  <2>1. IsSeq(a) /\ IsSeq(b)
    BY <1>1, <1>2
  <2>2. Joins(a, b, a \o b)
    BY <2>1, Joined
  <2>. QED  BY <2>2 DEF Joins
<1>5. /\ IsSeq(z) /\ Len(z) = q + t /\ DOMAIN z = 1..q + t
      /\ \A i \in 1..q : z[i] = a[i]
      /\ \A i \in 1..t : z[q + i] = b[i]
      /\ \A i \in 1..q + t : i \in 1..q \/ \E j \in 1..t : i = q + j
  BY <1>1, <1>2, <1>3, <1>4, IsSeqElements, TwoParts
<1>6. Distinct(z)
  <2>1. ASSUME NEW i \in 1..q, NEW j \in 1..t  PROVE a[i].name # b[j].name
    <3>1. /\ \E n : a[i].name = <<"push", n>>
          /\ \E n : b[j].name = <<"slot", n>>
      BY <1>1, <1>2, Zenon
    <3>. QED  BY <3>1
  <2>. QED  BY <1>1, <1>2, <1>3, <2>1, DistinctParts
<1>7. ASSUME NEW k \in 1..q
      PROVE  /\ z[k].sort = "slot" /\ ~z[k].pointer /\ IsMethod(z[k])
             /\ z[k].name = <<"push", c.props[Order(c, {"ReadPush"})[k]].name>>
  <2>1. z[k] = a[k]
    BY <1>5, Zenon
  <2>. QED  BY <1>1, <2>1 DEF Slot
<1>8. ASSUME NEW k \in 1..t
      PROVE  /\ z[q + k].sort = "slot" /\ ~z[q + k].pointer /\ IsMethod(z[q + k])
             /\ z[q + k].name = <<"slot", c.slots[k]>>
  <2>1. z[q + k] = b[k]
    BY <1>5, Zenon
  <2>2. /\ b[k] = Slot(<<"slot", c.slots[k]>>) /\ IsMethod(b[k])
        /\ b[k].name = <<"slot", c.slots[k]>>
    BY <1>2, Zenon
  <2>. QED  BY <2>1, <2>2 DEF Slot
<1>9. ASSUME NEW k \in 1..q + t
      PROVE  /\ IsMethod(z[k]) /\ z[k].sort = "slot" /\ ~z[k].pointer
             /\ k \in 1..q \/ \E l \in 1..t : k = q + l
  BY <1>5, <1>7, <1>8
<1>10. /\ IsSeq(z) /\ Len(z) = q + t /\ DOMAIN z = 1..q + t /\ Distinct(z)
       /\ q \in Nat /\ t \in Nat
  BY <1>2, <1>3, <1>5, <1>6
<1>. QED  BY <1>7, <1>8, <1>9, <1>10, Zenon DEF z, q, t

LEMMA Tags ==
  ASSUME NEW n
  PROVE  /\ <<"changed", n>> # None /\ <<"changed", n>>[1] = "changed"
         /\ <<"signal", n>> # None /\ <<"signal", n>>[1] = "signal"
         /\ <<"push", n>> # None /\ <<"push", n>>[1] = "push" /\ <<"push", n>>[2] = n
         /\ <<"slot", n>> # None /\ <<"slot", n>>[1] = "slot"
         /\ \A m : <<"pushUncapped", m>> \notin {<<"changed", n>>, <<"signal", n>>, <<"push", n>>,
                                                 <<"slot", n>>}
BY DEF None

(* Their names tell signals from slots. *)
LEMMA RepNames ==
  ASSUME NEW c, RepClass(c)
  PROVE  /\ \A k \in 1..Len(SourceSignals(c)) :
              LET name == SourceSignals(c)[k].name
              IN  (\E n : name = <<"changed", n>>) \/ (\E n : name = <<"signal", n>>)
         /\ \A k \in 1..Len(Slots(c)) :
              LET name == Slots(c)[k].name
              IN  (\E n : name = <<"push", n>>) \/ (\E n : name = <<"slot", n>>)
<1>. DEFINE x == SourceSignals(c)
            z == Slots(c)
            p == Changes(c)
            s == Len(c.signals)
            q == Pushes(c)
            t == Len(c.slots)
<1>1. /\ Len(x) = p + s
      /\ \A k \in 1..p : x[k].name = <<"changed", c.props[Order(c, Changing)[k]].name>>
      /\ \A k \in 1..s : x[p + k].name = <<"signal", c.signals[k].name>>
      /\ \A k \in 1..p + s : k \in 1..p \/ \E l \in 1..s : k = p + l
  BY SourceSignalsOf, Zenon
<1>2. /\ Len(z) = q + t
      /\ \A k \in 1..q : z[k].name = <<"push", c.props[Order(c, {"ReadPush"})[k]].name>>
      /\ \A k \in 1..t : z[q + k].name = <<"slot", c.slots[k]>>
      /\ \A k \in 1..q + t : k \in 1..q \/ \E l \in 1..t : k = q + l
  BY SlotsOf, Zenon
<1>. HIDE DEF x, z, p, s, q, t
<1>3. ASSUME NEW k \in 1..Len(x)
      PROVE  (\E n : x[k].name = <<"changed", n>>) \/ (\E n : x[k].name = <<"signal", n>>)
  <2>1. CASE k \in 1..p
    BY <1>1, <2>1, Zenon
  <2>2. CASE k \notin 1..p
    <3>1. k \in 1..p + s
      BY <1>1
    <3>2. PICK l \in 1..s : k = p + l
      BY <1>1, <2>2, <3>1, Zenon
    <3>. QED  BY <1>1, <3>2, Zenon
  <2>. QED  BY <2>1, <2>2
<1>4. ASSUME NEW k \in 1..Len(z)
      PROVE  (\E n : z[k].name = <<"push", n>>) \/ (\E n : z[k].name = <<"slot", n>>)
  <2>1. CASE k \in 1..q
    BY <1>2, <2>1, Zenon
  <2>2. CASE k \notin 1..q
    <3>1. k \in 1..q + t
      BY <1>2
    <3>2. PICK l \in 1..t : k = q + l
      BY <1>2, <2>2, <3>1, Zenon
    <3>. QED  BY <1>2, <3>2, Zenon
  <2>. QED  BY <2>1, <2>2
<1>. QED  BY <1>3, <1>4, Zenon DEF x, z

(* The class repc writes for the source, member by member, *)
LEMMA SourceClassOf ==
  ASSUME NEW c, RepClass(c)
  PROVE  LET w == SourceClass(c)
             x == SourceSignals(c)
             z == Slots(c)
         IN
         /\ IsSeq(w.props) /\ Len(w.props) = Len(c.props) /\ DOMAIN w.props = 1..Len(c.props)
         /\ \A i \in 1..Len(c.props) : /\ w.props[i] = SourceProperty(c.props[i])
                                       /\ IsProperty(w.props[i])
         /\ IsSeq(w.methods) /\ Len(w.methods) = Len(x) + Len(z)
         /\ DOMAIN w.methods = 1..Len(x) + Len(z) /\ Len(x) \in Nat /\ Len(z) \in Nat
         /\ \A k \in 1..Len(x) : w.methods[k] = x[k]
         /\ \A k \in 1..Len(z) : w.methods[Len(x) + k] = z[k]
         /\ \A k \in 1..Len(x) + Len(z) : k \in 1..Len(x) \/ \E l \in 1..Len(z) : k = Len(x) + l
         /\ Distinct(w.props) /\ Distinct(w.methods)
<1>. DEFINE w == SourceClass(c)
            x == SourceSignals(c)
            z == Slots(c)
            n == Len(c.props)
<1>1. DOMAIN c.props = 1..n /\ n \in Nat
  BY RepTypes
<1>2. w.props = [i \in 1..n |-> SourceProperty(c.props[i])] /\ w.methods = x \o z
  BY <1>1 DEF SourceClass
<1>3. IsSeq(x) /\ Distinct(x)
  BY SourceSignalsOf, Zenon
<1>4. IsSeq(z) /\ Distinct(z)
  BY SlotsOf, Zenon
<1>5. ASSUME NEW i \in 1..Len(x), NEW j \in 1..Len(z)  PROVE x[i].name # z[j].name
  <2>1. /\ (\E m : x[i].name = <<"changed", m>>) \/ (\E m : x[i].name = <<"signal", m>>)
        /\ (\E m : z[j].name = <<"push", m>>) \/ (\E m : z[j].name = <<"slot", m>>)
    BY RepNames, Zenon
  <2>. HIDE DEF x, z
  <2>. QED  BY <2>1
<1>6. ASSUME NEW i \in 1..n
      PROVE  /\ IsProperty(SourceProperty(c.props[i]))
             /\ SourceProperty(c.props[i]).name = <<"property", c.props[i].name>>
  <2>1. c.props[i].sort \in {"value", "class"}
    BY PropTypes
  <2>. QED  BY <2>1 DEF IsProperty, SourceProperty
<1>7. \A i, j \in 1..n :
        <<"property", c.props[i].name>> = <<"property", c.props[j].name>> => i = j
  BY <1>1 DEF RepClass, Distinct
<1>. HIDE DEF w, x, z, n
<1>8. IsSeq(w.props) /\ Len(w.props) = n /\ DOMAIN w.props = 1..n
  BY <1>1, <1>2, FunctionIsSeq
<1>9. Distinct(w.props)
  BY <1>2, <1>6, <1>7, <1>8 DEF Distinct
<1>10. /\ IsSeq(x \o z) /\ Len(x \o z) = Len(x) + Len(z)
       /\ Len(x) \in Nat /\ Len(z) \in Nat
       /\ \A i \in 1..Len(x) : (x \o z)[i] = x[i]
       /\ \A i \in 1..Len(z) : (x \o z)[Len(x) + i] = z[i]
  <2>1. IsSeq(x) /\ IsSeq(z)
    BY <1>3, <1>4
  <2>. QED  BY <2>1, Parts
<1>11. /\ IsSeq(w.methods) /\ Len(w.methods) = Len(x) + Len(z)
       /\ Len(x) \in Nat /\ Len(z) \in Nat
       /\ DOMAIN w.methods = 1..Len(x) + Len(z)
       /\ \A k \in 1..Len(x) : w.methods[k] = x[k]
       /\ \A k \in 1..Len(z) : w.methods[Len(x) + k] = z[k]
       /\ \A k \in 1..Len(x) + Len(z) : k \in 1..Len(x) \/ \E l \in 1..Len(z) : k = Len(x) + l
  BY <1>2, <1>10, IsSeqElements, TwoParts
<1>12. Distinct(w.methods)
  BY <1>2, <1>3, <1>4, <1>5, DistinctParts
<1>13. \A i \in 1..n : w.props[i] = SourceProperty(c.props[i]) /\ IsProperty(w.props[i])
  BY <1>2, <1>6
<1>. QED  BY <1>8, <1>9, <1>11, <1>12, <1>13, Zenon DEF w, x, z, n

(* which is a class that a program could have written. *)
LEMMA RepIsPlain ==
  ASSUME NEW c, RepClass(c)
  PROVE  PlainClass(SourceClass(c))
<1>. DEFINE w == SourceClass(c)
            x == SourceSignals(c)
            z == Slots(c)
            n == Len(c.props)
            p == Changes(c)
            s == Len(c.signals)
            q == Pushes(c)
            t == Len(c.slots)
            O(k) == Order(c, Changing)[k]
            P(k) == Order(c, {"ReadPush"})[k]
<1>1. /\ IsSeq(w.props) /\ DOMAIN w.props = 1..n
      /\ \A i \in 1..n : w.props[i] = SourceProperty(c.props[i]) /\ IsProperty(w.props[i])
      /\ IsSeq(w.methods) /\ DOMAIN w.methods = 1..Len(x) + Len(z)
      /\ \A k \in 1..Len(x) : w.methods[k] = x[k]
      /\ \A k \in 1..Len(z) : w.methods[Len(x) + k] = z[k]
      /\ \A k \in 1..Len(x) + Len(z) : k \in 1..Len(x) \/ \E l \in 1..Len(z) : k = Len(x) + l
      /\ Distinct(w.props) /\ Distinct(w.methods)
      /\ Len(x) \in Nat /\ Len(z) \in Nat
  BY SourceClassOf, Zenon
<1>2. /\ Len(x) = p + s /\ p \in Nat /\ s \in Nat
      /\ \A k \in 1..p : x[k] = ChangedOf(c, O(k))
      /\ \A k \in 1..s : ~x[p + k].pointer
      /\ \A k \in 1..p + s :
           /\ IsMethod(x[k]) /\ x[k].sort = "signal" /\ ~x[k].cloned
           /\ k \in 1..p \/ \E l \in 1..s : k = p + l
  BY SourceSignalsOf, Zenon
<1>3. /\ Len(z) = q + t /\ q \in Nat /\ t \in Nat
      /\ \A k \in 1..q : z[k].name = <<"push", c.props[P(k)].name>>
      /\ \A k \in 1..t : z[q + k].name = <<"slot", c.slots[k]>>
      /\ \A k \in 1..q + t :
           /\ IsMethod(z[k]) /\ ~z[k].pointer
           /\ k \in 1..q \/ \E l \in 1..t : k = q + l
  BY SlotsOf, Zenon
<1>4. \A i \in 1..n : /\ c.props[i].mod \in Modifiers /\ c.props[i].sort \in {"value", "class"}
                      /\ i \in DOMAIN c.props
  BY PropTypes
<1>5. \A k \in 1..p : O(k) \in 1..n /\ c.props[O(k)].mod \in Changing
  BY OrderOf DEF Changes
<1>6. \A i \in 1..n : c.props[i].mod \in Changing => \E k \in 1..p : O(k) = i
  BY <1>4, OrderOf DEF Changes, WithModifier
<1>7. \A k \in 1..q : P(k) \in 1..n /\ c.props[P(k)].mod = "ReadPush"
  BY OrderOf DEF Pushes
<1>8. \A i, j \in 1..n :
        c.props[i].sort = "class" =>
          c.props[i].mod = "SourceOnlySetter" /\ (c.props[j].sort = "class" => i = j)
  BY <1>4 DEF RepClass
<1>9. \A i, j \in 1..n : c.props[i].name = c.props[j].name => i = j
  BY <1>4 DEF RepClass, Distinct
<1>10. ASSUME NEW i \in 1..n
       PROVE  /\ w.props[i].name = <<"property", c.props[i].name>>
              /\ w.props[i].sort = c.props[i].sort
              /\ c.props[i].mod = "Constant" => w.props[i].notify = None
              /\ c.props[i].mod # "Constant" =>
                   w.props[i].notify = <<"changed", c.props[i].name>>
  <2>1. w.props[i] = SourceProperty(c.props[i])
    BY <1>1, Zenon
  <2>. HIDE DEF w
  <2>. QED  BY <2>1 DEF SourceProperty, Changed
<1>11. ASSUME NEW k \in 1..p
       PROVE  /\ x[k].name = <<"changed", c.props[O(k)].name>> /\ x[k].arity = 1
              /\ x[k].pointer = (c.props[O(k)].sort = "class")
  <2>1. x[k] = ChangedOf(c, O(k))
    BY <1>2, Zenon
  <2>. HIDE DEF x, O
  <2>. QED  BY <2>1 DEF ChangedOf, Signal, Changed
<1>12. \A k \in 1..Len(x) :
         (\E m : x[k].name = <<"changed", m>>) \/ (\E m : x[k].name = <<"signal", m>>)
  BY RepNames, Zenon
<1>13. \A k \in 1..Len(z) :
         (\E m : z[k].name = <<"push", m>>) \/ (\E m : z[k].name = <<"slot", m>>)
  BY RepNames, Zenon
<1>. HIDE DEF w, x, z, n, p, s, q, t, O, P
<1>14. ASSUME NEW i \in 1..n, NEW j \in 1..n, {w.props[i].sort, w.props[j].sort} = {"class"}
       PROVE  i = j
  <2>1. w.props[i].sort = "class" /\ w.props[j].sort = "class"
    BY <1>14
  <2>. QED  BY <1>8, <1>10, <2>1
<1>15. ASSUME NEW k \in 1..Len(x)
       PROVE  /\ IsMethod(x[k]) /\ x[k].name # None /\ x[k].name[1] # "push"
              /\ x[k].pointer => \E i \in 1..n :
                   w.props[i].sort = "class" /\ w.props[i].notify = x[k].name
  <2>1. k \in 1..p + s /\ IsMethod(x[k])
    BY <1>2
  <2>2. x[k].name # None /\ x[k].name[1] # "push"
    <3>1. PICK m : x[k].name = <<"changed", m>> \/ x[k].name = <<"signal", m>>
      BY <1>12, Zenon
    <3>2. CASE x[k].name = <<"changed", m>>
      BY <3>2, Tags
    <3>3. CASE x[k].name = <<"signal", m>>
      BY <3>3, Tags
    <3>. QED  BY <3>1, <3>2, <3>3
  <2>3. ASSUME x[k].pointer
        PROVE  \E i \in 1..n : w.props[i].sort = "class" /\ w.props[i].notify = x[k].name
    <3>1. k \in 1..p
      BY <1>2, <2>1, <2>3
    <3>2. O(k) \in 1..n /\ c.props[O(k)].mod \in Changing /\ c.props[O(k)].sort = "class"
      BY <1>5, <1>11, <2>3, <3>1
    <3>3. c.props[O(k)].mod # "Constant"
      BY <3>2 DEF Changing
    <3>4. /\ w.props[O(k)].sort = "class"
          /\ w.props[O(k)].notify = <<"changed", c.props[O(k)].name>>
      BY <1>10, <3>2, <3>3
    <3>. QED  BY <1>11, <3>1, <3>2, <3>4
  <2>. QED  BY <2>1, <2>2, <2>3
<1>16. ASSUME NEW k \in 1..Len(z)
       PROVE  /\ IsMethod(z[k]) /\ z[k].name # None /\ ~z[k].pointer
              /\ z[k].name[1] = "push" => \A i \in 1..n :
                   w.props[i].name = <<"property", z[k].name[2]>> => w.props[i].sort = "value"
  <2>1. k \in 1..q + t /\ IsMethod(z[k]) /\ ~z[k].pointer
    BY <1>3
  <2>2. z[k].name # None
    <3>1. PICK m : z[k].name = <<"push", m>> \/ z[k].name = <<"slot", m>>
      BY <1>13, Zenon
    <3>2. CASE z[k].name = <<"push", m>>
      BY <3>2, Tags
    <3>3. CASE z[k].name = <<"slot", m>>
      BY <3>3, Tags
    <3>. QED  BY <3>1, <3>2, <3>3
  <2>3. ASSUME z[k].name[1] = "push", NEW i \in 1..n,
               w.props[i].name = <<"property", z[k].name[2]>>
        PROVE  w.props[i].sort = "value"
    <3>1. k \in 1..q
      <4>1. ASSUME NEW l \in 1..t, k = q + l  PROVE FALSE
        <5>1. z[k].name = <<"slot", c.slots[l]>>
          BY <1>3, <4>1, Zenon
        <5>. QED  BY <2>3, <5>1
      <4>. QED  BY <1>3, <2>1, <4>1
    <3>2. z[k].name[2] = c.props[P(k)].name
      BY <1>3, <3>1
    <3>3. c.props[i].name = c.props[P(k)].name
      BY <1>10, <2>3, <3>2
    <3>4. i = P(k) /\ c.props[i].mod = "ReadPush"
      BY <1>7, <1>9, <3>1, <3>3
    <3>. QED  BY <1>4, <1>8, <1>10, <3>4
  <2>. QED  BY <2>1, <2>2, <2>3
<1>17. ASSUME NEW k \in DOMAIN w.methods
       PROVE  LET method == w.methods[k] IN
         /\ IsMethod(method) /\ method.name # None
         /\ method.pointer => \E i \in DOMAIN w.props :
              w.props[i].sort = "class" /\ w.props[i].notify = method.name
         /\ method.name[1] = "push" => \A i \in DOMAIN w.props :
              w.props[i].name = <<"property", method.name[2]>> => w.props[i].sort = "value"
  <2>1. k \in 1..Len(x) \/ \E l \in 1..Len(z) : k = Len(x) + l
    BY <1>1
  <2>2. CASE k \in 1..Len(x)
    BY <1>1, <1>15, <2>2
  <2>3. CASE \E l \in 1..Len(z) : k = Len(x) + l
    <3>1. PICK l \in 1..Len(z) : w.methods[k] = z[l]
      BY <1>1, <2>3
    <3>2. /\ IsMethod(z[l]) /\ z[l].name # None /\ ~z[l].pointer
          /\ z[l].name[1] = "push" => \A i \in DOMAIN w.props :
               w.props[i].name = <<"property", z[l].name[2]>> => w.props[i].sort = "value"
      BY <1>1, <1>16
    <3>. QED  BY <3>1, <3>2, Zenon
  <2>. QED  BY <2>1, <2>2, <2>3
<1>18. ASSUME NEW i \in DOMAIN w.props, w.props[i].notify # None
       PROVE  \E m \in DOMAIN w.methods : LET signal == w.methods[m] IN
                /\ signal.name = w.props[i].notify /\ signal.sort = "signal" /\ ~signal.cloned
                /\ signal.arity \in {0, 1}
                /\ signal.pointer <=> signal.arity = 1 /\ w.props[i].sort = "class"
  <2>1. i \in 1..n /\ c.props[i].mod \in Changing
    BY <1>1, <1>4, <1>10, <1>18 DEF Changing
  <2>2. PICK k \in 1..p : O(k) = i
    BY <1>6, <2>1
  <2>3. /\ k \in 1..Len(x) /\ k \in DOMAIN w.methods /\ w.methods[k] = x[k]
        /\ x[k].sort = "signal" /\ ~x[k].cloned
    BY <1>1, <1>2
  <2>4. /\ x[k].name = <<"changed", c.props[i].name>> /\ x[k].arity = 1
        /\ x[k].pointer = (c.props[i].sort = "class")
    BY <1>11, <2>2
  <2>5. /\ w.props[i].notify = <<"changed", c.props[i].name>>
        /\ w.props[i].sort = c.props[i].sort
    BY <1>10, <1>18, <2>1
  <2>. QED  BY <2>3, <2>4, <2>5
<1>19. PlainClass(w)
  <2>1. \A i, j \in DOMAIN w.props : {w.props[i].sort, w.props[j].sort} = {"class"} => i = j
    BY <1>1, <1>14
  <2>2. /\ \A i \in DOMAIN w.props : IsProperty(w.props[i])
        /\ \A m \in DOMAIN w.methods : IsMethod(w.methods[m])
    BY <1>1, <1>17
  <2>3. IsSeq(w.props) /\ IsSeq(w.methods) /\ Distinct(w.props) /\ Distinct(w.methods)
    BY <1>1
  <2>. QED  BY <1>17, <1>18, <2>1, <2>2, <2>3, Zenon DEF PlainClass
<1>. QED  BY <1>19 DEF w

-----------------------------------------------------------------------------
(* The object: its own class, alone or after Base *)

LEMMA BaseIs ==
  /\ IsSeq(Base.props) /\ Len(Base.props) = 1 /\ DOMAIN Base.props = 1..1
  /\ IsProperty(Base.props[1]) /\ Base.props[1].name = <<"property", "base">>
  /\ Base.props[1].sort = "value" /\ Base.props[1].notify = None
  /\ IsSeq(Base.methods) /\ Len(Base.methods) = 2 /\ DOMAIN Base.methods = 1..2
  /\ \A m \in 1..2 : /\ IsMethod(Base.methods[m]) /\ ~Base.methods[m].pointer
                     /\ Base.methods[m].name # None /\ Base.methods[m].name[1] # "push"
                     /\ Base.methods[m].name \in {<<"signal", "base">>, <<"slot", "base">>}
  /\ Distinct(Base.props) /\ Distinct(Base.methods)
<1>. DEFINE b1 == [name |-> <<"property", "base">>, sort |-> "value", write |-> FALSE,
                   fixed |-> TRUE, notify |-> None]
            m1 == Signal(<<"signal", "base">>, 0, FALSE, FALSE)
            m2 == Slot(<<"slot", "base">>)
<1>1. Base.props = <<b1>> /\ Base.methods = <<m1, m2>>
  BY DEF Base
<1>2. IsProperty(b1) /\ b1.name = <<"property", "base">> /\ b1.sort = "value" /\ b1.notify = None
  BY DEF IsProperty
<1>3. IsMethod(m1) /\ m1.name = <<"signal", "base">> /\ ~m1.pointer
  BY SignalIs DEF Signal
<1>4. IsMethod(m2) /\ m2.name = <<"slot", "base">> /\ ~m2.pointer
  BY SlotIs DEF Slot
<1>5. <<"signal", "base">> # <<"slot", "base">>
  OBVIOUS
<1>. HIDE DEF b1, m1, m2
<1>6. <<b1>> \in Seq({b1}) /\ <<m1, m2>> \in Seq({m1, m2})
  OBVIOUS
<1>7. IsSeq(Base.props) /\ IsSeq(Base.methods)
  BY <1>1, <1>6, SeqIs
<1>8. /\ Len(Base.props) = 1 /\ DOMAIN Base.props = 1..1 /\ Base.props[1] = b1
      /\ Len(Base.methods) = 2 /\ DOMAIN Base.methods = 1..2
      /\ Base.methods[1] = m1 /\ Base.methods[2] = m2
  BY <1>1
<1>9. Distinct(Base.props)
  BY <1>8 DEF Distinct
<1>10. Distinct(Base.methods)
  BY <1>3, <1>4, <1>5, <1>8 DEF Distinct
<1>11. /\ m1.name # None /\ m1.name[1] # "push"
       /\ m2.name # None /\ m2.name[1] # "push"
  BY <1>3, <1>4, Tags
<1>12. ASSUME NEW m \in 1..2
       PROVE  /\ IsMethod(Base.methods[m]) /\ ~Base.methods[m].pointer
              /\ Base.methods[m].name # None /\ Base.methods[m].name[1] # "push"
              /\ Base.methods[m].name \in {<<"signal", "base">>, <<"slot", "base">>}
  <2>1. m = 1 \/ m = 2
    OBVIOUS
  <2>2. CASE m = 1
    BY <1>3, <1>8, <1>11, <2>2
  <2>3. CASE m = 2
    BY <1>4, <1>8, <1>11, <2>3
  <2>. QED  BY <2>1, <2>2, <2>3
<1>. QED  BY <1>2, <1>7, <1>8, <1>9, <1>10, <1>12

LEMMA PlainIs ==
  ASSUME NEW w, PlainClass(w)
  PROVE  /\ IsSeq(w.props) /\ Len(w.props) \in Nat /\ DOMAIN w.props = 1..Len(w.props)
         /\ IsSeq(w.methods) /\ Len(w.methods) \in Nat /\ DOMAIN w.methods = 1..Len(w.methods)
         /\ Distinct(w.props) /\ Distinct(w.methods)
         /\ \A i \in DOMAIN w.props : IsProperty(w.props[i])
         /\ \A m \in DOMAIN w.methods : IsMethod(w.methods[m]) /\ w.methods[m].name # None
<1>1. /\ IsSeq(w.props) /\ IsSeq(w.methods) /\ Distinct(w.props) /\ Distinct(w.methods)
      /\ \A i \in DOMAIN w.props : IsProperty(w.props[i])
      /\ \A m \in DOMAIN w.methods : IsMethod(w.methods[m]) /\ w.methods[m].name # None
  BY DEF PlainClass
<1>. QED  BY <1>1, IsSeqElements

ObjectIs(d, w, o) ==
  LET po == PropertyOffset(d)
      mo == MethodOffset(d)
  IN
  /\ po \in Nat /\ mo \in Nat /\ Len(w.props) \in Nat /\ Len(w.methods) \in Nat
  /\ DOMAIN w.props = 1..Len(w.props) /\ DOMAIN w.methods = 1..Len(w.methods)
  /\ DOMAIN o.props = 1..po + Len(w.props) /\ DOMAIN o.methods = 1..mo + Len(w.methods)
  /\ Len(o.props) = po + Len(w.props) /\ Len(o.methods) = mo + Len(w.methods)
  /\ \A i \in 1..Len(w.props) : o.props[po + i] = w.props[i]
  /\ \A m \in 1..Len(w.methods) : o.methods[mo + m] = w.methods[m]
  /\ \A i \in DOMAIN o.props : o.props[i].notify # None => i > po
  /\ \A m \in 1..mo : o.methods[m].name \in {<<"signal", "base">>, <<"slot", "base">>}
  /\ PlainClass(o) /\ NotifiersAreOwn(mo, o)

LEMMA ObjectAlone ==
  ASSUME NEW d, PlainClass(Own(d)), ~d.base
  PROVE  ObjectIs(d, Own(d), ObjectOf(d))
<1>1. ObjectOf(d) = Own(d) /\ PropertyOffset(d) = 0 /\ MethodOffset(d) = 0
  BY DEF ObjectOf, PropertyOffset, MethodOffset
<1>. DEFINE w == Own(d)
<1>. HIDE DEF w
<1>2. /\ Len(w.props) \in Nat /\ DOMAIN w.props = 1..Len(w.props)
      /\ Len(w.methods) \in Nat /\ DOMAIN w.methods = 1..Len(w.methods)
  BY PlainIs DEF w
<1>3. (\A m \in DOMAIN w.methods : m > 0) /\ (\A i \in DOMAIN w.props : i > 0)
  BY <1>2
<1>4. ObjectIs(d, w, w)
  <2>1. \A m \in 1..0 : FALSE
    OBVIOUS
  <2>. QED  BY <1>1, <1>2, <1>3, <2>1 DEF ObjectIs, NotifiersAreOwn, w
<1>. QED  BY <1>1, <1>4 DEF w

LEMMA ObjectAfterBase ==
  ASSUME NEW d, PlainClass(Own(d)), d.base, ApartFromBase(Own(d))
  PROVE  ObjectIs(d, Own(d), ObjectOf(d))
<1>. DEFINE w == Own(d)
            o == ObjectOf(d)
            n == Len(w.props)
            l == Len(w.methods)
<1>1. /\ o.props = Base.props \o w.props /\ o.methods = Base.methods \o w.methods
      /\ PropertyOffset(d) = 1 /\ MethodOffset(d) = 2
  BY BaseIs DEF ObjectOf, PropertyOffset, MethodOffset
<1>2. PlainClass(w) /\ ApartFromBase(w)
  OBVIOUS
<1>. HIDE DEF w, o
<1>3. /\ IsSeq(w.props) /\ n \in Nat /\ DOMAIN w.props = 1..n
      /\ IsSeq(w.methods) /\ l \in Nat /\ DOMAIN w.methods = 1..l
      /\ Distinct(w.props) /\ Distinct(w.methods)
      /\ \A i \in DOMAIN w.props : IsProperty(w.props[i])
      /\ \A m \in DOMAIN w.methods : IsMethod(w.methods[m]) /\ w.methods[m].name # None
  BY <1>2, PlainIs
<1>4. /\ IsSeq(o.props) /\ Len(o.props) = 1 + n
      /\ \A i \in 1..1 : o.props[i] = Base.props[i]
      /\ \A i \in 1..n : o.props[1 + i] = w.props[i]
  <2>1. IsSeq(Base.props) /\ Len(Base.props) = 1
    BY BaseIs
  <2>. DEFINE b == Base.props
              v == w.props
  <2>2. IsSeq(b) /\ IsSeq(v)
    BY <1>3, <2>1
  <2>. HIDE DEF b, v
  <2>3. /\ IsSeq(b \o v) /\ Len(b \o v) = Len(b) + Len(v)
        /\ \A i \in 1..Len(b) : (b \o v)[i] = b[i]
        /\ \A i \in 1..Len(v) : (b \o v)[Len(b) + i] = v[i]
    BY <2>2, Parts
  <2>. QED  BY <1>1, <2>1, <2>3 DEF b, v
<1>5. /\ IsSeq(o.methods) /\ Len(o.methods) = 2 + l
      /\ \A i \in 1..2 : o.methods[i] = Base.methods[i]
      /\ \A i \in 1..l : o.methods[2 + i] = w.methods[i]
  <2>1. IsSeq(Base.methods) /\ Len(Base.methods) = 2
    BY BaseIs
  <2>. DEFINE b == Base.methods
              v == w.methods
  <2>2. IsSeq(b) /\ IsSeq(v)
    BY <1>3, <2>1
  <2>. HIDE DEF b, v
  <2>3. /\ IsSeq(b \o v) /\ Len(b \o v) = Len(b) + Len(v)
        /\ \A i \in 1..Len(b) : (b \o v)[i] = b[i]
        /\ \A i \in 1..Len(v) : (b \o v)[Len(b) + i] = v[i]
    BY <2>2, Parts
  <2>. QED  BY <1>1, <2>1, <2>3 DEF b, v
<1>6. DOMAIN o.props = 1..1 + n /\ DOMAIN o.methods = 1..2 + l
  BY <1>4, <1>5, IsSeqElements
<1>7. /\ \A i \in DOMAIN o.props : i = 1 \/ \E j \in 1..n : i = 1 + j
      /\ \A m \in DOMAIN o.methods : m \in 1..2 \/ \E k \in 1..l : m = 2 + k
  <2>1. \A m \in 1..2 + l : m \in 1..2 \/ \E k \in 1..l : m = 2 + k
    BY <1>3, TwoParts
  <2>2. \A m \in 1..1 + n : m \in 1..1 \/ \E k \in 1..n : m = 1 + k
    BY <1>3, TwoParts
  <2>. QED  BY <1>6, <2>1, <2>2
<1>8. /\ \A i \in 1..n : w.props[i].name # <<"property", "base">>
      /\ \A m \in 1..l : w.methods[m].name \notin {<<"signal", "base">>, <<"slot", "base">>}
  BY <1>2, <1>3 DEF ApartFromBase
<1>9. Distinct(o.props)
  <2>1. \A i \in 1..1, j \in 1..n : Base.props[i].name # w.props[j].name
    BY <1>8, BaseIs
  <2>2. \A i \in 1..Len(Base.props), j \in 1..Len(w.props) :
          Base.props[i].name # w.props[j].name
    BY <2>1, BaseIs
  <2>3. IsSeq(Base.props) /\ Distinct(Base.props)
    BY BaseIs
  <2>4. o.props = Base.props \o w.props /\ IsSeq(w.props) /\ Distinct(w.props)
    BY <1>1, <1>3
  <2>5. Distinct(Base.props \o w.props)
    BY <2>2, <2>3, <2>4, DistinctParts, Zenon
  <2>. QED  BY <2>4, <2>5
<1>10. Distinct(o.methods)
  <2>1. \A i \in 1..2, j \in 1..l : Base.methods[i].name # w.methods[j].name
    BY <1>8, BaseIs
  <2>2. \A i \in 1..Len(Base.methods), j \in 1..Len(w.methods) :
          Base.methods[i].name # w.methods[j].name
    BY <2>1, BaseIs
  <2>3. IsSeq(Base.methods) /\ Distinct(Base.methods)
    BY BaseIs
  <2>4. o.methods = Base.methods \o w.methods /\ IsSeq(w.methods) /\ Distinct(w.methods)
    BY <1>1, <1>3
  <2>5. Distinct(Base.methods \o w.methods)
    BY <2>2, <2>3, <2>4, DistinctParts, Zenon
  <2>. QED  BY <2>4, <2>5
<1>11. o.props[1] = Base.props[1] /\ 1 \in DOMAIN o.props
  BY <1>3, <1>4, <1>6
<1>12. ASSUME NEW i \in DOMAIN o.props, NEW j \in DOMAIN o.props,
              {o.props[i].sort, o.props[j].sort} = {"class"}
       PROVE  i = j
  <2>1. o.props[i].sort = "class" /\ o.props[j].sort = "class"
    BY <1>12
  <2>2. i # 1 /\ j # 1
    BY <1>11, <2>1, BaseIs
  <2>3. PICK a \in 1..n, b \in 1..n : i = 1 + a /\ j = 1 + b
    BY <1>7, <2>2
  <2>4. w.props[a].sort = "class" /\ w.props[b].sort = "class"
    BY <1>4, <2>1, <2>3
  <2>5. a = b
    BY <1>2, <1>3, <2>4 DEF PlainClass
  <2>. QED  BY <2>3, <2>5
<1>13. \A i \in DOMAIN o.props : IsProperty(o.props[i])
  <2>1. IsProperty(o.props[1])
    BY <1>11, BaseIs
  <2>2. \A j \in 1..n : IsProperty(o.props[1 + j])
    BY <1>3, <1>4
  <2>. QED  BY <1>7, <2>1, <2>2
<1>14. ASSUME NEW m \in DOMAIN o.methods
       PROVE  LET method == o.methods[m] IN
         /\ IsMethod(method) /\ method.name # None
         /\ method.pointer => \E i \in DOMAIN o.props :
              o.props[i].sort = "class" /\ o.props[i].notify = method.name
         /\ method.name[1] = "push" => \A i \in DOMAIN o.props :
              o.props[i].name = <<"property", method.name[2]>> => o.props[i].sort = "value"
  <2>1. CASE m \in 1..2
    <3>1. o.methods[m] = Base.methods[m]
      BY <1>5, <2>1
    <3>. QED  BY <2>1, <3>1, BaseIs, Zenon
  <2>2. CASE m \notin 1..2
    <3>1. PICK k \in 1..l : m = 2 + k
      BY <1>7, <2>2
    <3>2. o.methods[m] = w.methods[k] /\ k \in DOMAIN w.methods
      BY <1>3, <1>5, <3>1
    <3>3. /\ IsMethod(w.methods[k]) /\ w.methods[k].name # None
          /\ w.methods[k].pointer => \E i \in DOMAIN w.props :
               w.props[i].sort = "class" /\ w.props[i].notify = w.methods[k].name
          /\ w.methods[k].name[1] = "push" => \A i \in DOMAIN w.props :
               w.props[i].name = <<"property", w.methods[k].name[2]>> =>
                 w.props[i].sort = "value"
      BY <1>2, <3>2, Zenon DEF PlainClass
    <3>4. \A i \in 1..n : 1 + i \in DOMAIN o.props /\ o.props[1 + i] = w.props[i]
      BY <1>4, <1>6
    <3>5. o.methods[m].pointer => \E i \in DOMAIN o.props :
            o.props[i].sort = "class" /\ o.props[i].notify = o.methods[m].name
      BY <1>3, <3>2, <3>3, <3>4
    <3>6. ASSUME o.methods[m].name[1] = "push", NEW i \in DOMAIN o.props,
                 o.props[i].name = <<"property", o.methods[m].name[2]>>
          PROVE  o.props[i].sort = "value"
      <4>1. CASE i = 1
        BY <1>11, <4>1, BaseIs
      <4>2. CASE i # 1
        <5>1. PICK j \in 1..n : i = 1 + j
          BY <1>7, <4>2
        <5>2. o.props[i] = w.props[j] /\ j \in DOMAIN w.props
          BY <1>3, <3>4, <5>1
        <5>. QED  BY <3>2, <3>3, <3>6, <5>2, Zenon
      <4>. QED  BY <4>1, <4>2
    <3>. QED  BY <3>2, <3>3, <3>5, <3>6, Zenon
  <2>. QED  BY <2>1, <2>2
<1>15. ASSUME NEW i \in DOMAIN o.props, o.props[i].notify # None
       PROVE  \E k \in 1..l : LET signal == w.methods[k] IN
                /\ signal.name = o.props[i].notify /\ signal.sort = "signal" /\ ~signal.cloned
                /\ signal.arity \in {0, 1}
                /\ signal.pointer <=> signal.arity = 1 /\ o.props[i].sort = "class"
  <2>1. i # 1
    BY <1>11, <1>15, BaseIs
  <2>2. PICK j \in 1..n : i = 1 + j
    BY <1>7, <2>1
  <2>3. o.props[i] = w.props[j] /\ j \in DOMAIN w.props
    BY <1>3, <1>4, <2>2
  <2>4. w.props[j].notify # None
    BY <1>15, <2>3
  <2>5. \E k \in DOMAIN w.methods : LET signal == w.methods[k] IN
          /\ signal.name = w.props[j].notify /\ signal.sort = "signal" /\ ~signal.cloned
          /\ signal.arity \in {0, 1}
          /\ signal.pointer <=> signal.arity = 1 /\ w.props[j].sort = "class"
    BY <1>2, <2>3, <2>4, Zenon DEF PlainClass
  <2>. QED  BY <1>3, <2>3, <2>5, Zenon
<1>16. ASSUME NEW i \in DOMAIN o.props, o.props[i].notify # None
       PROVE  \E m \in DOMAIN o.methods : LET signal == o.methods[m] IN
                /\ signal.name = o.props[i].notify /\ signal.sort = "signal" /\ ~signal.cloned
                /\ signal.arity \in {0, 1}
                /\ signal.pointer <=> signal.arity = 1 /\ o.props[i].sort = "class"
  <2>1. PICK k \in 1..l : LET signal == w.methods[k] IN
                /\ signal.name = o.props[i].notify /\ signal.sort = "signal" /\ ~signal.cloned
                /\ signal.arity \in {0, 1}
                /\ signal.pointer <=> signal.arity = 1 /\ o.props[i].sort = "class"
    BY <1>15, <1>16
  <2>2. o.methods[2 + k] = w.methods[k] /\ 2 + k \in DOMAIN o.methods
    BY <1>3, <1>5, <1>6
  <2>. QED  BY <2>1, <2>2, Zenon
<1>17. PlainClass(o)
  BY <1>4, <1>5, <1>9, <1>10, <1>12, <1>13, <1>14, <1>16, Zenon DEF PlainClass
<1>18. ASSUME NEW i \in DOMAIN o.props, NEW m \in DOMAIN o.methods,
              o.methods[m].name = o.props[i].notify
       PROVE  m > 2
  <2>1. o.props[i].notify # None
    BY <1>14, <1>18, Zenon
  <2>2. PICK k \in 1..l : w.methods[k].name = o.props[i].notify
    BY <1>15, <2>1
  <2>3. o.methods[m].name \notin {<<"signal", "base">>, <<"slot", "base">>}
    BY <1>8, <1>18, <2>2
  <2>4. m \notin 1..2
    BY <1>5, <2>3, BaseIs
  <2>. QED  BY <1>6, <2>4
<1>19. ObjectIs(d, w, o)
  <2>1. NotifiersAreOwn(2, o)
    BY <1>18 DEF NotifiersAreOwn
  <2>2. 1 \in Nat /\ 2 \in Nat
    OBVIOUS
  <2>3. ASSUME NEW i \in DOMAIN o.props, o.props[i].notify # None  PROVE i > 1
    <3>1. i # 1
      BY <1>11, <2>3, BaseIs
    <3>. QED  BY <1>6, <3>1
  <2>4. \A m \in 1..2 : o.methods[m].name \in {<<"signal", "base">>, <<"slot", "base">>}
    BY <1>5, BaseIs, Zenon
  <2>5. /\ DOMAIN o.props = 1..1 + n /\ DOMAIN o.methods = 1..2 + l
        /\ Len(o.props) = 1 + n /\ Len(o.methods) = 2 + l
        /\ \A i \in 1..n : o.props[1 + i] = w.props[i]
        /\ \A m \in 1..l : o.methods[2 + m] = w.methods[m]
    BY <1>4, <1>5, <1>6, Zenon
  <2>6. /\ n \in Nat /\ l \in Nat /\ DOMAIN w.props = 1..n /\ DOMAIN w.methods = 1..l
    BY <1>3, Zenon
  <2>7. PropertyOffset(d) = 1 /\ MethodOffset(d) = 2
    BY <1>1, Zenon
  <2>. QED  BY <1>17, <2>1, <2>2, <2>3, <2>4, <2>5, <2>6, <2>7, Zenon DEF ObjectIs
<1>. QED  BY <1>19 DEF w, o

LEMMA DesignObject ==
  ASSUME NEW d \in Designs
  PROVE  ObjectIs(d, Own(d), ObjectOf(d))
<1>1. /\ d.base \in BOOLEAN
      /\ \/ d.pub = "plain" /\ PlainClass(d.class)
         \/ d.pub \in {"repc", "derived"} /\ RepClass(d.class)
      /\ d.base => ApartFromBase(Own(d))
  BY DesignsAreClasses
<1>2. PlainClass(Own(d))
  BY <1>1, RepIsPlain DEF Own
<1>. QED  BY <1>1, <1>2, ObjectAlone, ObjectAfterBase

-----------------------------------------------------------------------------
(* The tables of the host *)

LEMMA TwoLists ==
  ASSUME NEW f, IsSeq(f), NEW g, IsSeq(g)
  PROVE  /\ DOMAIN (f \o g) = 1..Len(f) + Len(g)
         /\ \A i \in 1..Len(f) : (f \o g)[i] = f[i]
         /\ \A i \in 1..Len(g) : (f \o g)[Len(f) + i] = g[i]
<1>1. /\ IsSeq(f \o g) /\ Len(f \o g) = Len(f) + Len(g)
      /\ \A i \in 1..Len(f) : (f \o g)[i] = f[i]
      /\ \A i \in 1..Len(g) : (f \o g)[Len(f) + i] = g[i]
  BY Parts
<1>2. DOMAIN (f \o g) = 1..Len(f \o g)
  BY <1>1, IsSeqElements
<1>. QED  BY <1>1, <1>2

(* A class's names, *)
LEMMA ApiNamesOf ==
  ASSUME NEW c, RepClass(c)
  PROVE  LET x == SourceSignals(c)
             z == Slots(c)
         IN
         /\ DOMAIN ApiSignalNames(c) = 1..Len(x) /\ DOMAIN ApiMethodNames(c) = 1..Len(z)
         /\ \A k \in 1..Len(x) : ApiSignalNames(c)[k] = x[k].name
         /\ \A k \in 1..Len(z) : ApiMethodNames(c)[k] = z[k].name
         /\ \A k \in 1..Len(z) :
              \/ MethodSignatures(c)[k] = z[k].name
              \/ /\ z[k].name[1] = "push"
                 /\ \E n : MethodSignatures(c)[k] = <<"pushUncapped", n>>
<1>. DEFINE x == SourceSignals(c)
            z == Slots(c)
            p == Changes(c)
            s == Len(c.signals)
            q == Pushes(c)
            t == Len(c.slots)
            O(k) == Order(c, Changing)[k]
            P(k) == Order(c, {"ReadPush"})[k]
            f1 == [k \in 1..p |-> <<"changed", c.props[O(k)].name>>]
            f2 == [k \in 1..s |-> <<"signal", c.signals[k].name>>]
            g1 == [k \in 1..q |-> <<"push", c.props[P(k)].name>>]
            g2 == [k \in 1..t |-> <<"slot", c.slots[k]>>]
            h1 == [k \in 1..q |-> <<IF c.props[P(k)].enum THEN "pushUncapped" ELSE "push",
                                    c.props[P(k)].name>>]
<1>1. /\ Len(x) = p + s /\ p \in Nat /\ s \in Nat
      /\ \A k \in 1..p : x[k].name = <<"changed", c.props[O(k)].name>>
      /\ \A k \in 1..s : x[p + k].name = <<"signal", c.signals[k].name>>
      /\ \A k \in 1..p + s : k \in 1..p \/ \E l \in 1..s : k = p + l
  BY SourceSignalsOf, Zenon
<1>2. /\ Len(z) = q + t /\ q \in Nat /\ t \in Nat
      /\ \A k \in 1..q : z[k].name = <<"push", c.props[P(k)].name>>
      /\ \A k \in 1..t : z[q + k].name = <<"slot", c.slots[k]>>
      /\ \A k \in 1..q + t : k \in 1..q \/ \E l \in 1..t : k = q + l
  BY SlotsOf, Zenon
<1>3. ApiSignalNames(c) = f1 \o f2
  <2>1. [i \in DOMAIN OfModifier(c, Changing) |-> Changed(OfModifier(c, Changing)[i])] = f1
    BY OfModifierIs DEF Changed, Changes
  <2>2. DOMAIN c.signals = 1..s
    BY RepTypes
  <2>. HIDE DEF f1
  <2>. QED  BY <2>1, <2>2, Zenon DEF ApiSignalNames
<1>4. ApiMethodNames(c) = g1 \o g2 /\ MethodSignatures(c) = h1 \o g2
  <2>. DEFINE pushed == OfModifier(c, {"ReadPush"})
  <2>1. /\ [i \in DOMAIN pushed |-> <<"push", pushed[i].name>>] = g1
        /\ [i \in DOMAIN pushed |-> <<IF pushed[i].enum THEN "pushUncapped" ELSE "push",
                                      pushed[i].name>>] = h1
    BY OfModifierIs DEF Pushes
  <2>2. DOMAIN c.slots = 1..t
    BY RepTypes
  <2>3. [i \in DOMAIN c.slots |-> <<"slot", c.slots[i]>>] = g2
    BY <2>2
  <2>. HIDE DEF g1, h1, g2
  <2>. QED  BY <2>1, <2>3, Zenon DEF ApiMethodNames, MethodSignatures
<1>5. /\ IsSeq(f1) /\ Len(f1) = p /\ IsSeq(f2) /\ Len(f2) = s
      /\ IsSeq(g1) /\ Len(g1) = q /\ IsSeq(g2) /\ Len(g2) = t
      /\ IsSeq(h1) /\ Len(h1) = q
  <2>1. /\ f1 = [k \in 1..p |-> f1[k]] /\ f2 = [k \in 1..s |-> f2[k]]
        /\ g1 = [k \in 1..q |-> g1[k]] /\ g2 = [k \in 1..t |-> g2[k]]
        /\ h1 = [k \in 1..q |-> h1[k]]
    OBVIOUS
  <2>2. p \in Nat /\ s \in Nat /\ q \in Nat /\ t \in Nat
    BY <1>1, <1>2
  <2>. HIDE DEF f1, f2, g1, g2, h1, p, s, q, t
  <2>3. IsSeq(f1) /\ Len(f1) = p
    BY <2>1, <2>2, FunctionIsSeq
  <2>4. IsSeq(f2) /\ Len(f2) = s
    BY <2>1, <2>2, FunctionIsSeq
  <2>5. IsSeq(g1) /\ Len(g1) = q
    BY <2>1, <2>2, FunctionIsSeq
  <2>6. IsSeq(g2) /\ Len(g2) = t
    BY <2>1, <2>2, FunctionIsSeq
  <2>7. IsSeq(h1) /\ Len(h1) = q
    BY <2>1, <2>2, FunctionIsSeq
  <2>. QED  BY <2>3, <2>4, <2>5, <2>6, <2>7
<1>6. /\ \A k \in 1..p : f1[k] = <<"changed", c.props[O(k)].name>>
      /\ \A k \in 1..s : f2[k] = <<"signal", c.signals[k].name>>
      /\ \A k \in 1..q : g1[k] = <<"push", c.props[P(k)].name>>
      /\ \A k \in 1..t : g2[k] = <<"slot", c.slots[k]>>
      /\ \A k \in 1..q : \/ h1[k] = <<"push", c.props[P(k)].name>>
                         \/ h1[k] = <<"pushUncapped", c.props[P(k)].name>>
  <2>1. \A k \in 1..q : \/ h1[k] = <<"push", c.props[P(k)].name>>
                         \/ h1[k] = <<"pushUncapped", c.props[P(k)].name>>
    OBVIOUS
  <2>. QED  BY <2>1
<1>. HIDE DEF x, z, p, s, q, t, O, P, f1, f2, g1, g2, h1
<1>7. /\ DOMAIN (f1 \o f2) = 1..p + s
      /\ \A i \in 1..p : (f1 \o f2)[i] = f1[i]
      /\ \A i \in 1..s : (f1 \o f2)[p + i] = f2[i]
  <2>1. IsSeq(f1) /\ IsSeq(f2)
    BY <1>5
  <2>2. /\ DOMAIN (f1 \o f2) = 1..Len(f1) + Len(f2)
        /\ \A i \in 1..Len(f1) : (f1 \o f2)[i] = f1[i]
        /\ \A i \in 1..Len(f2) : (f1 \o f2)[Len(f1) + i] = f2[i]
    BY <2>1, TwoLists
  <2>. QED  BY <1>5, <2>2
<1>8. /\ DOMAIN (g1 \o g2) = 1..q + t
      /\ \A i \in 1..q : (g1 \o g2)[i] = g1[i]
      /\ \A i \in 1..t : (g1 \o g2)[q + i] = g2[i]
  <2>1. IsSeq(g1) /\ IsSeq(g2)
    BY <1>5
  <2>2. /\ DOMAIN (g1 \o g2) = 1..Len(g1) + Len(g2)
        /\ \A i \in 1..Len(g1) : (g1 \o g2)[i] = g1[i]
        /\ \A i \in 1..Len(g2) : (g1 \o g2)[Len(g1) + i] = g2[i]
    BY <2>1, TwoLists
  <2>. QED  BY <1>5, <2>2
<1>9. /\ \A i \in 1..q : (h1 \o g2)[i] = h1[i]
      /\ \A i \in 1..t : (h1 \o g2)[q + i] = g2[i]
  <2>1. IsSeq(h1) /\ IsSeq(g2)
    BY <1>5
  <2>2. /\ DOMAIN (h1 \o g2) = 1..Len(h1) + Len(g2)
        /\ \A i \in 1..Len(h1) : (h1 \o g2)[i] = h1[i]
        /\ \A i \in 1..Len(g2) : (h1 \o g2)[Len(h1) + i] = g2[i]
    BY <2>1, TwoLists
  <2>. QED  BY <1>5, <2>2
<1>10. ASSUME NEW k \in 1..Len(x)  PROVE ApiSignalNames(c)[k] = x[k].name
  <2>1. k \in 1..p \/ \E l \in 1..s : k = p + l
    BY <1>1
  <2>2. CASE k \in 1..p
    <3>1. (f1 \o f2)[k] = <<"changed", c.props[O(k)].name>>
      BY <1>6, <1>7, <2>2, Zenon
    <3>2. x[k].name = <<"changed", c.props[O(k)].name>>
      BY <1>1, <2>2, Zenon
    <3>. QED  BY <1>3, <3>1, <3>2, Zenon
  <2>3. ASSUME NEW l \in 1..s, k = p + l  PROVE ApiSignalNames(c)[k] = x[k].name
    <3>1. (f1 \o f2)[k] = <<"signal", c.signals[l].name>>
      BY <1>6, <1>7, <2>3, Zenon
    <3>2. x[k].name = <<"signal", c.signals[l].name>>
      BY <1>1, <2>3, Zenon
    <3>. QED  BY <1>3, <3>1, <3>2, Zenon
  <2>. QED  BY <2>1, <2>2, <2>3
<1>11. ASSUME NEW k \in 1..Len(z)
       PROVE  /\ ApiMethodNames(c)[k] = z[k].name
              /\ \/ MethodSignatures(c)[k] = z[k].name
                 \/ /\ z[k].name[1] = "push"
                    /\ \E n : MethodSignatures(c)[k] = <<"pushUncapped", n>>
  <2>1. CASE k \in 1..q
    <3>1. ApiMethodNames(c)[k] = z[k].name
      BY <1>2, <1>4, <1>6, <1>8, <2>1, Zenon
    <3>2. z[k].name[1] = "push"
      BY <1>2, <2>1, Tags
    <3>3. \/ MethodSignatures(c)[k] = z[k].name
          \/ \E n : MethodSignatures(c)[k] = <<"pushUncapped", n>>
      <4>1. (h1 \o g2)[k] = h1[k]
        BY <1>9, <2>1, Zenon
      <4>2. \/ h1[k] = <<"push", c.props[P(k)].name>>
            \/ h1[k] = <<"pushUncapped", c.props[P(k)].name>>
        BY <1>6, <2>1, Zenon
      <4>3. z[k].name = <<"push", c.props[P(k)].name>>
        BY <1>2, <2>1, Zenon
      <4>. QED  BY <1>4, <4>1, <4>2, <4>3, Zenon
    <3>. QED  BY <3>1, <3>2, <3>3
  <2>2. CASE \E l \in 1..t : k = q + l
    <3>1. PICK l \in 1..t : k = q + l
      BY <2>2
    <3>2. (g1 \o g2)[k] = <<"slot", c.slots[l]>> /\ (h1 \o g2)[k] = <<"slot", c.slots[l]>>
      BY <1>6, <1>8, <1>9, <3>1, Zenon
    <3>3. z[k].name = <<"slot", c.slots[l]>>
      BY <1>2, <3>1, Zenon
    <3>. QED  BY <1>4, <3>2, <3>3, Zenon
  <2>3. k \in 1..q \/ \E l \in 1..t : k = q + l
    BY <1>2
  <2>. QED  BY <2>1, <2>2, <2>3
<1>12. DOMAIN ApiSignalNames(c) = 1..Len(x) /\ DOMAIN ApiMethodNames(c) = 1..Len(z)
  BY <1>1, <1>2, <1>3, <1>4, <1>7, <1>8
<1>. QED  BY <1>10, <1>11, <1>12, Zenon DEF x, z

(* the object of a class repc wrote, *)
LEMMA RepObject ==
  ASSUME NEW d \in Designs, d.pub \in {"repc", "derived"}
  PROVE  LET c == d.class
             o == ObjectOf(d)
             x == SourceSignals(c)
             z == Slots(c)
             po == PropertyOffset(d)
             mo == MethodOffset(d)
             n == Len(c.props)
         IN
         /\ RepClass(c) /\ DOMAIN Own(d).props = 1..n
         /\ po \in Nat /\ mo \in Nat /\ n \in Nat /\ Len(x) \in Nat /\ Len(z) \in Nat
         /\ DOMAIN o.props = 1..po + n /\ Len(o.props) = po + n
         /\ DOMAIN o.methods = 1..mo + Len(x) + Len(z) /\ Len(o.methods) = mo + Len(x) + Len(z)
         /\ \A i \in 1..n : o.props[po + i] = SourceProperty(c.props[i])
         /\ \A k \in 1..Len(x) : o.methods[mo + k] = x[k]
         /\ \A k \in 1..Len(z) : o.methods[mo + Len(x) + k] = z[k]
         /\ PlainClass(o) /\ NotifiersAreOwn(mo, o) /\ Distinct(o.props) /\ Distinct(o.methods)
<1>. DEFINE c == d.class
            o == ObjectOf(d)
            w == SourceClass(c)
            x == SourceSignals(c)
            z == Slots(c)
            po == PropertyOffset(d)
            mo == MethodOffset(d)
            n == Len(c.props)
<1>1. RepClass(c) /\ Own(d) = w
  BY DesignsAreClasses DEF Own
<1>2. ObjectIs(d, w, o)
  BY <1>1, DesignObject
<1>3. /\ Len(w.props) = n /\ DOMAIN w.props = 1..n
      /\ \A i \in 1..n : w.props[i] = SourceProperty(c.props[i])
      /\ Len(w.methods) = Len(x) + Len(z) /\ Len(x) \in Nat /\ Len(z) \in Nat
      /\ \A k \in 1..Len(x) : w.methods[k] = x[k]
      /\ \A k \in 1..Len(z) : w.methods[Len(x) + k] = z[k]
  BY <1>1, SourceClassOf, Zenon
<1>4. /\ po \in Nat /\ mo \in Nat /\ Len(w.props) \in Nat
      /\ DOMAIN o.props = 1..po + Len(w.props) /\ DOMAIN o.methods = 1..mo + Len(w.methods)
      /\ Len(o.props) = po + Len(w.props) /\ Len(o.methods) = mo + Len(w.methods)
      /\ \A i \in 1..Len(w.props) : o.props[po + i] = w.props[i]
      /\ \A m \in 1..Len(w.methods) : o.methods[mo + m] = w.methods[m]
      /\ PlainClass(o) /\ NotifiersAreOwn(mo, o)
  BY <1>2 DEF ObjectIs
<1>5. Distinct(o.props) /\ Distinct(o.methods)
  BY <1>4, PlainIs
<1>. HIDE DEF c, o, w, x, z, po, mo, n
<1>6. ASSUME NEW k \in 1..Len(x)  PROVE o.methods[mo + k] = x[k]
  <2>1. k \in 1..Len(w.methods)
    BY <1>3
  <2>. QED  BY <1>3, <1>4, <2>1, Zenon
<1>7. ASSUME NEW k \in 1..Len(z)  PROVE o.methods[mo + Len(x) + k] = z[k]
  <2>1. Len(x) + k \in 1..Len(w.methods) /\ mo + Len(x) + k = mo + (Len(x) + k)
    BY <1>3, <1>4
  <2>2. o.methods[mo + (Len(x) + k)] = z[k]
    BY <1>3, <1>4, <2>1, Zenon
  <2>. QED  BY <2>1, <2>2, Zenon
<1>8. /\ DOMAIN o.props = 1..po + n /\ Len(o.props) = po + n /\ n \in Nat
      /\ DOMAIN o.methods = 1..mo + Len(x) + Len(z) /\ Len(o.methods) = mo + Len(x) + Len(z)
  BY <1>3, <1>4
<1>9. \A i \in 1..n : o.props[po + i] = SourceProperty(c.props[i])
  BY <1>3, <1>4, Zenon
<1>10. DOMAIN Own(d).props = 1..n
  BY <1>1, <1>3
<1>. QED  BY <1>1, <1>3, <1>4, <1>5, <1>6, <1>7, <1>8, <1>9, <1>10, Zenon
          DEF c, o, x, z, po, mo, n

LEMMA RepMethods ==
  ASSUME NEW d \in Designs, d.pub \in {"repc", "derived"}
  PROVE  LET o == ObjectOf(d)
             x == SourceSignals(d.class)
             z == Slots(d.class)
             mo == MethodOffset(d)
         IN
         /\ \A k \in 1..Len(x) : o.methods[mo + k].sort = "signal" /\ ~o.methods[mo + k].cloned
         /\ \A k \in 1..Len(z) : o.methods[mo + Len(x) + k].sort = "slot"
         /\ \A m \in DOMAIN o.methods :
              m > mo => \/ \E k \in 1..Len(x) : m = mo + k
                        \/ \E k \in 1..Len(z) : m = mo + Len(x) + k
<1>. DEFINE c == d.class
            o == ObjectOf(d)
            x == SourceSignals(c)
            z == Slots(c)
            mo == MethodOffset(d)
<1>1. /\ RepClass(c) /\ mo \in Nat /\ Len(x) \in Nat /\ Len(z) \in Nat
      /\ DOMAIN o.methods = 1..mo + Len(x) + Len(z)
      /\ \A k \in 1..Len(x) : o.methods[mo + k] = x[k]
      /\ \A k \in 1..Len(z) : o.methods[mo + Len(x) + k] = z[k]
  BY RepObject, Zenon
<1>2. \A k \in 1..Len(x) : x[k].sort = "signal" /\ ~x[k].cloned
  <2>1. RepClass(c)
    BY <1>1
  <2>2. /\ Len(x) = Changes(c) + Len(c.signals)
        /\ \A k \in 1..Changes(c) + Len(c.signals) : x[k].sort = "signal" /\ ~x[k].cloned
    BY <2>1, SourceSignalsOf, Zenon
  <2>. QED  BY <2>2
<1>3. \A k \in 1..Len(z) : z[k].sort = "slot"
  <2>1. RepClass(c)
    BY <1>1
  <2>2. /\ Len(z) = Pushes(c) + Len(c.slots)
        /\ \A k \in 1..Pushes(c) + Len(c.slots) : z[k].sort = "slot"
    BY <2>1, SlotsOf, Zenon
  <2>. QED  BY <2>2
<1>. HIDE DEF c, o, x, z, mo
<1>4. ASSUME NEW m \in DOMAIN o.methods, m > mo
      PROVE  \/ \E k \in 1..Len(x) : m = mo + k
             \/ \E k \in 1..Len(z) : m = mo + Len(x) + k
  <2>1. CASE m <= mo + Len(x)
    <3>1. m - mo \in 1..Len(x) /\ m = mo + (m - mo)
      BY <1>1, <1>4, <2>1
    <3>. QED  BY <3>1
  <2>2. CASE ~(m <= mo + Len(x))
    <3>1. m - (mo + Len(x)) \in 1..Len(z) /\ m = mo + Len(x) + (m - (mo + Len(x)))
      BY <1>1, <1>4, <2>2
    <3>. QED  BY <3>1
  <2>. QED  BY <2>1, <2>2
<1>5. /\ \A k \in 1..Len(x) : o.methods[mo + k].sort = "signal" /\ ~o.methods[mo + k].cloned
      /\ \A k \in 1..Len(z) : o.methods[mo + Len(x) + k].sort = "slot"
  BY <1>1, <1>2, <1>3, Zenon
<1>. QED  BY <1>4, <1>5, Zenon DEF c, o, x, z, mo

(* is numbered in its own order, *)
Numbered(d, a) ==
  LET po == PropertyOffset(d)
      mo == MethodOffset(d)
      g == Len(SourceSignals(d.class))
      n == Len(d.class.props)
  IN
  /\ DOMAIN a.properties = 1..n /\ \A i \in 1..n : a.properties[i] = po + i
  /\ DOMAIN a.signals = 1..g /\ \A k \in 1..g : a.signals[k] = mo + k
  /\ DOMAIN a.methods = 1..Len(Slots(d.class))
  /\ \A k \in 1..Len(Slots(d.class)) : a.methods[k] = mo + g + k
  /\ a.raw = Order(d.class, Changing)

(* with names a dynamic replica looks for, or misses. *)
NamesAre(o, a) ==
  /\ \A k \in DOMAIN a.signals : a.signalNames[k] = NameOf(o, a, k)
  /\ \A k \in DOMAIN a.methods :
       LET name == o.methods[a.methods[k]].name
       IN \/ a.methodNames[k] = name
          \/ /\ name[1] = "push"
             /\ \A m \in DOMAIN o.methods : o.methods[m].name # a.methodNames[k]

LEMMA SourceApiOf ==
  ASSUME NEW d \in Designs, d.pub = "repc"
  PROVE  Numbered(d, SourceApi(d.class, ObjectOf(d)))
<1>. DEFINE c == d.class
            o == ObjectOf(d)
            a == SourceApi(c, o)
            x == SourceSignals(c)
            z == Slots(c)
            po == PropertyOffset(d)
            mo == MethodOffset(d)
            n == Len(c.props)
<1>1. /\ RepClass(c)
      /\ po \in Nat /\ mo \in Nat /\ n \in Nat /\ Len(x) \in Nat /\ Len(z) \in Nat
      /\ DOMAIN o.props = 1..po + n /\ Len(o.props) = po + n
      /\ DOMAIN o.methods = 1..mo + Len(x) + Len(z) /\ Len(o.methods) = mo + Len(x) + Len(z)
      /\ \A i \in 1..n : o.props[po + i] = SourceProperty(c.props[i])
      /\ \A k \in 1..Len(x) : o.methods[mo + k] = x[k]
      /\ \A k \in 1..Len(z) : o.methods[mo + Len(x) + k] = z[k]
      /\ Distinct(o.props) /\ Distinct(o.methods)
  BY RepObject, Zenon
<1>2. /\ DOMAIN ApiSignalNames(c) = 1..Len(x) /\ DOMAIN ApiMethodNames(c) = 1..Len(z)
      /\ \A k \in 1..Len(x) : ApiSignalNames(c)[k] = x[k].name
      /\ \A k \in 1..Len(z) : ApiMethodNames(c)[k] = z[k].name
  BY <1>1, ApiNamesOf, Zenon
<1>3. DOMAIN c.props = 1..n
  BY <1>1, RepTypes
<1>4. /\ a.properties = [i \in 1..n |-> IndexOf(o.props, <<"property", c.props[i].name>>)]
      /\ a.signals = [k \in 1..Len(x) |-> IndexOf(o.methods, ApiSignalNames(c)[k])]
      /\ a.methods = [k \in 1..Len(z) |-> IndexOf(o.methods, ApiMethodNames(c)[k])]
      /\ a.raw = Order(c, Changing)
  BY <1>2, <1>3 DEF SourceApi, ApiProperties, RawIndex, Order
<1>5. \A i \in 1..n : SourceProperty(c.props[i]).name = <<"property", c.props[i].name>>
  BY DEF SourceProperty
<1>. HIDE DEF c, o, a, x, z, po, mo, n
<1>6. ASSUME NEW i \in 1..n
      PROVE  IndexOf(o.props, <<"property", c.props[i].name>>) = po + i
  <2>1. po + i \in 1..po + n /\ po + n \in Nat
    BY <1>1
  <2>2. o.props[po + i].name = <<"property", c.props[i].name>>
    BY <1>1, <1>5, Zenon
  <2>. QED  BY <1>1, <2>1, <2>2, IndexOfDistinct
<1>7. mo + Len(x) + Len(z) \in Nat
  BY <1>1
<1>8. ASSUME NEW k \in 1..Len(x)
      PROVE  IndexOf(o.methods, ApiSignalNames(c)[k]) = mo + k
  <2>1. mo + k \in 1..mo + Len(x) + Len(z)
    BY <1>1
  <2>2. o.methods[mo + k].name = ApiSignalNames(c)[k]
    BY <1>1, <1>2, Zenon
  <2>. QED  BY <1>1, <1>7, <2>1, <2>2, IndexOfDistinct
<1>9. ASSUME NEW k \in 1..Len(z)
      PROVE  IndexOf(o.methods, ApiMethodNames(c)[k]) = mo + Len(x) + k
  <2>1. mo + Len(x) + k \in 1..mo + Len(x) + Len(z)
    BY <1>1
  <2>2. o.methods[mo + Len(x) + k].name = ApiMethodNames(c)[k]
    BY <1>1, <1>2, Zenon
  <2>. QED  BY <1>1, <1>7, <2>1, <2>2, IndexOfDistinct
<1>10. /\ DOMAIN a.properties = 1..n /\ \A i \in 1..n : a.properties[i] = po + i
       /\ DOMAIN a.signals = 1..Len(x) /\ \A k \in 1..Len(x) : a.signals[k] = mo + k
       /\ DOMAIN a.methods = 1..Len(z) /\ \A k \in 1..Len(z) : a.methods[k] = mo + Len(x) + k
  BY <1>4, <1>6, <1>8, <1>9
<1>. QED  BY <1>4, <1>10 DEF Numbered, c, o, a, x, z, po, mo, n

LEMMA DerivedApiOf ==
  ASSUME NEW d \in Designs, d.pub = "derived"
  PROVE  Numbered(d, DynamicApi(d, ObjectOf(d)))
<1>. DEFINE c == d.class
            o == ObjectOf(d)
            a == DynamicApi(d, o)
            x == SourceSignals(c)
            z == Slots(c)
            po == PropertyOffset(d)
            mo == MethodOffset(d)
            n == Len(c.props)
            p == Changes(c)
            s == Len(c.signals)
            raw == InOrder({i \in DOMAIN Own(d).props : o.props[po + i].notify # None})
            notifiers == [k \in DOMAIN raw |-> IndexOf(o.methods, o.props[po + raw[k]].notify)]
            ofSort(sort) == {i \in DOMAIN o.methods : i > mo /\ o.methods[i].sort = sort}
            others == InOrder(ofSort("signal") \ ToSet(notifiers))
            methods == InOrder(ofSort("slot"))
<1>1. /\ RepClass(c) /\ DOMAIN Own(d).props = 1..n
      /\ po \in Nat /\ mo \in Nat /\ n \in Nat /\ Len(x) \in Nat /\ Len(z) \in Nat
      /\ DOMAIN o.methods = 1..mo + Len(x) + Len(z) /\ Len(o.methods) = mo + Len(x) + Len(z)
      /\ \A i \in 1..n : o.props[po + i] = SourceProperty(c.props[i])
      /\ \A k \in 1..Len(x) : o.methods[mo + k] = x[k]
      /\ \A k \in 1..Len(z) : o.methods[mo + Len(x) + k] = z[k]
      /\ Distinct(o.methods)
  BY RepObject, Zenon
<1>2. /\ Len(x) = p + s /\ p \in Nat /\ s \in Nat
      /\ \A k \in 1..p : x[k].name = <<"changed", c.props[Order(c, Changing)[k]].name>>
  <2>1. RepClass(c)
    BY <1>1
  <2>. QED  BY <2>1, SourceSignalsOf, Zenon
<1>3. /\ \A k \in 1..Len(x) : o.methods[mo + k].sort = "signal" /\ ~o.methods[mo + k].cloned
      /\ \A k \in 1..Len(z) : o.methods[mo + Len(x) + k].sort = "slot"
      /\ \A m \in DOMAIN o.methods :
           m > mo => \/ \E k \in 1..Len(x) : m = mo + k
                     \/ \E k \in 1..Len(z) : m = mo + Len(x) + k
  BY RepMethods, Zenon
<1>4. /\ DOMAIN c.props = 1..n /\ \A i \in 1..n : c.props[i].mod \in Modifiers
  BY <1>1, RepTypes, PropTypes
<1>5. ASSUME NEW i \in 1..n
      PROVE  /\ o.props[po + i].notify # None <=> c.props[i].mod \in Changing
             /\ c.props[i].mod \in Changing => o.props[po + i].notify = <<"changed", c.props[i].name>>
  <2>1. o.props[po + i] = SourceProperty(c.props[i]) /\ c.props[i].mod \in Modifiers
    BY <1>1, <1>4, Zenon
  <2>. HIDE DEF o, po
  <2>2. o.props[po + i].notify =
          IF c.props[i].mod = "Constant" THEN None ELSE <<"changed", c.props[i].name>>
    BY <2>1 DEF SourceProperty, Changed
  <2>3. c.props[i].mod \in Changing <=> c.props[i].mod # "Constant"
    BY <2>1 DEF Changing
  <2>4. <<"changed", c.props[i].name>> # None
    BY Tags
  <2>. QED  BY <2>2, <2>3, <2>4, Zenon
<1>6. raw = Order(c, Changing)
  <2>1. {i \in DOMAIN Own(d).props : o.props[po + i].notify # None} = WithModifier(c, Changing)
    BY <1>1, <1>4, <1>5 DEF WithModifier
  <2>. QED  BY <2>1, Zenon DEF Order
<1>7. /\ DOMAIN raw = 1..p
      /\ \A k \in 1..p : /\ raw[k] = Order(c, Changing)[k] /\ raw[k] \in 1..n
                         /\ c.props[raw[k]].mod \in Changing
  <2>1. RepClass(c)
    BY <1>1
  <2>. QED  BY <1>6, <2>1, OrderOf DEF Changes
<1>8. /\ a.properties = [i \in DOMAIN Own(d).props |-> po + i]
      /\ a.signals = notifiers \o others
      /\ a.methods = methods /\ a.raw = raw
  BY DEF DynamicApi
<1>. HIDE DEF c, o, a, x, z, po, mo, n, p, s, raw, others, methods
<1>9. ASSUME NEW k \in 1..p  PROVE notifiers[k] = mo + k
  <2>1. o.props[po + raw[k]].notify = <<"changed", c.props[raw[k]].name>>
    BY <1>5, <1>7
  <2>2. k \in 1..Len(x) /\ mo + k \in 1..mo + Len(x) + Len(z) /\ mo + Len(x) + Len(z) \in Nat
    BY <1>1, <1>2
  <2>3. o.methods[mo + k].name = <<"changed", c.props[raw[k]].name>>
    BY <1>1, <1>2, <1>7, <2>2, Zenon
  <2>4. IndexOf(o.methods, o.methods[mo + k].name) = mo + k
    BY <1>1, <2>2, IndexOfDistinct
  <2>5. notifiers[k] = IndexOf(o.methods, o.props[po + raw[k]].notify)
    BY <1>7
  <2>. HIDE DEF notifiers
  <2>. QED  BY <2>1, <2>3, <2>4, <2>5, Zenon
<1>10. DOMAIN notifiers = 1..p /\ IsSeq(notifiers) /\ Len(notifiers) = p
  <2>1. notifiers = [k \in 1..p |-> notifiers[k]] /\ p \in Nat
    BY <1>2, <1>7
  <2>. HIDE DEF notifiers
  <2>. QED  BY <2>1, FunctionIsSeq
<1>. HIDE DEF notifiers
<1>11. ASSUME NEW m \in DOMAIN o.methods, m > mo
       PROVE  \/ m \in mo + 1..mo + Len(x) /\ o.methods[m].sort = "signal"
              \/ m \in mo + Len(x) + 1..mo + Len(x) + Len(z) /\ o.methods[m].sort = "slot"
  <2>1. ASSUME NEW k \in 1..Len(x), m = mo + k
        PROVE  m \in mo + 1..mo + Len(x) /\ o.methods[m].sort = "signal"
    BY <1>1, <1>3, <2>1
  <2>2. ASSUME NEW k \in 1..Len(z), m = mo + Len(x) + k
        PROVE  m \in mo + Len(x) + 1..mo + Len(x) + Len(z) /\ o.methods[m].sort = "slot"
    BY <1>1, <1>3, <2>2
  <2>. QED  BY <1>3, <1>11, <2>1, <2>2
<1>12. /\ ofSort("signal") = mo + 1..mo + Len(x)
       /\ ofSort("slot") = mo + Len(x) + 1..mo + Len(x) + Len(z)
  <2>1. \A m \in mo + 1..mo + Len(x) : m \in DOMAIN o.methods /\ m > mo
    BY <1>1
  <2>2. \A m \in mo + Len(x) + 1..mo + Len(x) + Len(z) : m \in DOMAIN o.methods /\ m > mo
    BY <1>1
  <2>3. \A m : ~(m \in mo + 1..mo + Len(x) /\ m \in mo + Len(x) + 1..mo + Len(x) + Len(z))
    BY <1>1
  <2>4. "signal" # "slot"
    OBVIOUS
  <2>. DEFINE low == mo + 1..mo + Len(x)
              high == mo + Len(x) + 1..mo + Len(x) + Len(z)
              dom == DOMAIN o.methods
              above(m) == m > mo
  <2>5. \A m \in dom : above(m) =>
          (m \in low /\ o.methods[m].sort = "signal") \/ (m \in high /\ o.methods[m].sort = "slot")
    BY <1>11
  <2>6. /\ ofSort("signal") = {i \in dom : above(i) /\ o.methods[i].sort = "signal"}
        /\ ofSort("slot") = {i \in dom : above(i) /\ o.methods[i].sort = "slot"}
    OBVIOUS
  <2>7. /\ \A m \in low : m \in dom /\ above(m) /\ m \notin high
        /\ \A m \in high : m \in dom /\ above(m)
    BY <2>1, <2>2, <2>3
  <2>. HIDE DEF low, high, dom, above
  <2>8. ofSort("signal") = low /\ ofSort("slot") = high
    BY <2>4, <2>5, <2>6, <2>7
  <2>. QED  BY <2>8 DEF low, high
<1>13. ToSet(notifiers) = mo + 1..mo + p
  <2>1. \A k \in 1..p : mo + k \in mo + 1..mo + p
    BY <1>1, <1>2
  <2>2. \A m \in mo + 1..mo + p : \E k \in 1..p : m = mo + k
    <3>1. ASSUME NEW m \in mo + 1..mo + p  PROVE m - mo \in 1..p /\ m = mo + (m - mo)
      BY <1>1, <1>2
    <3>. QED  BY <3>1
  <2>3. ToSet(notifiers) = {notifiers[k] : k \in 1..p}
    BY <1>10 DEF ToSet
  <2>4. {notifiers[k] : k \in 1..p} = {mo + k : k \in 1..p}
    BY <1>9
  <2>5. {mo + k : k \in 1..p} = mo + 1..mo + p
    BY <2>1, <2>2
  <2>. QED  BY <2>3, <2>4, <2>5
<1>14. others = InOrder(mo + p + 1..mo + p + s)
  <2>1. (mo + 1..mo + (p + s)) \ (mo + 1..mo + p) = mo + p + 1..mo + p + s
    BY <1>1, <1>2
  <2>2. ofSort("signal") \ ToSet(notifiers) = mo + p + 1..mo + p + s
    BY <1>2, <1>12, <1>13, <2>1
  <2>. QED  BY <2>2, Zenon DEF others
<1>15. /\ DOMAIN others = 1..s /\ \A k \in 1..s : others[k] = mo + p + k
       /\ IsSeq(others) /\ Len(others) = s
  <2>1. mo + p \in Nat
    BY <1>1, <1>2
  <2>2. DOMAIN others = 1..s /\ \A k \in 1..s : others[k] = mo + p + k
    BY <1>2, <1>14, <2>1, InOrderOfInterval
  <2>3. others = [k \in 1..s |-> others[k]]
    BY <1>14, <2>2 DEF InOrder
  <2>. QED  BY <1>2, <2>2, <2>3, FunctionIsSeq
<1>16. /\ DOMAIN methods = 1..Len(z)
       /\ \A k \in 1..Len(z) : methods[k] = mo + Len(x) + k
  <2>1. mo + Len(x) \in Nat
    BY <1>1
  <2>2. methods = InOrder(mo + Len(x) + 1..mo + Len(x) + Len(z))
    BY <1>12, Zenon DEF methods
  <2>. QED  BY <1>1, <2>1, <2>2, InOrderOfInterval
<1>17. /\ DOMAIN a.signals = 1..p + s
       /\ \A k \in 1..p : a.signals[k] = notifiers[k]
       /\ \A k \in 1..s : a.signals[p + k] = others[k]
  <2>1. IsSeq(notifiers) /\ IsSeq(others)
    BY <1>10, <1>15
  <2>2. /\ DOMAIN (notifiers \o others) = 1..Len(notifiers) + Len(others)
        /\ \A i \in 1..Len(notifiers) : (notifiers \o others)[i] = notifiers[i]
        /\ \A i \in 1..Len(others) : (notifiers \o others)[Len(notifiers) + i] = others[i]
    BY <2>1, TwoLists
  <2>. QED  BY <1>8, <1>10, <1>15, <2>2
<1>18. ASSUME NEW k \in 1..p + s  PROVE a.signals[k] = mo + k
  <2>1. k \in 1..p \/ \E l \in 1..s : k = p + l
    BY <1>2, TwoParts
  <2>2. CASE k \in 1..p
    BY <1>9, <1>17, <2>2
  <2>3. ASSUME NEW l \in 1..s, k = p + l  PROVE a.signals[k] = mo + k
    <3>1. a.signals[k] = mo + p + l
      BY <1>15, <1>17, <2>3
    <3>. QED  BY <1>1, <1>2, <2>3, <3>1
  <2>. QED  BY <2>1, <2>2, <2>3
<1>19. /\ DOMAIN a.properties = 1..n /\ \A i \in 1..n : a.properties[i] = po + i
       /\ DOMAIN a.signals = 1..Len(x) /\ \A k \in 1..Len(x) : a.signals[k] = mo + k
       /\ DOMAIN a.methods = 1..Len(z) /\ \A k \in 1..Len(z) : a.methods[k] = mo + Len(x) + k
       /\ a.raw = Order(c, Changing)
  BY <1>1, <1>2, <1>6, <1>8, <1>16, <1>17, <1>18
<1>. QED  BY <1>19 DEF Numbered, c, o, a, x, z, po, mo, n

(* Its entries are the object's members, *)
ApiIs(mo, o, a) ==
  /\ \E n \in Nat : DOMAIN a.properties = 1..n
  /\ \A i \in DOMAIN a.properties : a.properties[i] \in DOMAIN o.props
  /\ \A i, j \in DOMAIN a.properties : a.properties[i] = a.properties[j] => i = j
  /\ \E n \in Nat : DOMAIN a.signals = 1..n
  /\ \A k \in DOMAIN a.signals : /\ a.signals[k] \in DOMAIN o.methods
                                 /\ o.methods[a.signals[k]].sort = "signal"
  /\ \A m \in DOMAIN o.methods :
       o.methods[m].sort = "signal" /\ ~o.methods[m].cloned /\ m > mo =>
         \E k \in DOMAIN a.signals : a.signals[k] = m
  /\ \E n \in Nat : DOMAIN a.methods = 1..n
  /\ \A k \in DOMAIN a.methods : /\ a.methods[k] \in DOMAIN o.methods
                                 /\ o.methods[a.methods[k]].sort = "slot"
  /\ \A k, l \in DOMAIN a.methods : a.methods[k] = a.methods[l] => k = l
  /\ \A m \in DOMAIN o.methods :
       o.methods[m].sort = "slot" /\ m > mo => \E k \in DOMAIN a.methods : a.methods[k] = m
  /\ \A k \in DOMAIN a.raw :
       /\ k \in DOMAIN a.signals /\ a.raw[k] \in DOMAIN a.properties
       /\ o.props[a.properties[a.raw[k]]].notify = NameOf(o, a, k)
  /\ \A k \in DOMAIN a.signals : o.methods[a.signals[k]].pointer => k \in DOMAIN a.raw

LEMMA NumberedApi ==
  ASSUME NEW d \in Designs, d.pub \in {"repc", "derived"}, NEW a, Numbered(d, a)
  PROVE  ApiIs(MethodOffset(d), ObjectOf(d), a)
<1>. DEFINE c == d.class
            o == ObjectOf(d)
            x == SourceSignals(c)
            z == Slots(c)
            po == PropertyOffset(d)
            mo == MethodOffset(d)
            n == Len(c.props)
            p == Changes(c)
            s == Len(c.signals)
            raw == Order(c, Changing)
<1>1. /\ RepClass(c)
      /\ po \in Nat /\ mo \in Nat /\ n \in Nat /\ Len(x) \in Nat /\ Len(z) \in Nat
      /\ DOMAIN o.props = 1..po + n /\ DOMAIN o.methods = 1..mo + Len(x) + Len(z)
      /\ \A i \in 1..n : o.props[po + i] = SourceProperty(c.props[i])
      /\ \A k \in 1..Len(x) : o.methods[mo + k] = x[k]
  BY RepObject, Zenon
<1>2. /\ \A k \in 1..Len(x) : o.methods[mo + k].sort = "signal" /\ ~o.methods[mo + k].cloned
      /\ \A k \in 1..Len(z) : o.methods[mo + Len(x) + k].sort = "slot"
      /\ \A m \in DOMAIN o.methods :
           m > mo => \/ \E k \in 1..Len(x) : m = mo + k
                     \/ \E k \in 1..Len(z) : m = mo + Len(x) + k
  BY RepMethods, Zenon
<1>3. /\ Len(x) = p + s /\ p \in Nat /\ s \in Nat
      /\ \A k \in 1..p : x[k].name = <<"changed", c.props[raw[k]].name>>
      /\ \A k \in 1..s : ~x[p + k].pointer
  <2>1. RepClass(c)
    BY <1>1
  <2>. QED  BY <2>1, SourceSignalsOf, Zenon
<1>4. /\ DOMAIN a.properties = 1..n /\ \A i \in 1..n : a.properties[i] = po + i
      /\ DOMAIN a.signals = 1..Len(x) /\ \A k \in 1..Len(x) : a.signals[k] = mo + k
      /\ DOMAIN a.methods = 1..Len(z) /\ \A k \in 1..Len(z) : a.methods[k] = mo + Len(x) + k
      /\ a.raw = raw
  BY DEF Numbered
<1>5. /\ DOMAIN raw = 1..p
      /\ \A k \in 1..p : raw[k] \in 1..n /\ c.props[raw[k]].mod \in Changing
  <2>1. RepClass(c)
    BY <1>1
  <2>. QED  BY <2>1, OrderOf DEF Changes
<1>6. ASSUME NEW i \in 1..n, c.props[i].mod \in Changing
      PROVE  o.props[po + i].notify = <<"changed", c.props[i].name>>
  <2>1. o.props[po + i] = SourceProperty(c.props[i]) /\ c.props[i].mod # "Constant"
    BY <1>1, <1>6 DEF Changing
  <2>. QED  BY <2>1 DEF SourceProperty, Changed
<1>. HIDE DEF c, o, x, z, po, mo, n, p, s, raw
<1>7. /\ \A i \in DOMAIN a.properties : a.properties[i] \in DOMAIN o.props
      /\ \A i, j \in DOMAIN a.properties : a.properties[i] = a.properties[j] => i = j
  <2>1. /\ po \in Nat /\ n \in Nat /\ DOMAIN o.props = 1..po + n
        /\ DOMAIN a.properties = 1..n /\ \A i \in 1..n : a.properties[i] = po + i
    BY <1>1, <1>4
  <2>2. \A i \in 1..n : po + i \in 1..po + n
    BY <2>1
  <2>3. \A i, j \in 1..n : po + i = po + j => i = j
    BY <2>1
  <2>. QED  BY <2>1, <2>2, <2>3, SMTT(60)
<1>8. \A k \in DOMAIN a.signals : /\ a.signals[k] \in DOMAIN o.methods
                                  /\ o.methods[a.signals[k]].sort = "signal"
  BY <1>1, <1>2, <1>4
<1>9. ASSUME NEW m \in DOMAIN o.methods, m > mo
      PROVE  /\ o.methods[m].sort = "signal" => \E k \in DOMAIN a.signals : a.signals[k] = m
             /\ o.methods[m].sort = "slot" => \E k \in DOMAIN a.methods : a.methods[k] = m
  <2>1. ASSUME NEW k \in 1..Len(x), m = mo + k
        PROVE  o.methods[m].sort = "signal" /\ \E l \in DOMAIN a.signals : a.signals[l] = m
    BY <1>2, <1>4, <2>1
  <2>2. ASSUME NEW k \in 1..Len(z), m = mo + Len(x) + k
        PROVE  o.methods[m].sort = "slot" /\ \E l \in DOMAIN a.methods : a.methods[l] = m
    BY <1>2, <1>4, <2>2
  <2>3. "signal" # "slot"
    OBVIOUS
  <2>4. \/ \E k \in 1..Len(x) : m = mo + k
        \/ \E k \in 1..Len(z) : m = mo + Len(x) + k
    BY <1>2, <1>9
  <2>. QED  BY <2>1, <2>2, <2>3, <2>4, Zenon
<1>10. /\ \A k \in DOMAIN a.methods : /\ a.methods[k] \in DOMAIN o.methods
                                      /\ o.methods[a.methods[k]].sort = "slot"
       /\ \A k, l \in DOMAIN a.methods : a.methods[k] = a.methods[l] => k = l
  <2>1. /\ \A k \in 1..Len(z) : /\ mo + Len(x) + k \in DOMAIN o.methods
                                /\ o.methods[mo + Len(x) + k].sort = "slot"
        /\ \A k, l \in 1..Len(z) : mo + Len(x) + k = mo + Len(x) + l => k = l
    <3>1. mo + Len(x) \in Nat
      BY <1>1
    <3>. QED  BY <1>1, <1>2, <3>1
  <2>2. ASSUME NEW k \in DOMAIN a.methods
        PROVE  k \in 1..Len(z) /\ a.methods[k] = mo + Len(x) + k
    BY <1>4
  <2>3. ASSUME NEW k \in DOMAIN a.methods, NEW l \in DOMAIN a.methods,
               a.methods[k] = a.methods[l]
        PROVE  k = l
    <3>1. mo + Len(x) + k = mo + Len(x) + l
      BY <2>2, <2>3
    <3>. QED  BY <2>1, <2>2, <3>1, Zenon
  <2>4. ASSUME NEW k \in DOMAIN a.methods
        PROVE  a.methods[k] \in DOMAIN o.methods /\ o.methods[a.methods[k]].sort = "slot"
    <3>1. k \in 1..Len(z) /\ a.methods[k] = mo + Len(x) + k
      BY <2>2
    <3>2. /\ mo + Len(x) + k \in DOMAIN o.methods
          /\ o.methods[mo + Len(x) + k].sort = "slot"
      BY <2>1, <3>1, Zenon
    <3>. QED  BY <3>1, <3>2, Zenon
  <2>. QED  BY <2>3, <2>4, Zenon
<1>11. ASSUME NEW k \in DOMAIN a.raw
       PROVE  /\ k \in DOMAIN a.signals /\ a.raw[k] \in DOMAIN a.properties
              /\ o.props[a.properties[a.raw[k]]].notify = NameOf(o, a, k)
  <2>1. k \in 1..p /\ k \in 1..Len(x) /\ a.raw[k] = raw[k] /\ raw[k] \in 1..n
    BY <1>3, <1>4, <1>5
  <2>2. o.props[a.properties[a.raw[k]]].notify = <<"changed", c.props[raw[k]].name>>
    BY <1>4, <1>5, <1>6, <2>1
  <2>3. NameOf(o, a, k) = x[k].name
    BY <1>1, <1>4, <2>1 DEF NameOf
  <2>. QED  BY <1>3, <1>4, <2>1, <2>2, <2>3
<1>12. ASSUME NEW k \in DOMAIN a.signals, o.methods[a.signals[k]].pointer
       PROVE  k \in DOMAIN a.raw
  <2>1. k \in 1..Len(x) /\ x[k].pointer
    BY <1>1, <1>4, <1>12
  <2>2. k \in 1..p \/ \E l \in 1..s : k = p + l
    BY <1>3, <2>1, TwoParts
  <2>3. \A l \in 1..s : k = p + l => FALSE
    BY <1>3, <2>1
  <2>. QED  BY <1>4, <1>5, <2>2, <2>3
<1>13. /\ \E i \in Nat : DOMAIN a.properties = 1..i
       /\ \E i \in Nat : DOMAIN a.signals = 1..i
       /\ \E i \in Nat : DOMAIN a.methods = 1..i
  BY <1>1, <1>4
<1>14. ApiIs(mo, o, a)
  BY <1>7, <1>8, <1>9, <1>10, <1>11, <1>12, <1>13, Zenon DEF ApiIs
<1>. QED  BY <1>14 DEF mo, o

(* whatever the class is. *)
LEMMA DynamicApiOf ==
  ASSUME NEW d \in Designs
  PROVE  ApiIs(MethodOffset(d), ObjectOf(d), DynamicApi(d, ObjectOf(d)))
<1>. DEFINE w == Own(d)
            o == ObjectOf(d)
            a == DynamicApi(d, o)
            po == PropertyOffset(d)
            mo == MethodOffset(d)
            n == Len(w.props)
            R == {i \in DOMAIN w.props : o.props[po + i].notify # None}
            raw == InOrder(R)
            notifiers == [k \in DOMAIN raw |-> IndexOf(o.methods, o.props[po + raw[k]].notify)]
            ofSort(sort) == {i \in DOMAIN o.methods : i > mo /\ o.methods[i].sort = sort}
            T == ofSort("signal") \ ToSet(notifiers)
            others == InOrder(T)
            methods == InOrder(ofSort("slot"))
            r == Cardinality(R)
            s == Cardinality(T)
            t == Cardinality(ofSort("slot"))
            l == Len(o.methods)
<1>1. /\ po \in Nat /\ mo \in Nat /\ n \in Nat /\ DOMAIN w.props = 1..n
      /\ DOMAIN o.props = 1..po + n /\ \A i \in 1..n : o.props[po + i] = w.props[i]
      /\ \A i \in DOMAIN o.props : o.props[i].notify # None => i > po
      /\ PlainClass(o) /\ NotifiersAreOwn(mo, o)
  BY DesignObject, Zenon DEF ObjectIs
<1>2. l \in Nat /\ DOMAIN o.methods = 1..l /\ Distinct(o.methods)
  BY <1>1, PlainIs
<1>3. /\ a.properties = [i \in DOMAIN w.props |-> po + i] /\ a.signals = notifiers \o others
      /\ a.methods = methods /\ a.raw = raw
  BY DEF DynamicApi
<1>4. R \in SUBSET (1..n)
  BY <1>1
<1>5. T \in SUBSET (1..l) /\ ofSort("slot") \in SUBSET (1..l)
  BY <1>2
<1>. HIDE DEF R
<1>6. /\ r \in Nat /\ DOMAIN raw = 1..r
      /\ \A k \in 1..r : raw[k] \in R
      /\ \A i \in R : \E k \in 1..r : raw[k] = i
  <2>1. R \in SUBSET Nat /\ IsFiniteSet(R)
    BY <1>1, <1>4, NumbersAreFinite
  <2>. QED  BY <2>1, InOrderOf
<1>. HIDE DEF T
<1>7. /\ s \in Nat /\ DOMAIN others = 1..s
      /\ \A k \in 1..s : others[k] \in T
      /\ \A i \in T : \E k \in 1..s : others[k] = i
  <2>1. T \in SUBSET Nat /\ IsFiniteSet(T)
    BY <1>2, <1>5, NumbersAreFinite
  <2>. QED  BY <2>1, InOrderOf
<1>8. /\ t \in Nat /\ DOMAIN methods = 1..t
      /\ \A k \in 1..t : methods[k] \in ofSort("slot")
      /\ \A i \in ofSort("slot") : \E k \in 1..t : methods[k] = i
      /\ \A j, k \in 1..t : methods[j] = methods[k] => j = k
  <2>. DEFINE S == ofSort("slot")
  <2>. HIDE DEF S
  <2>1. S \in SUBSET Nat /\ IsFiniteSet(S)
    BY <1>2, <1>5, NumbersAreFinite DEF S
  <2>2. /\ Cardinality(S) \in Nat /\ DOMAIN InOrder(S) = 1..Cardinality(S)
        /\ \A k \in 1..Cardinality(S) : InOrder(S)[k] \in S
        /\ \A i \in S : \E k \in 1..Cardinality(S) : InOrder(S)[k] = i
        /\ \A j, k \in 1..Cardinality(S) : j < k => InOrder(S)[j] < InOrder(S)[k]
    BY <2>1, InOrderOf
  <2>3. \A j, k \in 1..Cardinality(S) : InOrder(S)[j] = InOrder(S)[k] => j = k
    BY <2>1, <2>2, OrderedApart
  <2>. QED  BY <2>2, <2>3 DEF S
<1>9. others = [k \in 1..s |-> others[k]] /\ notifiers = [k \in 1..r |-> notifiers[k]]
  <2>1. others = [k \in 1..s |-> others[k]]
    <3>1. others = [k \in DOMAIN others |-> others[k]]
      <4>. DEFINE e(k) == CHOOSE i \in T : Cardinality({j \in T : j <= i}) = k
      <4>1. others = [k \in 1..s |-> e(k)]
        BY DEF InOrder
      <4>. HIDE DEF e, others
      <4>. QED  BY <4>1
    <3>. HIDE DEF others
    <3>. QED  BY <1>7, <3>1
  <2>. QED  BY <1>6, <2>1
<1>. HIDE DEF w, o, a, po, mo, n, raw, others, methods, r, s, t, l
<1>10. ASSUME NEW i \in R
       PROVE  /\ i \in 1..n /\ po + i \in DOMAIN o.props /\ o.props[po + i].notify # None
              /\ \E m \in DOMAIN o.methods :
                   o.methods[m].name = o.props[po + i].notify /\ o.methods[m].sort = "signal"
  <2>1. i \in 1..n /\ po + i \in DOMAIN o.props /\ o.props[po + i].notify # None
    BY <1>1, <1>4 DEF R
  <2>2. \E m \in DOMAIN o.methods : LET signal == o.methods[m] IN
          signal.name = o.props[po + i].notify /\ signal.sort = "signal"
    BY <1>1, <2>1, Zenon DEF PlainClass
  <2>. QED  BY <2>1, <2>2
<1>11. ASSUME NEW k \in 1..r
       PROVE  /\ notifiers[k] \in DOMAIN o.methods
              /\ o.methods[notifiers[k]].name = o.props[po + raw[k]].notify
              /\ o.methods[notifiers[k]].sort = "signal"
  <2>1. PICK m \in DOMAIN o.methods :
          o.methods[m].name = o.props[po + raw[k]].notify /\ o.methods[m].sort = "signal"
    BY <1>6, <1>10
  <2>2. IndexOf(o.methods, o.methods[m].name) = m
    BY <1>2, <2>1, IndexOfDistinct DEF l
  <2>3. notifiers[k] = m
    BY <1>6, <2>1, <2>2
  <2>. QED  BY <2>1, <2>3
<1>12. ToSet(notifiers) = {notifiers[k] : k \in 1..r}
  BY <1>6 DEF ToSet
<1>13. /\ DOMAIN a.signals = 1..r + s
       /\ \A k \in 1..r : a.signals[k] = notifiers[k]
       /\ \A k \in 1..s : a.signals[r + k] = others[k]
  <2>. HIDE DEF notifiers
  <2>1. IsSeq(notifiers) /\ Len(notifiers) = r
    BY <1>6, <1>9, FunctionIsSeq
  <2>2. IsSeq(others) /\ Len(others) = s
    BY <1>7, <1>9, FunctionIsSeq
  <2>3. IsSeq(notifiers) /\ IsSeq(others)
    BY <2>1, <2>2
  <2>4. /\ DOMAIN (notifiers \o others) = 1..Len(notifiers) + Len(others)
        /\ \A i \in 1..Len(notifiers) : (notifiers \o others)[i] = notifiers[i]
        /\ \A i \in 1..Len(others) : (notifiers \o others)[Len(notifiers) + i] = others[i]
    BY <2>3, TwoLists
  <2>. QED  BY <1>3, <2>1, <2>2, <2>4
<1>. HIDE DEF notifiers
<1>14. \A k \in 1..r + s : k \in 1..r \/ \E j \in 1..s : k = r + j
  BY <1>6, <1>7, TwoParts
<1>15. ASSUME NEW i \in T
       PROVE  /\ i \in DOMAIN o.methods /\ o.methods[i].sort = "signal"
              /\ \A k \in 1..r : notifiers[k] # i
  BY <1>12 DEF T
<1>16. ASSUME NEW k \in DOMAIN a.signals
       PROVE  /\ a.signals[k] \in DOMAIN o.methods /\ o.methods[a.signals[k]].sort = "signal"
              /\ k \notin 1..r => a.signals[k] \in T
  <2>1. CASE k \in 1..r
    BY <1>11, <1>13, <2>1
  <2>2. CASE k \notin 1..r
    <3>1. PICK j \in 1..s : k = r + j
      BY <1>13, <1>14, <2>2
    <3>2. a.signals[k] \in T
      BY <1>7, <1>13, <3>1
    <3>. QED  BY <1>15, <3>2
  <2>. QED  BY <2>1, <2>2
<1>17. ASSUME NEW m \in DOMAIN o.methods, o.methods[m].sort = "signal", m > mo
       PROVE  \E k \in DOMAIN a.signals : a.signals[k] = m
  <2>1. CASE \E k \in 1..r : notifiers[k] = m
    <3>1. \A k \in 1..r : k \in 1..r + s
      BY <1>6, <1>7
    <3>. QED  BY <1>13, <2>1, <3>1
  <2>2. CASE ~\E k \in 1..r : notifiers[k] = m
    <3>1. m \in T
      BY <1>12, <1>17, <2>2 DEF T
    <3>2. PICK j \in 1..s : others[j] = m
      BY <1>7, <3>1
    <3>3. r + j \in 1..r + s
      BY <1>6, <1>7
    <3>. QED  BY <1>13, <3>2, <3>3
  <2>. QED  BY <2>1, <2>2
<1>18. ASSUME NEW k \in DOMAIN a.raw
       PROVE  /\ k \in DOMAIN a.signals /\ a.raw[k] \in DOMAIN a.properties
              /\ o.props[a.properties[a.raw[k]]].notify = NameOf(o, a, k)
  <2>1. k \in 1..r /\ k \in 1..r + s /\ raw[k] \in R
    BY <1>3, <1>6, <1>7
  <2>2. raw[k] \in 1..n /\ raw[k] \in DOMAIN a.properties /\ a.properties[raw[k]] = po + raw[k]
    BY <1>1, <1>3, <1>10, <2>1
  <2>. QED  BY <1>3, <1>11, <1>13, <2>1, <2>2 DEF NameOf
<1>19. ASSUME NEW k \in DOMAIN a.signals, o.methods[a.signals[k]].pointer
       PROVE  k \in DOMAIN a.raw
  <2>. DEFINE m == a.signals[k]
  <2>1. m \in DOMAIN o.methods
    BY <1>16
  <2>2. PICK i \in DOMAIN o.props : o.props[i].notify = o.methods[m].name
    BY <1>1, <1>19, <2>1, Zenon DEF PlainClass
  <2>3. o.props[i].notify # None
    <3>1. o.methods[m].name # None
      BY <1>1, <2>1, Zenon DEF PlainClass
    <3>. QED  BY <2>2, <3>1
  <2>4. i - po \in 1..n /\ po + (i - po) = i
    BY <1>1, <2>3
  <2>5. i - po \in R
    BY <1>1, <2>3, <2>4 DEF R
  <2>6. PICK j \in 1..r : raw[j] = i - po
    BY <1>6, <2>5
  <2>7. notifiers[j] \in DOMAIN o.methods /\ o.methods[notifiers[j]].name = o.methods[m].name
    BY <1>11, <2>2, <2>4, <2>6
  <2>8. notifiers[j] = m
    BY <1>2, <2>1, <2>7 DEF Distinct
  <2>9. m \notin T
    BY <1>15, <2>8
  <2>. QED  BY <1>3, <1>6, <1>16, <2>9
<1>20. /\ \E i \in Nat : DOMAIN a.properties = 1..i
       /\ \A i \in DOMAIN a.properties : a.properties[i] \in DOMAIN o.props
       /\ \A i, j \in DOMAIN a.properties : a.properties[i] = a.properties[j] => i = j
  BY <1>1, <1>3
<1>21. /\ \E i \in Nat : DOMAIN a.signals = 1..i
       /\ \E i \in Nat : DOMAIN a.methods = 1..i
  <2>1. r + s \in Nat /\ t \in Nat
    BY <1>6, <1>7, <1>8
  <2>. QED  BY <1>3, <1>8, <1>13, <2>1, Zenon
<1>22. /\ \A k \in DOMAIN a.methods : /\ a.methods[k] \in DOMAIN o.methods
                                      /\ o.methods[a.methods[k]].sort = "slot"
       /\ \A k, j \in DOMAIN a.methods : a.methods[k] = a.methods[j] => k = j
       /\ \A m \in DOMAIN o.methods :
            o.methods[m].sort = "slot" /\ m > mo => \E k \in DOMAIN a.methods : a.methods[k] = m
  BY <1>3, <1>8
<1>23. ApiIs(mo, o, a)
  BY <1>16, <1>17, <1>18, <1>19, <1>20, <1>21, <1>22, Zenon DEF ApiIs
<1>. QED  BY <1>23 DEF mo, o, a

LEMMA NamesOfRep ==
  ASSUME NEW d \in Designs, d.pub = "repc"
  PROVE  NamesAre(ObjectOf(d), SourceApi(d.class, ObjectOf(d)))
<1>. DEFINE c == d.class
            o == ObjectOf(d)
            a == SourceApi(c, o)
            x == SourceSignals(c)
            z == Slots(c)
            mo == MethodOffset(d)
<1>1. /\ RepClass(c) /\ mo \in Nat /\ Len(x) \in Nat /\ Len(z) \in Nat
      /\ DOMAIN o.methods = 1..mo + Len(x) + Len(z)
      /\ \A k \in 1..Len(x) : o.methods[mo + k] = x[k]
      /\ \A k \in 1..Len(z) : o.methods[mo + Len(x) + k] = z[k]
  BY RepObject, Zenon
<1>2. \A m \in DOMAIN o.methods :
        m > mo => \/ \E k \in 1..Len(x) : m = mo + k
                  \/ \E k \in 1..Len(z) : m = mo + Len(x) + k
  BY RepMethods, Zenon
<1>3. \A m \in 1..mo : o.methods[m].name \in {<<"signal", "base">>, <<"slot", "base">>}
  BY DesignObject, Zenon DEF ObjectIs
<1>4. /\ DOMAIN a.signals = 1..Len(x) /\ \A k \in 1..Len(x) : a.signals[k] = mo + k
      /\ DOMAIN a.methods = 1..Len(z) /\ \A k \in 1..Len(z) : a.methods[k] = mo + Len(x) + k
  BY SourceApiOf, Zenon DEF Numbered
<1>5. /\ \A k \in 1..Len(x) : ApiSignalNames(c)[k] = x[k].name
      /\ \A k \in 1..Len(z) :
           \/ MethodSignatures(c)[k] = z[k].name
           \/ /\ z[k].name[1] = "push"
              /\ \E n : MethodSignatures(c)[k] = <<"pushUncapped", n>>
  BY <1>1, ApiNamesOf, Zenon
<1>6. /\ \A k \in 1..Len(x) :
           (\E n : x[k].name = <<"changed", n>>) \/ (\E n : x[k].name = <<"signal", n>>)
      /\ \A k \in 1..Len(z) :
           (\E n : z[k].name = <<"push", n>>) \/ (\E n : z[k].name = <<"slot", n>>)
  BY <1>1, RepNames, Zenon
<1>7. a.signalNames = ApiSignalNames(c) /\ a.methodNames = MethodSignatures(c)
  BY DEF SourceApi
<1>. HIDE DEF c, o, a, x, z, mo
<1>8. ASSUME NEW m \in DOMAIN o.methods
      PROVE  \E n : o.methods[m].name \in
                      {<<"changed", n>>, <<"signal", n>>, <<"push", n>>, <<"slot", n>>}
  <2>1. CASE m \in 1..mo
    BY <1>3, <2>1
  <2>2. ASSUME NEW k \in 1..Len(x), m = mo + k
        PROVE  \E n : o.methods[m].name \in {<<"changed", n>>, <<"signal", n>>}
    BY <1>1, <1>6, <2>2
  <2>3. ASSUME NEW k \in 1..Len(z), m = mo + Len(x) + k
        PROVE  \E n : o.methods[m].name \in {<<"push", n>>, <<"slot", n>>}
    BY <1>1, <1>6, <2>3
  <2>4. m \in 1..mo \/ m > mo
    BY <1>1
  <2>. QED  BY <1>2, <2>1, <2>2, <2>3, <2>4
<1>9. ASSUME NEW m \in DOMAIN o.methods, NEW n  PROVE o.methods[m].name # <<"pushUncapped", n>>
  <2>1. PICK l : o.methods[m].name \in
                   {<<"changed", l>>, <<"signal", l>>, <<"push", l>>, <<"slot", l>>}
    BY <1>8
  <2>2. <<"pushUncapped", n>> \notin
          {<<"changed", l>>, <<"signal", l>>, <<"push", l>>, <<"slot", l>>}
    BY Tags
  <2>. QED  BY <2>1, <2>2, Zenon
<1>10. ASSUME NEW k \in DOMAIN a.signals  PROVE a.signalNames[k] = NameOf(o, a, k)
  BY <1>1, <1>4, <1>5, <1>7 DEF NameOf
<1>11. ASSUME NEW k \in DOMAIN a.methods
       PROVE  LET name == o.methods[a.methods[k]].name
              IN \/ a.methodNames[k] = name
                 \/ /\ name[1] = "push"
                    /\ \A m \in DOMAIN o.methods : o.methods[m].name # a.methodNames[k]
  <2>1. k \in 1..Len(z) /\ a.methods[k] = mo + Len(x) + k
    BY <1>4
  <2>2. o.methods[a.methods[k]] = z[k]
    BY <1>1, <2>1
  <2>3. \/ MethodSignatures(c)[k] = z[k].name
        \/ /\ z[k].name[1] = "push"
           /\ \E n : MethodSignatures(c)[k] = <<"pushUncapped", n>>
    BY <1>5, <2>1
  <2>. QED  BY <1>7, <1>9, <2>2, <2>3, Zenon
<1>. QED  BY <1>10, <1>11, Zenon DEF NamesAre, c, o, a

LEMMA DesignApi ==
  ASSUME NEW d \in Designs
  PROVE  LET o == ObjectOf(d) IN
         /\ ApiIs(MethodOffset(d), o, ApiOf(d, o)) /\ NamesAre(o, ApiOf(d, o))
         /\ d.acq # "dynamic" => d.pub \in {"repc", "derived"} /\ Numbered(d, ApiOf(d, o))
<1>. DEFINE o == ObjectOf(d)
<1>1. \/ d.pub = "plain" /\ d.acq = "dynamic"
      \/ d.pub = "derived"
      \/ d.pub = "repc"
  BY DesignsAreClasses
<1>2. CASE d.pub = "repc"
  <2>1. ApiOf(d, o) = SourceApi(d.class, o)
    BY <1>2 DEF ApiOf
  <2>2. Numbered(d, SourceApi(d.class, o)) /\ NamesAre(o, SourceApi(d.class, o))
    BY <1>2, SourceApiOf, NamesOfRep
  <2>3. ApiIs(MethodOffset(d), o, SourceApi(d.class, o))
    BY <1>2, <2>2, NumberedApi
  <2>. QED  BY <1>2, <2>1, <2>2, <2>3
<1>3. CASE d.pub # "repc"
  <2>1. ApiOf(d, o) = DynamicApi(d, o)
    BY <1>3 DEF ApiOf
  <2>2. ApiIs(MethodOffset(d), o, DynamicApi(d, o))
    BY DynamicApiOf
  <2>3. NamesAre(o, DynamicApi(d, o))
    BY DEF NamesAre, NameOf, DynamicApi
  <2>4. d.pub = "derived" => Numbered(d, DynamicApi(d, o))
    BY DerivedApiOf
  <2>. QED  BY <1>1, <1>3, <2>1, <2>2, <2>3, <2>4
<1>. QED  BY <1>2, <1>3

-----------------------------------------------------------------------------
(* The tables of the replica *)

(* Signals come first. *)
LEMMA SignalsFirst ==
  ASSUME NEW mt, NEW m \in Nat, NEW n \in Nat, DOMAIN mt.methods = 1..m + n,
         \A i \in 1..m + n : mt.methods[i].sort = "signal" <=> i \in 1..m
  PROVE  Signals(mt) = m
<1>. DEFINE S == {i \in DOMAIN mt.methods : mt.methods[i].sort = "signal"}
<1>1. \A i \in 1..m : i \in 1..m + n
  OBVIOUS
<1>2. S = 1..m
  BY <1>1
<1>3. Cardinality(1..m) = IF 1 > m THEN 0 ELSE m - 1 + 1
  BY FS_Interval
<1>4. Cardinality(1..m) = m
  BY <1>3
<1>. QED  BY <1>2, <1>4 DEF Signals

(* A replica class of repc's has the methods of the source's, with the notify *)
(* signals of constants between signals and slots.                           *)
LEMMA ReplicaMethods ==
  ASSUME NEW c, RepClass(c)
  PROVE  LET mt == ReplicaClass(c)
             x == SourceSignals(c)
             z == Slots(c)
             g == Len(x)
             r == Number(c, {"Constant"})
             l == Len(z)
         IN
         /\ g \in Nat /\ r \in Nat /\ l \in Nat
         /\ DOMAIN mt.methods = 1..g + r + l /\ Len(mt.methods) = g + r + l
         /\ \A k \in 1..g : mt.methods[k] = x[k]
         /\ \A k \in 1..l : mt.methods[g + r + k] = z[k]
         /\ Distinct(mt.methods) /\ Signals(mt) = g + r
<1>. DEFINE mt == ReplicaClass(c)
            x == SourceSignals(c)
            y == ChangedSignals(OfModifier(c, {"Constant"}))
            z == Slots(c)
            v == x \o y
            g == Len(x)
            r == Number(c, {"Constant"})
            l == Len(z)
            p == Changes(c)
            s == Len(c.signals)
            O(k) == Order(c, Changing)[k]
            C(k) == Order(c, {"Constant"})[k]
<1>1. mt.methods = v \o z
  BY DEF ReplicaClass, ReplicaSignals, SourceSignals
<1>2. /\ IsSeq(x) /\ Distinct(x) /\ g = p + s /\ p \in Nat /\ s \in Nat
      /\ \A k \in 1..p : x[k].name = <<"changed", c.props[O(k)].name>>
      /\ \A k \in 1..s : x[p + k].name = <<"signal", c.signals[k].name>>
      /\ \A k \in 1..p + s :
           x[k].sort = "signal" /\ (k \in 1..p \/ \E j \in 1..s : k = p + j)
  BY SourceSignalsOf, Zenon
<1>3. /\ IsSeq(y) /\ Len(y) = r /\ Distinct(y) /\ r \in Nat
      /\ \A k \in 1..r : /\ y[k] = ChangedOf(c, C(k))
                         /\ y[k].name = <<"changed", c.props[C(k)].name>>
  BY ChangedSignalsOf, OrderOf
<1>4. /\ IsSeq(z) /\ Distinct(z)
      /\ \A k \in 1..Pushes(c) + Len(c.slots) : z[k].sort = "slot"
      /\ l = Pushes(c) + Len(c.slots)
  BY SlotsOf, Zenon
<1>5. \A k \in 1..l : (\E n : z[k].name = <<"push", n>>) \/ (\E n : z[k].name = <<"slot", n>>)
  BY RepNames, Zenon
<1>6. /\ \A k \in 1..p : O(k) \in 1..Len(c.props) /\ c.props[O(k)].mod \in Changing
      /\ \A k \in 1..r : C(k) \in 1..Len(c.props) /\ c.props[C(k)].mod \in {"Constant"}
  BY OrderOf DEF Changes
<1>7. \A i, j \in 1..Len(c.props) : c.props[i].name = c.props[j].name => i = j
  <2>1. Distinct(c.props) /\ c.props \in Seq([name : STRING, mod : Modifiers,
                                              sort : {"value", "class"}, enum : BOOLEAN])
    BY DEF RepClass
  <2>2. DOMAIN c.props = 1..Len(c.props)
    BY <2>1
  <2>. QED  BY <2>1, <2>2 DEF Distinct
<1>. HIDE DEF mt, x, y, z, r, p, s, O, C
<1>8. ASSUME NEW k \in 1..r  PROVE y[k].sort = "signal"
  <2>1. y[k] = ChangedOf(c, C(k))
    BY <1>3
  <2>2. ChangedOf(c, C(k)).sort = "signal"
    BY DEF ChangedOf, Signal
  <2>. QED  BY <2>1, <2>2
<1>9. /\ IsSeq(v) /\ Len(v) = g + r /\ g \in Nat
      /\ \A k \in 1..g : v[k] = x[k]
      /\ \A k \in 1..r : v[g + k] = y[k]
  <2>1. IsSeq(x) /\ IsSeq(y)
    BY <1>2, <1>3
  <2>2. /\ IsSeq(x \o y) /\ Len(x \o y) = Len(x) + Len(y) /\ Len(x) \in Nat
        /\ \A i \in 1..Len(x) : (x \o y)[i] = x[i]
        /\ \A i \in 1..Len(y) : (x \o y)[Len(x) + i] = y[i]
    <3>. HIDE DEF v, g
    <3>1. IsSeq(x \o y) /\ Len(x \o y) = Len(x) + Len(y)
      BY <2>1, Parts
    <3>2. \A i \in 1..Len(x) : (x \o y)[i] = x[i]
      BY <2>1, Parts
    <3>3. \A i \in 1..Len(y) : (x \o y)[Len(x) + i] = y[i]
      BY <2>1, Parts
    <3>4. Len(x) \in Nat
      BY <2>1, IsSeqElements
    <3>. QED  BY <3>1, <3>2, <3>3, <3>4
  <2>3. Len(x) = g /\ Len(y) = r /\ x \o y = v
    BY <1>3
  <2>. QED  BY <2>2, <2>3
<1>10. Distinct(v)
  <2>1. ASSUME NEW i \in 1..Len(x), NEW j \in 1..Len(y)  PROVE x[i].name # y[j].name
    <3>1. i \in 1..p \/ \E k \in 1..s : i = p + k
      BY <1>2
    <3>2. y[j].name = <<"changed", c.props[C(j)].name>> /\ j \in 1..r
      BY <1>3
    <3>3. CASE i \in 1..p
      <4>1. O(i) # C(j)
        BY <1>6, <3>2, <3>3 DEF Changing
      <4>2. c.props[O(i)].name # c.props[C(j)].name
        BY <1>6, <1>7, <3>2, <3>3, <4>1
      <4>3. x[i].name = <<"changed", c.props[O(i)].name>>
        BY <1>2, <3>3
      <4>. QED  BY <3>2, <4>2, <4>3
    <3>4. CASE \E k \in 1..s : i = p + k
      <4>1. PICK k \in 1..s : x[i].name = <<"signal", c.signals[k].name>>
        BY <1>2, <3>4, Zenon
      <4>. QED  BY <3>2, <4>1
    <3>. QED  BY <3>1, <3>3, <3>4
  <2>. QED  BY <1>2, <1>3, <2>1, DistinctParts
<1>11. ASSUME NEW i \in 1..Len(v)
       PROVE  v[i].sort = "signal" /\ \A j \in 1..l : v[i].name # z[j].name
  <2>1. i \in 1..g \/ \E k \in 1..r : i = g + k
    <3>1. g \in Nat /\ r \in Nat /\ i \in 1..g + r
      BY <1>3, <1>9
    <3>. QED  BY <3>1, TwoParts
  <2>2. CASE i \in 1..g
    <3>1. v[i] = x[i] /\ x[i].sort = "signal"
      BY <1>2, <1>9, <2>2
    <3>2. (\E n : x[i].name = <<"changed", n>>) \/ (\E n : x[i].name = <<"signal", n>>)
      BY <2>2, RepNames, Zenon DEF x
    <3>. QED  BY <1>5, <3>1, <3>2
  <2>3. ASSUME NEW k \in 1..r, i = g + k
        PROVE  v[i].sort = "signal" /\ \A j \in 1..l : v[i].name # z[j].name
    <3>1. v[i] = y[k] /\ y[k].sort = "signal" /\ y[k].name = <<"changed", c.props[C(k)].name>>
      BY <1>3, <1>8, <1>9, <2>3
    <3>. QED  BY <1>5, <3>1
  <2>. QED  BY <2>1, <2>2, <2>3
<1>. HIDE DEF v
<1>12. /\ IsSeq(mt.methods) /\ Len(mt.methods) = g + r + l /\ l \in Nat
       /\ \A k \in 1..g + r : mt.methods[k] = v[k]
       /\ \A k \in 1..l : mt.methods[g + r + k] = z[k]
  <2>1. IsSeq(v) /\ IsSeq(z)
    BY <1>4, <1>9
  <2>2. /\ IsSeq(v \o z) /\ Len(v \o z) = Len(v) + Len(z) /\ Len(z) \in Nat
        /\ \A i \in 1..Len(v) : (v \o z)[i] = v[i]
        /\ \A i \in 1..Len(z) : (v \o z)[Len(v) + i] = z[i]
    BY <2>1, Parts
  <2>. QED  BY <1>1, <1>9, <2>2
<1>13. Distinct(mt.methods)
  BY <1>1, <1>4, <1>9, <1>10, <1>11, DistinctParts
<1>14. DOMAIN mt.methods = 1..g + r + l
  BY <1>12, IsSeqElements
<1>. HIDE DEF g, l
<1>15. Signals(mt) = g + r
  <2>1. ASSUME NEW i \in 1..g + r + l
        PROVE  mt.methods[i].sort = "signal" <=> i \in 1..g + r
    <3>1. i \in 1..g + r \/ \E k \in 1..l : i = g + r + k
      <4>1. g + r \in Nat
        BY <1>3, <1>9
      <4>. QED  BY <1>12, <4>1, TwoParts
    <3>2. CASE i \in 1..g + r
      BY <1>9, <1>11, <1>12, <3>2
    <3>3. ASSUME NEW k \in 1..l, i = g + r + k
          PROVE  mt.methods[i].sort # "signal" /\ i \notin 1..g + r
      <4>1. mt.methods[i] = z[k] /\ z[k].sort = "slot"
        BY <1>4, <1>12, <3>3
      <4>2. i \notin 1..g + r
        BY <1>3, <1>9, <3>3
      <4>. QED  BY <4>1, <4>2
    <3>. QED  BY <3>1, <3>2, <3>3
  <2>2. g + r \in Nat
    BY <1>3, <1>9
  <2>. QED  BY <1>12, <1>14, <2>1, <2>2, SignalsFirst
<1>16. \A k \in 1..g : mt.methods[k] = x[k]
  BY <1>3, <1>9, <1>12
<1>. QED  BY <1>3, <1>9, <1>12, <1>13, <1>14, <1>15, <1>16, Zenon DEF mt, x, z, g, r, l

(* With a replica of the class the tables agree, *)
LEMMA StaticAgrees ==
  ASSUME NEW d \in Designs, d.acq # "dynamic"
  PROVE  Agree(d, ObjectOf(d), ApiOf(d, ObjectOf(d)), ReplicaClass(d.class))
<1>. DEFINE c == d.class
            o == ObjectOf(d)
            a == ApiOf(d, o)
            mt == ReplicaClass(c)
            x == SourceSignals(c)
            z == Slots(c)
            po == PropertyOffset(d)
            mo == MethodOffset(d)
            n == Len(c.props)
            g == Len(x)
            r == Number(c, {"Constant"})
            l == Len(z)
<1>1. /\ ApiIs(mo, o, a) /\ Numbered(d, a) /\ d.pub \in {"repc", "derived"}
  BY DesignApi
<1>2. /\ RepClass(c) /\ po \in Nat /\ mo \in Nat /\ n \in Nat /\ g \in Nat /\ l \in Nat
      /\ DOMAIN o.props = 1..po + n /\ DOMAIN o.methods = 1..mo + g + l
      /\ \A i \in 1..n : o.props[po + i] = SourceProperty(c.props[i])
      /\ \A k \in 1..g : o.methods[mo + k] = x[k]
      /\ \A k \in 1..l : o.methods[mo + g + k] = z[k]
      /\ PlainClass(o) /\ NotifiersAreOwn(mo, o)
  BY <1>1, RepObject, Zenon
<1>3. /\ \A m \in DOMAIN o.methods :
           m > mo => (\E k \in 1..g : m = mo + k) \/ (\E k \in 1..l : m = mo + g + k)
      /\ \A k \in 1..g : o.methods[mo + k].sort = "signal"
  BY <1>1, RepMethods, Zenon
<1>4. /\ r \in Nat /\ DOMAIN mt.methods = 1..g + r + l /\ Len(mt.methods) = g + r + l
      /\ \A k \in 1..g : mt.methods[k] = x[k]
      /\ \A k \in 1..l : mt.methods[g + r + k] = z[k]
      /\ Distinct(mt.methods) /\ Signals(mt) = g + r
  BY <1>2, ReplicaMethods, Zenon
<1>5. /\ DOMAIN mt.props = 1..n
      /\ \A i \in 1..n : mt.props[i] = ReplicaProperty(c.props[i])
  <2>1. DOMAIN c.props = 1..n
    BY <1>2 DEF RepClass
  <2>. QED  BY <2>1 DEF ReplicaClass
<1>6. /\ DOMAIN a.properties = 1..n /\ \A i \in 1..n : a.properties[i] = po + i
      /\ DOMAIN a.signals = 1..g /\ \A k \in 1..g : a.signals[k] = mo + k
      /\ DOMAIN a.methods = 1..l /\ \A k \in 1..l : a.methods[k] = mo + g + k
  BY <1>1 DEF Numbered
<1>7. \A i, j \in 1..n : c.props[i].sort = "class" /\ c.props[j].sort = "class" => i = j
  <2>1. DOMAIN c.props = 1..n
    BY <1>2 DEF RepClass
  <2>. QED  BY <1>2, <2>1 DEF RepClass
<1>. HIDE DEF c, o, a, mt, x, z, po, mo, n, g, r, l
<1>8. PropertiesAgree(o, a, mt)
  <2>1. \E k \in Nat : DOMAIN mt.props = 1..k /\ DOMAIN a.properties = 1..k
    BY <1>2, <1>5, <1>6
  <2>2. ASSUME NEW j \in 1..n
        PROVE  /\ a.properties[j] \in DOMAIN o.props
               /\ mt.props[j].name = o.props[a.properties[j]].name
               /\ mt.props[j].sort = o.props[a.properties[j]].sort
               /\ mt.props[j].sort = c.props[j].sort
    <3>1. a.properties[j] = po + j /\ po + j \in 1..po + n
      BY <1>2, <1>6
    <3>2. o.props[a.properties[j]] = SourceProperty(c.props[j])
      BY <1>2, <3>1
    <3>3. mt.props[j] = ReplicaProperty(c.props[j])
      BY <1>5
    <3>. QED  BY <1>2, <3>1, <3>2, <3>3 DEF SourceProperty, ReplicaProperty
  <2>. QED  BY <1>5, <1>7, <2>1, <2>2 DEF PropertiesAgree
<1>9. SignalsAgree(mo, o, a, mt)
  <2>1. (\E k \in Nat : DOMAIN a.signals = 1..k) /\ \E k \in Nat : DOMAIN mt.methods = 1..k
    <3>1. g + r + l \in Nat
      BY <1>2, <1>4
    <3>. QED  BY <1>2, <1>4, <1>6, <3>1
  <2>2. ASSUME NEW k \in 1..g
        PROVE  /\ k \in DOMAIN mt.methods /\ a.signals[k] \in DOMAIN o.methods
               /\ mt.methods[k] = o.methods[a.signals[k]]
    <3>1. k \in 1..g + r + l /\ mo + k \in 1..mo + g + l
      BY <1>2, <1>4
    <3>. QED  BY <1>2, <1>4, <1>6, <3>1
  <2>3. ASSUME NEW k \in 1..g, NEW i \in DOMAIN mt.methods,
               mt.methods[i].name = NameOf(o, a, k)
        PROVE  i \in 1..g
    BY <1>4, <2>2, <2>3 DEF NameOf, Distinct
  <2>4. \A m \in DOMAIN o.methods :
          o.methods[m].sort = "signal" /\ ~o.methods[m].cloned /\ m > mo =>
            \E k \in DOMAIN a.signals : a.signals[k] = m
    BY <1>1, Zenon DEF ApiIs, o, a, mo
  <2>. QED  BY <1>6, <2>1, <2>2, <2>3, <2>4 DEF SignalsAgree, NameOf
<1>10. RawsAgree(o, a, mt)
  BY <1>1, <1>5, <1>6 DEF ApiIs, RawsAgree
<1>11. MethodsAgree(d, mo, o, a, mt)
  <2>. SUFFICES ASSUME NEW m \in DOMAIN o.methods, o.methods[m].sort = "slot", m > mo
                PROVE  LET index == IndexOf(mt.methods, o.methods[m].name)
                       IN  /\ index > Signals(mt) /\ index - Signals(mt) \in DOMAIN a.methods
                           /\ a.methods[index - Signals(mt)] = m
    BY Zenon DEF MethodsAgree
  <2>1. PICK k \in 1..l : m = mo + g + k
    BY <1>3
  <2>2. o.methods[m] = mt.methods[g + r + k]
    BY <1>2, <1>4, <2>1
  <2>3. IndexOf(mt.methods, mt.methods[g + r + k].name) = g + r + k
    <3>1. g + r + l \in Nat /\ g + r + k \in 1..g + r + l
      BY <1>2, <1>4
    <3>. QED  BY <1>4, <3>1, IndexOfDistinct
  <2>. DEFINE index == IndexOf(mt.methods, o.methods[m].name)
  <2>5. index = g + r + k
    BY <2>2, <2>3
  <2>6. k \in DOMAIN a.methods /\ a.methods[k] = m
    BY <1>6, <2>1
  <2>. HIDE DEF index
  <2>. DEFINE s == Signals(mt)
  <2>10. s = g + r /\ r \in Nat /\ g \in Nat /\ k \in Nat
    BY <1>2, <1>4
  <2>. HIDE DEF s
  <2>7. index > s /\ index - s = k
    BY <2>5, <2>10
  <2>8. index > s /\ index - s \in DOMAIN a.methods /\ a.methods[index - s] = m
    BY <2>6, <2>7
  <2>. QED  BY <2>8 DEF index, s
<1>. QED  BY <1>2, <1>8, <1>9, <1>10, <1>11 DEF Agree, c, o, a, mt, mo

(* and so they do with a class made from what was sent, *)
Resembles(o, a, mt) ==
  LET p == Len(a.properties)
      g == Len(a.signals)
      l == Len(a.methods)
  IN
  /\ p \in Nat /\ g \in Nat /\ l \in Nat
  /\ DOMAIN a.properties = 1..p /\ DOMAIN a.signals = 1..g /\ DOMAIN a.methods = 1..l
  /\ DOMAIN mt.props = 1..p
  /\ \A j \in 1..p : /\ mt.props[j].name = o.props[a.properties[j]].name
                     /\ mt.props[j].sort = o.props[a.properties[j]].sort
  /\ DOMAIN mt.methods = 1..g + l /\ Len(mt.methods) = g + l
  /\ \A k \in 1..g : /\ mt.methods[k].name = NameOf(o, a, k)
                     /\ mt.methods[k].sort = "signal"
                     /\ mt.methods[k].arity = o.methods[a.signals[k]].arity
  /\ \A k \in 1..l : mt.methods[g + k] = Slot(a.methodNames[k])
  /\ Signals(mt) = g

LEMMA DynamicTypeIs ==
  ASSUME NEW mo \in Nat, NEW o, PlainClass(o), NEW a, ApiIs(mo, o, a), NamesAre(o, a)
  PROVE  Resembles(o, a, DynamicType(Definition(o, a)))
<1>. DEFINE mt == DynamicType(Definition(o, a))
            p == Len(a.properties)
            g == Len(a.signals)
            l == Len(a.methods)
            f == [k \in DOMAIN a.signals |-> [o.methods[a.signals[k]] EXCEPT
                                                !.name = a.signalNames[k], !.cloned = FALSE]]
            h == [k \in DOMAIN a.methods |-> Slot(a.methodNames[k])]
<1>1. /\ p \in Nat /\ g \in Nat /\ l \in Nat
      /\ DOMAIN a.properties = 1..p /\ DOMAIN a.signals = 1..g /\ DOMAIN a.methods = 1..l
  BY DEF ApiIs
<1>2. mt.methods = f \o h
  BY DEF DynamicType, Definition
<1>3. /\ DOMAIN mt.props = DOMAIN a.properties
      /\ \A j \in DOMAIN a.properties :
           mt.props[j] = [o.props[a.properties[j]] EXCEPT !.write = TRUE]
  BY DEF DynamicType, Definition
<1>4. ASSUME NEW j \in DOMAIN a.properties
      PROVE  /\ mt.props[j].name = o.props[a.properties[j]].name
             /\ mt.props[j].sort = o.props[a.properties[j]].sort
  <2>1. IsProperty(o.props[a.properties[j]])
    BY PlainIs DEF ApiIs
  <2>. QED  BY <1>3, <2>1 DEF IsProperty
<1>5. IsSeq(f) /\ Len(f) = g /\ IsSeq(h) /\ Len(h) = l
  <2>. HIDE DEF g, l
  <2>1. f = [k \in 1..g |-> f[k]] /\ h = [k \in 1..l |-> h[k]]
    BY <1>1
  <2>. HIDE DEF f, h
  <2>. QED  BY <1>1, <2>1, FunctionIsSeq
<1>6. ASSUME NEW k \in 1..g
      PROVE  /\ f[k].name = NameOf(o, a, k) /\ f[k].sort = "signal"
             /\ f[k].arity = o.methods[a.signals[k]].arity
  <2>1. k \in DOMAIN a.signals
    BY <1>1
  <2>2. IsMethod(o.methods[a.signals[k]]) /\ o.methods[a.signals[k]].sort = "signal"
    BY <2>1, PlainIs DEF ApiIs
  <2>3. a.signalNames[k] = NameOf(o, a, k)
    BY <2>1 DEF NamesAre
  <2>4. f[k] = [o.methods[a.signals[k]] EXCEPT !.name = a.signalNames[k], !.cloned = FALSE]
    BY <2>1
  <2>. HIDE DEF f
  <2>. QED  BY <2>2, <2>3, <2>4 DEF IsMethod
<1>7. ASSUME NEW k \in 1..l  PROVE h[k] = Slot(a.methodNames[k])
  BY <1>1
<1>. HIDE DEF mt, p, g, l, f, h
<1>8. /\ DOMAIN mt.methods = 1..g + l /\ Len(mt.methods) = g + l
      /\ \A k \in 1..g : mt.methods[k] = f[k]
      /\ \A k \in 1..l : mt.methods[g + k] = h[k]
  <2>1. Len(f \o h) = Len(f) + Len(h)
    BY <1>5, Parts
  <2>0. IsSeq(f) /\ IsSeq(h)
    BY <1>5
  <2>2. \A i \in 1..Len(f) : (f \o h)[i] = f[i]
    BY <2>0, Parts
  <2>3. \A i \in 1..Len(h) : (f \o h)[Len(f) + i] = h[i]
    BY <2>0, Parts
  <2>4. DOMAIN (f \o h) = 1..Len(f \o h)
    BY <1>5, Parts, IsSeqElements
  <2>. QED  BY <1>2, <1>5, <2>1, <2>2, <2>3, <2>4
<1>9. Signals(mt) = g
  <2>1. ASSUME NEW i \in 1..g + l  PROVE mt.methods[i].sort = "signal" <=> i \in 1..g
    <3>1. i \in 1..g \/ \E k \in 1..l : i = g + k
      BY <1>1, TwoParts
    <3>2. CASE i \in 1..g
      BY <1>6, <1>8, <3>2
    <3>3. ASSUME NEW k \in 1..l, i = g + k
          PROVE  mt.methods[i].sort # "signal" /\ i \notin 1..g
      <4>1. mt.methods[i] = Slot(a.methodNames[k])
        BY <1>7, <1>8, <3>3
      <4>2. mt.methods[i].sort = "slot"
        BY <4>1 DEF Slot
      <4>. QED  BY <1>1, <3>3, <4>2
    <3>. QED  BY <3>1, <3>2, <3>3
  <2>. QED  BY <1>1, <1>8, <2>1, SignalsFirst
<1>. QED  BY <1>1, <1>3, <1>4, <1>6, <1>7, <1>8, <1>9 DEF Resembles, mt, p, g, l

LEMMA OneClass ==
  ASSUME NEW o, PlainClass(o), NEW i \in DOMAIN o.props, NEW j \in DOMAIN o.props,
         o.props[i].sort = "class", o.props[j].sort = "class"
  PROVE  i = j
<1>1. {o.props[i].sort, o.props[j].sort} = {"class"}
  OBVIOUS
<1>. QED  BY <1>1 DEF PlainClass

LEMMA DynamicTypeAgrees ==
  ASSUME NEW mo \in Nat, NEW o, PlainClass(o), NEW a, ApiIs(mo, o, a), NamesAre(o, a)
  PROVE  LET mt == DynamicType(Definition(o, a)) IN
         /\ PropertiesAgree(o, a, mt) /\ SignalsAgree(mo, o, a, mt) /\ RawsAgree(o, a, mt)
         /\ \A d : d.acq = "dynamic" => MethodsAgree(d, mo, o, a, mt)
<1>. DEFINE mt == DynamicType(Definition(o, a))
            p == Len(a.properties)
            g == Len(a.signals)
            l == Len(a.methods)
<1>2. /\ p \in Nat /\ g \in Nat /\ l \in Nat
      /\ DOMAIN a.properties = 1..p /\ DOMAIN a.signals = 1..g /\ DOMAIN a.methods = 1..l
      /\ DOMAIN mt.props = 1..p
      /\ \A j \in 1..p : /\ mt.props[j].name = o.props[a.properties[j]].name
                         /\ mt.props[j].sort = o.props[a.properties[j]].sort
      /\ DOMAIN mt.methods = 1..g + l /\ Len(mt.methods) = g + l
      /\ \A k \in 1..g : /\ mt.methods[k].name = NameOf(o, a, k)
                         /\ mt.methods[k].sort = "signal"
                         /\ mt.methods[k].arity = o.methods[a.signals[k]].arity
      /\ \A k \in 1..l : mt.methods[g + k] = Slot(a.methodNames[k])
      /\ Signals(mt) = g
  <2>1. Resembles(o, a, mt)
    BY DynamicTypeIs
  <2>. HIDE DEF mt
  <2>. QED  BY <2>1 DEF Resembles
<1>. HIDE DEF mt, p, g, l
<1>1. /\ \A i \in 1..p : a.properties[i] \in DOMAIN o.props
      /\ \A i, j \in 1..p : a.properties[i] = a.properties[j] => i = j
      /\ \A k \in 1..g : /\ a.signals[k] \in DOMAIN o.methods
                         /\ o.methods[a.signals[k]].sort = "signal"
      /\ \A k \in 1..l : /\ a.methods[k] \in DOMAIN o.methods
                         /\ o.methods[a.methods[k]].sort = "slot"
      /\ \A i, j \in 1..l : a.methods[i] = a.methods[j] => i = j
      /\ \A m \in DOMAIN o.methods :
           o.methods[m].sort = "slot" /\ m > mo => \E k \in 1..l : a.methods[k] = m
  <2>1. DOMAIN a.properties = 1..p /\ DOMAIN a.signals = 1..g /\ DOMAIN a.methods = 1..l
    BY <1>2
  <2>2. /\ \A i \in 1..p : a.properties[i] \in DOMAIN o.props
        /\ \A i, j \in 1..p : a.properties[i] = a.properties[j] => i = j
    BY <2>1 DEF ApiIs
  <2>3. \A k \in 1..g : /\ a.signals[k] \in DOMAIN o.methods
                         /\ o.methods[a.signals[k]].sort = "signal"
    BY <2>1 DEF ApiIs
  <2>4. /\ \A k \in 1..l : /\ a.methods[k] \in DOMAIN o.methods
                           /\ o.methods[a.methods[k]].sort = "slot"
        /\ \A i, j \in 1..l : a.methods[i] = a.methods[j] => i = j
    BY <2>1 DEF ApiIs
  <2>5. \A m \in DOMAIN o.methods :
          o.methods[m].sort = "slot" /\ m > mo => \E k \in 1..l : a.methods[k] = m
    BY <2>1 DEF ApiIs
  <2>. QED  BY <2>2, <2>3, <2>4, <2>5
<1>8. \A k \in 1..l :
        LET name == o.methods[a.methods[k]].name
        IN \/ a.methodNames[k] = name
           \/ /\ name[1] = "push"
              /\ \A m \in DOMAIN o.methods : o.methods[m].name # a.methodNames[k]
  BY <1>2 DEF NamesAre
<1>3. ASSUME NEW k \in 1..l  PROVE mt.methods[g + k].name = a.methodNames[k]
  <2>1. mt.methods[g + k] = Slot(a.methodNames[k])
    BY <1>2
  <2>. QED  BY <2>1 DEF Slot
<1>4. PropertiesAgree(o, a, mt)
  <2>1. \A j \in 1..p : a.properties[j] \in DOMAIN o.props
    BY <1>1, <1>2
  <2>2. ASSUME NEW i \in 1..p, NEW j \in 1..p, mt.props[i].sort = "class", mt.props[j].sort = "class"
        PROVE  i = j
    <3>1. a.properties[i] = a.properties[j]
      <4>1. /\ o.props[a.properties[i]].sort = "class" /\ o.props[a.properties[j]].sort = "class"
            /\ a.properties[i] \in DOMAIN o.props /\ a.properties[j] \in DOMAIN o.props
        BY <1>2, <2>1, <2>2
      <4>. QED  BY <4>1, OneClass
    <3>. QED  BY <1>1, <3>1
  <2>. QED  BY <1>2, <2>1, <2>2 DEF PropertiesAgree
<1>5. SignalsAgree(mo, o, a, mt)
  <2>1. (\E k \in Nat : DOMAIN a.signals = 1..k) /\ \E k \in Nat : DOMAIN mt.methods = 1..k
    <3>1. g + l \in Nat
      BY <1>2
    <3>. QED  BY <1>2, <3>1
  <2>2. ASSUME NEW k \in 1..g
        PROVE  k \in DOMAIN mt.methods /\ a.signals[k] \in DOMAIN o.methods
    BY <1>1, <1>2
  <2>3. ASSUME NEW k \in 1..g, NEW i \in DOMAIN mt.methods,
               mt.methods[i].name = NameOf(o, a, k), i \notin 1..g
        PROVE  FALSE
    <3>1. PICK j \in 1..l : i = g + j
      BY <1>2, <2>3, TwoParts
    <3>2. a.methodNames[j] = o.methods[a.signals[k]].name
      BY <1>3, <2>3, <3>1 DEF NameOf
    <3>3. a.methods[j] \in DOMAIN o.methods /\ o.methods[a.methods[j]].sort = "slot"
      BY <1>1, <1>2
    <3>4. a.signals[k] \in DOMAIN o.methods /\ o.methods[a.signals[k]].sort = "signal"
      BY <1>1, <1>2
    <3>5. CASE a.methodNames[j] = o.methods[a.methods[j]].name
      <4>1. Distinct(o.methods)
        BY PlainIs
      <4>. QED  BY <3>2, <3>3, <3>4, <3>5, <4>1 DEF Distinct
    <3>6. CASE \A m \in DOMAIN o.methods : o.methods[m].name # a.methodNames[j]
      BY <3>2, <3>4, <3>6
    <3>. QED  BY <1>8, <3>5, <3>6
  <2>4. \A m \in DOMAIN o.methods :
          o.methods[m].sort = "signal" /\ ~o.methods[m].cloned /\ m > mo =>
            \E k \in DOMAIN a.signals : a.signals[k] = m
    BY Zenon DEF ApiIs
  <2>5. ASSUME NEW k \in 1..g, NEW i \in DOMAIN mt.methods, mt.methods[i].name = NameOf(o, a, k)
        PROVE  i \in 1..g
    BY <2>3, <2>5
  <2>. QED  BY <1>2, <2>1, <2>2, <2>4, <2>5 DEF SignalsAgree
<1>6. RawsAgree(o, a, mt)
  BY <1>2 DEF ApiIs, RawsAgree
<1>7. ASSUME NEW d, d.acq = "dynamic"  PROVE MethodsAgree(d, mo, o, a, mt)
  <2>. SUFFICES ASSUME NEW m \in DOMAIN o.methods, o.methods[m].sort = "slot", m > mo
                PROVE  LET index == IndexOf(mt.methods, o.methods[m].name)
                       IN  IF index > g
                           THEN index - g \in DOMAIN a.methods /\ a.methods[index - g] = m
                           ELSE o.methods[m].name[1] = "push"
    BY <1>2, <1>7 DEF MethodsAgree
  <2>. DEFINE name == o.methods[m].name
              index == IndexOf(mt.methods, name)
  <2>1. Distinct(o.methods)
    BY PlainIs
  <2>2. /\ index \in 0..g + l /\ (index # 0 => mt.methods[index].name = name)
        /\ index = 0 => \A i \in 1..g + l : mt.methods[i].name # name
    <3>1. g + l \in Nat
      BY <1>2
    <3>. QED  BY <1>2, <3>1, IndexOfNone
  <2>. HIDE DEF index
  <2>3. CASE index > g
    <3>1. index \in 1..g + l /\ index \notin 1..g
      BY <1>2, <2>2, <2>3
    <3>2. PICK k \in 1..l : index = g + k
      BY <1>2, <3>1, TwoParts
    <3>3. a.methodNames[k] = name
      BY <1>2, <1>3, <2>2, <3>1, <3>2
    <3>4. o.methods[a.methods[k]].name = name
      BY <1>1, <1>8, <3>3
    <3>5. a.methods[k] = m
      BY <1>1, <2>1, <3>4 DEF Distinct
    <3>6. index - g = k
      BY <1>2, <3>2
    <3>. QED  BY <1>2, <2>3, <3>5, <3>6 DEF index
  <2>4. CASE ~(index > g)
    <3>1. PICK k \in 1..l : a.methods[k] = m
      BY <1>1, <1>2
    <3>2. a.methodNames[k] # name
      <4>1. SUFFICES ASSUME a.methodNames[k] = name  PROVE FALSE
        OBVIOUS
      <4>2. g + k \in 1..g + l /\ mt.methods[g + k].name = name
        BY <1>2, <1>3, <4>1
      <4>3. index \in 1..g /\ mt.methods[index].name = name
        BY <1>2, <2>2, <2>4, <4>2
      <4>4. o.methods[a.signals[index]].name = name
        BY <1>2, <4>3 DEF NameOf
      <4>5. a.signals[index] \in DOMAIN o.methods /\ o.methods[a.signals[index]].sort = "signal"
        BY <1>1, <4>3
      <4>. QED  BY <2>1, <4>4, <4>5 DEF Distinct
    <3>3. name[1] = "push"
      BY <1>8, <3>1, <3>2
    <3>. QED  BY <2>4, <3>3 DEF index
  <2>. QED  BY <2>3, <2>4
<1>. QED  BY <1>4, <1>5, <1>6, <1>7 DEF mt

LEMMA DynamicAgrees ==
  ASSUME NEW d \in Designs, d.acq = "dynamic"
  PROVE  LET o == ObjectOf(d)
             a == ApiOf(d, o)
         IN  Agree(d, o, a, DynamicType(Definition(o, a)))
<1>. DEFINE mo == MethodOffset(d)
            o == ObjectOf(d)
            a == ApiOf(d, o)
<1>1. mo \in Nat /\ PlainClass(o) /\ NotifiersAreOwn(mo, o)
  BY DesignObject DEF ObjectIs
<1>2. ApiIs(mo, o, a) /\ NamesAre(o, a)
  BY DesignApi
<1>. HIDE DEF o, a
<1>3. LET mt == DynamicType(Definition(o, a)) IN
      /\ PropertiesAgree(o, a, mt) /\ SignalsAgree(mo, o, a, mt) /\ RawsAgree(o, a, mt)
      /\ MethodsAgree(d, mo, o, a, mt)
  BY <1>1, <1>2, DynamicTypeAgrees
<1>. QED  BY <1>1, <1>3 DEF Agree, o, a

(* Whatever is published and acquired, the tables agree. *)
LEMMA DesignAgrees ==
  ASSUME NEW d \in Designs
  PROVE  LET o == ObjectOf(d)
             a == ApiOf(d, o)
         IN  Agree(d, o, a, MetaOf(d, o, a))
BY StaticAgrees, DynamicAgrees DEF MetaOf

(* What a property notifies of, by its place in the metaobject of a replica. *)
NoteOf(o, a, j) == o.props[a.properties[j]].notify
OrderedRaws(o, a) ==
  /\ \A k \in DOMAIN a.raw : \A i \in 1..k - 1 : i \in DOMAIN a.raw /\ a.raw[i] < a.raw[k]
  /\ \A j \in DOMAIN a.properties :
       NoteOf(o, a, j) # None => \E k \in DOMAIN a.raw : a.raw[k] = j
NotesAgree(o, a, mt) ==
  \A j \in DOMAIN mt.props : NoteOf(o, a, j) # None => mt.props[j].notify = NoteOf(o, a, j)
Announced(d, o, a, mt) ==
  /\ OrderedRaws(o, a) /\ NotesAgree(o, a, mt)
  /\ \A j \in DOMAIN mt.props : j \in Nat \ {0}
  /\ d.acq = "inprocess" /\ ~d.base => \A j \in DOMAIN mt.props : a.properties[j] = j

(* Those that notify are in order, each at one place. *)
LEMMA RawsInOrder ==
  ASSUME NEW o, NEW a, NEW n \in Nat, DOMAIN a.properties = 1..n,
         NEW S \in SUBSET (1..n), a.raw = InOrder(S),
         \A j \in 1..n : NoteOf(o, a, j) # None => j \in S
  PROVE  OrderedRaws(o, a)
<1>. DEFINE m == Cardinality(S)
<1>1. S \in SUBSET Nat /\ IsFiniteSet(S)
  BY NumbersAreFinite
<1>2. /\ m \in Nat /\ DOMAIN a.raw = 1..m
      /\ \A j \in S : \E k \in 1..m : a.raw[k] = j
      /\ \A k, l \in 1..m : k < l => a.raw[k] < a.raw[l]
  BY <1>1, InOrderOf
<1>. HIDE DEF m
<1>3. ASSUME NEW k \in 1..m, NEW i \in 1..k - 1  PROVE i \in 1..m /\ a.raw[i] < a.raw[k]
  <2>1. i \in 1..m /\ i < k
    BY <1>2
  <2>. QED  BY <1>2, <2>1
<1>. QED  BY <1>2, <1>3 DEF OrderedRaws

LEMMA DesignRaws ==
  ASSUME NEW d \in Designs
  PROVE  OrderedRaws(ObjectOf(d), ApiOf(d, ObjectOf(d)))
<1>. DEFINE o == ObjectOf(d)
            a == ApiOf(d, o)
            po == PropertyOffset(d)
<1>1. CASE d.pub = "repc"
  <2>. DEFINE c == d.class
              n == Len(c.props)
              S == WithModifier(c, Changing)
  <2>1. /\ RepClass(c) /\ po \in Nat /\ n \in Nat
        /\ \A i \in 1..n : o.props[po + i] = SourceProperty(c.props[i])
    BY <1>1, RepObject, Zenon
  <2>2. a = SourceApi(c, o)
    BY <1>1 DEF ApiOf
  <2>3. Numbered(d, a)
    BY <1>1, <2>2, SourceApiOf
  <2>4. /\ DOMAIN a.properties = 1..n /\ \A i \in 1..n : a.properties[i] = po + i
        /\ a.raw = InOrder(S)
    BY <2>3 DEF Numbered, Order
  <2>5. DOMAIN c.props = 1..n
    BY <2>1, RepTypes
  <2>6. ASSUME NEW j \in 1..n, NoteOf(o, a, j) # None  PROVE j \in S
    <3>1. NoteOf(o, a, j) = SourceProperty(c.props[j]).notify
      BY <2>1, <2>4 DEF NoteOf
    <3>2. c.props[j].mod # "Constant"
      BY <2>6, <3>1 DEF SourceProperty
    <3>3. c.props[j].mod \in Modifiers
      BY <2>1, PropTypes
    <3>. QED  BY <2>5, <3>2, <3>3 DEF WithModifier, Changing
  <2>7. S \in SUBSET (1..n)
    BY <2>5 DEF WithModifier
  <2>. HIDE DEF o, a, S, n
  <2>. QED  BY <2>1, <2>4, <2>6, <2>7, RawsInOrder DEF o, a
<1>2. CASE d.pub # "repc"
  <2>. DEFINE n == Len(Own(d).props)
              S == {i \in DOMAIN Own(d).props : o.props[po + i].notify # None}
  <2>1. a = DynamicApi(d, o)
    BY <1>2 DEF ApiOf
  <2>3. n \in Nat /\ DOMAIN Own(d).props = 1..n
    BY DesignObject DEF ObjectIs
  <2>. HIDE DEF o, a, n
  <2>2. /\ a.properties = [i \in DOMAIN Own(d).props |-> po + i] /\ a.raw = InOrder(S)
    BY <2>1 DEF DynamicApi
  <2>4. \A j \in 1..n : NoteOf(o, a, j) # None => j \in S
    BY <2>2, <2>3 DEF NoteOf
  <2>5. S \in SUBSET (1..n) /\ DOMAIN a.properties = 1..n
    BY <2>2, <2>3
  <2>. HIDE DEF S
  <2>. QED  BY <2>2, <2>3, <2>4, <2>5, RawsInOrder DEF o, a
<1>. QED  BY <1>1, <1>2

LEMMA DesignAnnounces ==
  ASSUME NEW d \in Designs
  PROVE  LET o == ObjectOf(d)
             a == ApiOf(d, o)
         IN  Announced(d, o, a, MetaOf(d, o, a))
<1>. DEFINE o == ObjectOf(d)
            a == ApiOf(d, o)
            mt == MetaOf(d, o, a)
<1>1. OrderedRaws(o, a)
  BY DesignRaws
<1>2. PropertiesAgree(o, a, mt)
  BY DesignAgrees DEF Agree
<1>3. PICK n \in Nat : DOMAIN mt.props = 1..n /\ DOMAIN a.properties = 1..n
  BY <1>2 DEF PropertiesAgree
<1>4. CASE d.acq = "dynamic"
  <2>1. mt = DynamicType(Definition(o, a))
    BY <1>4 DEF MetaOf
  <2>3. PlainClass(o)
    BY DesignObject DEF ObjectIs
  <2>. HIDE DEF o, a, mt
  <2>2. \A j \in DOMAIN a.properties : mt.props[j] = [o.props[a.properties[j]] EXCEPT !.write = TRUE]
    BY <2>1 DEF DynamicType, Definition
  <2>4. ASSUME NEW j \in DOMAIN mt.props  PROVE mt.props[j].notify = NoteOf(o, a, j)
    <3>1. j \in DOMAIN a.properties /\ a.properties[j] \in DOMAIN o.props
      BY <1>2, <1>3 DEF PropertiesAgree
    <3>2. IsProperty(o.props[a.properties[j]])
      BY <2>3, <3>1, PlainIs
    <3>. QED  BY <2>2, <3>1, <3>2 DEF IsProperty, NoteOf
  <2>. QED  BY <1>1, <1>3, <1>4, <2>4 DEF Announced, NotesAgree, o, a, mt
<1>5. CASE d.acq # "dynamic"
  <2>. DEFINE c == d.class
              po == PropertyOffset(d)
  <2>1. d.pub \in {"repc", "derived"} /\ Numbered(d, a)
    BY <1>5, DesignApi
  <2>2. /\ RepClass(c) /\ po \in Nat /\ Len(c.props) \in Nat
        /\ \A i \in 1..Len(c.props) : o.props[po + i] = SourceProperty(c.props[i])
    BY <2>1, RepObject, Zenon
  <2>3. /\ DOMAIN a.properties = 1..Len(c.props)
        /\ \A i \in 1..Len(c.props) : a.properties[i] = po + i
    BY <2>1 DEF Numbered
  <2>4. mt = ReplicaClass(c)
    BY <1>5 DEF MetaOf
  <2>5. DOMAIN c.props = 1..Len(c.props)
    BY <2>2, RepTypes
  <2>6. \A i \in 1..Len(c.props) : mt.props[i] = ReplicaProperty(c.props[i])
    BY <2>4, <2>5 DEF ReplicaClass
  <2>7. ~d.base => po = 0
    BY DEF PropertyOffset
  <2>. HIDE DEF o, a, mt, c, po
  <2>8. ASSUME NEW j \in DOMAIN mt.props, NoteOf(o, a, j) # None
        PROVE  mt.props[j].notify = NoteOf(o, a, j)
    <3>1. j \in 1..Len(c.props)
      BY <1>3, <2>3
    <3>2. NoteOf(o, a, j) = SourceProperty(c.props[j]).notify
      BY <2>2, <2>3, <3>1 DEF NoteOf
    <3>3. mt.props[j].notify = ReplicaProperty(c.props[j]).notify
      BY <2>6, <3>1
    <3>. QED  BY <2>8, <3>2, <3>3 DEF SourceProperty, ReplicaProperty
  <2>9. ~d.base => \A j \in DOMAIN mt.props : a.properties[j] = j
    BY <1>3, <2>2, <2>3, <2>7
  <2>. QED  BY <1>1, <1>3, <2>8, <2>9 DEF Announced, NotesAgree, o, a, mt
<1>. QED  BY <1>4, <1>5 DEF o, a, mt

(* A program watches a property that has a signal of its own, or is the first *)
(* of those with a signal.                                                     *)
Watched(o, a, j) ==
  /\ NoteOf(o, a, j) # None
  /\ \A i \in 1..j - 1 : NoteOf(o, a, i) # NoteOf(o, a, j)
Entry(o, a, mt, j) == IndexOf(mt.methods, NoteOf(o, a, j))

LEMMA EntryIs ==
  ASSUME NEW d, NEW o, NEW a, NEW mt, Agree(d, o, a, mt), Announced(d, o, a, mt),
         NEW j \in DOMAIN mt.props, Watched(o, a, j)
  PROVE  LET k == Entry(o, a, mt, j) IN
         /\ k \in DOMAIN a.raw /\ a.raw[k] = j /\ k \in DOMAIN a.signals
         /\ NameOf(o, a, k) = NoteOf(o, a, j) /\ mt.props[j].notify = NoteOf(o, a, j)
         /\ \A l \in DOMAIN a.raw : a.raw[l] = j => l = k
<1>1. /\ PropertiesAgree(o, a, mt) /\ SignalsAgree(MethodOffset(d), o, a, mt)
      /\ RawsAgree(o, a, mt) /\ Distinct(o.methods)
  BY PlainIs DEF Agree
<1>2. PICK n \in Nat : DOMAIN mt.methods = 1..n
  BY <1>1 DEF SignalsAgree
<1>3. PICK g \in Nat : DOMAIN a.signals = 1..g
  BY <1>1 DEF SignalsAgree
<1>4. \A k \in DOMAIN a.raw :
        /\ k \in DOMAIN a.signals /\ a.raw[k] \in DOMAIN mt.props
        /\ NoteOf(o, a, a.raw[k]) = NameOf(o, a, k)
        /\ k \in DOMAIN mt.methods /\ mt.methods[k].name = NameOf(o, a, k)
        /\ \A i \in 1..k - 1 : i \in DOMAIN a.raw /\ a.raw[i] < a.raw[k]
  BY <1>1 DEF RawsAgree, SignalsAgree, NoteOf, Announced, OrderedRaws
<1>5. j \in DOMAIN a.properties /\ j \in Nat /\ \A i \in DOMAIN mt.props : i \in Nat \ {0}
  BY <1>1 DEF PropertiesAgree, Announced
<1>6. NoteOf(o, a, j) # None /\ \A i \in 1..j - 1 : NoteOf(o, a, i) # NoteOf(o, a, j)
  BY DEF Watched
<1>7. PICK l \in DOMAIN a.raw : a.raw[l] = j
  BY <1>5, <1>6 DEF Announced, OrderedRaws
<1>8. ASSUME NEW k \in DOMAIN a.raw, a.raw[k] = j  PROVE Entry(o, a, mt, j) = k
  <2>1. k \in 1..n /\ mt.methods[k].name = NoteOf(o, a, j)
    BY <1>2, <1>4, <1>8
  <2>. DEFINE e == Entry(o, a, mt, j)
  <2>2. e \in 1..k /\ mt.methods[e].name = NoteOf(o, a, j)
    <3>1. Len(mt.methods) = n
      BY <1>2
    <3>. QED  BY <1>2, <2>1, <3>1, IndexOfNone DEF Entry
  <2>. HIDE DEF e
  <2>3. ASSUME e # k  PROVE FALSE
    <3>1. e \in 1..k - 1
      BY <2>1, <2>2, <2>3
    <3>2. e \in DOMAIN a.raw /\ a.raw[e] < j
      BY <1>4, <1>8, <3>1
    <3>3. a.raw[e] \in 1..j - 1 /\ NoteOf(o, a, a.raw[e]) = NoteOf(o, a, j)
      BY <1>4, <1>5, <2>2, <3>2
    <3>. QED  BY <1>6, <3>3
  <2>. QED  BY <2>3 DEF e
<1>9. mt.props[j].notify = NoteOf(o, a, j)
  BY <1>6 DEF Announced, NotesAgree
<1>. QED  BY <1>4, <1>7, <1>8, <1>9

-----------------------------------------------------------------------------
(* What the variables hold *)

Definitions == {"x", "y", "invalid"}
Arguments == Values \cup {"argument"}
IsClass(mt, j) == mt.props[j].sort = "class"

(* What is sent for a property, and what is stored. *)
ValueOK(mt, j, v) ==
  IF IsClass(mt, j)
  THEN /\ v.null \in BOOLEAN /\ v.def \in Definitions \cup {NoDefinition}
       /\ v.null => v.def = NoDefinition
  ELSE v \in Values
ShownOK(mt, j, v) == v \in IF IsClass(mt, j) THEN {"null", "child"} ELSE Values

PacketOK(a, mt, p) ==
  \/ p.to = "child" /\ p.type \in {"change", "invoke"}
  \/ /\ p.to = "root" /\ p.type = "init" /\ DOMAIN p.values = DOMAIN mt.props
     /\ \A j \in DOMAIN mt.props : ValueOK(mt, j, p.values[j])
  \/ /\ p.to = "root" /\ p.type = "change" /\ p.index \in DOMAIN mt.props
     /\ ValueOK(mt, p.index, p.value)
  \/ /\ p.to = "root" /\ p.type = "invoke" /\ p.index \in DOMAIN a.signals
     /\ p.args \in Seq(Arguments) /\ p.property \in {0} \cup DOMAIN mt.props
PacketsOK(a, mt, q) == IsSeq(q) /\ \A k \in 1..Len(q) : PacketOK(a, mt, q[k])

ValuesOK(o, vals) ==
  /\ DOMAIN vals = DOMAIN o.props
  /\ \A i \in DOMAIN vals : vals[i] \in IF o.props[i].sort = "class" THEN Pointers ELSE Values
KidsOK(kids) ==
  kids \in [{"t", "u"} -> Seq(Values)] /\ Len(kids["t"]) = 1 /\ Len(kids["u"]) = 2
HostOK(h) ==
  h \in [attached : BOOLEAN, dynamic : BOOLEAN, sent : BOOLEAN, list : Seq(Arguments),
         held : Pointers, index : {1, 2}]
ReplicaOK(d, mt, r) ==
  /\ r \in [valid : BOOLEAN, type : Definitions \cup {"unknown"}, store : {r.store},
            child : {NoChild} \cup [name : Definitions, value : {r.child.value}]]
  /\ d.acq = "static" \/ (r.valid /\ d.acq # "inprocess") =>
       DOMAIN r.store = DOMAIN mt.props
  /\ \A j \in DOMAIN r.store : ShownOK(mt, j, r.store[j])
  /\ d.acq = "dynamic" /\ ~r.valid => r.child = NoChild /\ r.store = <<>>
  /\ d.acq = "inprocess" => r.store = <<>>

(* A dynamic replica knows what a pointer leads to when it reads it: the     *)
(* definition has come, or is before it on its way.                          *)
Brings(mt, p) ==
  /\ p.to = "root"
  /\ \/ p.type = "change" /\ IsClass(mt, p.index)
     \/ p.type = "init" /\ \E j \in DOMAIN mt.props : IsClass(mt, j)
Pointer(mt, p) ==
  IF p.type = "change" THEN p.value
  ELSE p.values[CHOOSE j \in DOMAIN mt.props : IsClass(mt, j)]
Defines(mt, p) == Brings(mt, p) /\ Pointer(mt, p).def # NoDefinition
Needs(mt, p) == Brings(mt, p) /\ ~Pointer(mt, p).null /\ ~Defines(mt, p)
Known(mt, known, q, k) == known \/ \E i \in 1..k : Defines(mt, q[i])
Defining(mt, known, q, sent) ==
  /\ \A k \in 1..Len(q) : Needs(mt, q[k]) => Known(mt, known, q, k - 1)
  /\ sent => Known(mt, known, q, Len(q))
DefinedInv(d, mt, h, type, q) ==
  d.acq = "dynamic" /\ h.attached =>
    h.dynamic /\ Defining(mt, type # "unknown", q, h.sent)

(* The values come first. *)
Connecting(d, h, r, q) ==
  /\ d.acq = "inprocess" => ~h.attached
  /\ ~h.attached /\ d.acq # "inprocess" => ~r.valid
  /\ ~h.attached => q = <<>>
  /\ h.attached /\ ~r.valid => q # <<>> /\ q[1].type = "init"
  /\ \A k \in 1..Len(q) : q[k].type = "init" => k = 1 /\ ~r.valid

TypeInv ==
  /\ design \in Designs /\ Agree(design, object, api, meta)
  /\ ValuesOK(object, value) /\ KidsOK(kid) /\ HostOK(host)
  /\ ReplicaOK(design, meta, replica) /\ PacketsOK(api, meta, down)
  /\ Connecting(design, host, replica, down)
  /\ DefinedInv(design, meta, host, replica.type, down)
  /\ events \in 0..MaxEvents

-----------------------------------------------------------------------------
(* What is said and heard *)

(* What a request will be taken for. *)
Member(o, a, p) ==
  IF p.type = "invoke" THEN NameIn(o.methods, a.methods[p.index])
                       ELSE NameIn(o.props, a.properties[p.index])
Meets(o, a, p, e) ==
  /\ \/ p.type = "invoke" /\ p.index \in DOMAIN a.methods
     \/ /\ p.type = "write" /\ p.index \in DOMAIN a.properties
        /\ a.properties[p.index] \in DOMAIN o.props
        /\ o.props[a.properties[p.index]].sort = "value"
  /\ \E v \in Values : p.args = <<v>>
  /\ e = [name |-> Member(o, a, p), args |-> p.args]
RequestsMeet(o, a, q, e) ==
  IsSeq(q) /\ IsSeq(e) /\ Len(q) = Len(e) /\ \A i \in 1..Len(q) : Meets(o, a, q[i], e[i])

(* Of signals with one name the last is heard. *)
IsLast(mt, k) ==
  \A i \in DOMAIN mt.methods : mt.methods[i].name = mt.methods[k].name => i <= k
Heard(mt, p) == p.to = "root" /\ p.type = "invoke" /\ IsLast(mt, p.index)
Shows(mt, j, v) == IF ~IsClass(mt, j) THEN v ELSE IF v.null THEN "null" ELSE "child"
(* The value that a notification stands for has come just before it. *)
Came(mt, q, store, k, j, v) ==
  IF k = 1 THEN j \in DOMAIN store /\ store[j] = v
  ELSE /\ q[k - 1].to = "root" /\ q[k - 1].type = "change" /\ q[k - 1].index = j
       /\ Shows(mt, j, q[k - 1].value) = v
Tells(mt, q, store, k, e) ==
  LET p == q[k]
      signal == mt.methods[p.index]
  IN  /\ e = [name |-> signal.name, args |-> [i \in 1..signal.arity |-> e.args[i]]]
      /\ \/ \A i \in 1..signal.arity : i \in DOMAIN p.args /\ p.args[i] = e.args[i]
         \/ /\ signal.arity = 1 /\ p.args = <<>> /\ p.property # 0
            /\ Came(mt, q, store, k, p.property, e.args[1])
         \/ signal.arity = 1 /\ p.args # <<>> /\ e.args \in {<<"null">>, <<"child">>}

(* n[k] of the signals emitted are heard with the first k packets. *)
Counted(mt, q, n) ==
  /\ n[0] = 0
  /\ \A k \in 1..Len(q) : n[k] = n[k - 1] + (IF Heard(mt, q[k]) THEN 1 ELSE 0)
  /\ \A i, j \in 0..Len(q) : i <= j => n[i] <= n[j]
Carries(mt, q, store, e) ==
  \E n \in [0..Len(q) -> 0..Len(e)] :
    /\ Counted(mt, q, n) /\ n[Len(q)] = Len(e)
    /\ \A k \in 1..Len(q) : Heard(mt, q[k]) => Tells(mt, q, store, k, e[n[k]])

ConveyInv ==
  /\ \A w \in wrong : LeftOver(w) \/ Misnamed(w)
  /\ RequestsMeet(object, api, up, wanted)
  /\ design.acq = "inprocess" => up = <<>>
  /\ IsSeq(due) /\ Carries(meta, down, replica.store, due)
  /\ ~host.attached => due = <<>>

-----------------------------------------------------------------------------
(* What is sent for a property, *)

LEMMA KidAtIs ==
  ASSUME KidsOK(kid), NEW v \in {"t", "u"}, NEW i \in {1, 2}
  PROVE  KidAt(v, i).name \in Definitions
<1>1. DOMAIN kid[v] \subseteq 1..2
  BY DEF KidsOK
<1>2. i \in DOMAIN kid[v] => <<"x", "y">>[i] \in {"x", "y"}
  OBVIOUS
<1>. QED  BY <1>1, <1>2 DEF KidAt, Definitions

LEMMA PropertySent ==
  ASSUME PropertiesAgree(object, api, meta), KidsOK(kid),
         NEW h, HostOK(h), NEW vals, ValuesOK(object, vals), NEW j \in DOMAIN meta.props
  PROVE  LET p == SerializeProperty(h, j, vals) IN
         /\ HostOK(p.host) /\ p.host.attached = h.attached /\ p.host.dynamic = h.dynamic
         /\ p.host.list = h.list
         /\ ValueOK(meta, j, p.value)
         /\ Shows(meta, j, p.value) = Shown(vals[api.properties[j]])
         /\ ~IsClass(meta, j) => p.host = h
         /\ IsClass(meta, j) /\ h.dynamic /\ ~p.value.null /\ p.value.def = NoDefinition => h.sent
         /\ IsClass(meta, j) /\ p.host.sent => h.sent \/ p.value.def # NoDefinition
<1>. DEFINE p == SerializeProperty(h, j, vals)
            i == api.properties[j]
            v == vals[i]
            defines == h.dynamic /\ v # "null" /\ ~h.sent
<1>1. i \in DOMAIN object.props /\ meta.props[j].sort = object.props[i].sort
  BY DEF PropertiesAgree
<1>2. v \in IF object.props[i].sort = "class" THEN Pointers ELSE Values
  BY <1>1 DEF ValuesOK
<1>3. CASE object.props[i].sort # "class"
  <2>1. p = [host |-> h, value |-> v]
    BY <1>3 DEF SerializeProperty
  <2>2. ~IsClass(meta, j) /\ v \in Values
    BY <1>1, <1>2, <1>3 DEF IsClass
  <2>3. Shown(v) = v
    BY <2>2 DEF Shown, Values
  <2>. HIDE DEF p, v
  <2>. QED  BY <2>1, <2>2, <2>3 DEF ValueOK, Shows, p, v
<1>4. CASE object.props[i].sort = "class"
  <2>. DEFINE host2 == [h EXCEPT !.held = v, !.sent = @ \/ defines]
              value2 == [null  |-> v = "null",
                         def   |-> IF defines THEN KidAt(v, h.index).name ELSE NoDefinition,
                         value |-> IF v = "null" THEN "none" ELSE KidAt(v, h.index).value]
  <2>1. p = [host |-> host2, value |-> value2]
    BY <1>4, Zenon DEF SerializeProperty
  <2>2. IsClass(meta, j) /\ v \in Pointers
    BY <1>1, <1>2, <1>4 DEF IsClass
  <2>3. v # "null" => KidAt(v, h.index).name \in Definitions
    BY <2>2, KidAtIs DEF Pointers, HostOK
  <2>4. NoDefinition \notin Definitions
    BY DEF NoDefinition, Definitions
  <2>5. Shown(v) = IF v = "null" THEN "null" ELSE "child"
    BY <2>2 DEF Shown, Pointers
  <2>. HIDE DEF v
  <2>6. defines \in BOOLEAN
    OBVIOUS
  <2>7. /\ value2.null = (v = "null")
        /\ value2.def = IF defines THEN KidAt(v, h.index).name ELSE NoDefinition
    OBVIOUS
  <2>8. /\ HostOK(host2) /\ host2.attached = h.attached /\ host2.dynamic = h.dynamic
        /\ host2.list = h.list /\ host2.sent = (h.sent \/ defines)
    BY <2>2, <2>6 DEF HostOK
  <2>. HIDE DEF host2, value2, p
  <2>9. p.host = host2 /\ p.value = value2
    BY <2>1
  <2>10. ValueOK(meta, j, value2)
    BY <2>2, <2>3, <2>4, <2>7 DEF ValueOK
  <2>11. Shows(meta, j, value2) = Shown(v)
    BY <2>2, <2>5, <2>7 DEF Shows
  <2>. QED  BY <2>2, <2>3, <2>4, <2>7, <2>8, <2>9, <2>10, <2>11 DEF p, v
<1>. QED  BY <1>3, <1>4

(* and for a signal. *)
LEMMA Marshalled ==
  ASSUME NEW list \in Seq(Arguments), NEW S, NEW args \in Seq(S), NEW n \in 0..Len(args),
         n # 0 => args \in Seq(Arguments)
  PROVE  /\ Marshal(list, args, n) \in Seq(Arguments)
         /\ \A i \in 1..n : i \in DOMAIN Marshal(list, args, n) /\ Marshal(list, args, n)[i] = args[i]
<1>. DEFINE l == Len(list)
            e == n + (IF l > n THEN (l - n) \div 2 ELSE 0)
            a == SubSeq(args, 1, n)
            b == SubSeq(list, n + 1, e)
<1>1. l \in Nat /\ n \in Nat /\ Len(args) \in Nat
  BY LenProperties
<1>2. e \in Nat /\ e >= n /\ (e <= l \/ e = n)
  BY <1>1
<1>3. a \in Seq(Arguments) /\ Len(a) = n /\ \A i \in 1..n : a[i] = args[i]
  <2>1. CASE n = 0
    <3>1. a = <<>>
      BY <2>1
    <3>. QED  BY <2>1, <3>1
  <2>2. CASE n # 0
    BY <1>1, <2>2
  <2>. QED  BY <2>1, <2>2
<1>4. b \in Seq(Arguments)
  <2>. HIDE DEF e
  <2>1. CASE e = n
    <3>1. n + 1 \in Int /\ e \in Int /\ e < n + 1
      BY <1>1, <2>1
    <3>2. b = <<>>
      BY <3>1, SubSeqEmpty
    <3>3. <<>> \in Seq(Arguments)
      OBVIOUS
    <3>. QED  BY <3>2, <3>3, Zenon
  <2>2. CASE e <= l /\ e # n
    BY <1>1, <1>2, <2>2
  <2>. QED  BY <1>2, <2>1, <2>2
<1>5. Marshal(list, args, n) = a \o b
  BY DEF Marshal
<1>. HIDE DEF a, b
<1>6. a \o b \in Seq(Arguments) /\ Len(a \o b) = Len(a) + Len(b) /\ Len(b) \in Nat
  BY <1>3, <1>4
<1>7. \A i \in 1..n : i \in DOMAIN (a \o b) /\ (a \o b)[i] = a[i]
  BY <1>1, <1>3, <1>4, <1>6
<1>. QED  BY <1>3, <1>5, <1>6, <1>7

(* What a queue of packets needs stays so when packets are added. *)
LEMMA DefiningNothing == ASSUME NEW mt, NEW b \in BOOLEAN  PROVE Defining(mt, b, <<>>, b)
BY NoSeq DEF Defining, Known

LEMMA DefiningMore ==
  ASSUME NEW mt, NEW known, NEW q, IsSeq(q), NEW sent, Defining(mt, known, q, sent),
         NEW p, NEW after, Needs(mt, p) => sent, after => sent \/ Defines(mt, p)
  PROVE  Defining(mt, known, Append(q, p), after)
<1>. DEFINE r == Append(q, p)
<1>1. /\ Len(r) = Len(q) + 1 /\ Len(q) \in Nat /\ r[Len(q) + 1] = p
      /\ \A i \in 1..Len(q) : r[i] = q[i]
  BY AppendSeq, IsSeqElements
<1>. HIDE DEF r
<1>2. ASSUME NEW k \in 0..Len(q), Known(mt, known, q, k)  PROVE Known(mt, known, r, k)
  BY <1>1, <1>2 DEF Known
<1>3. sent => Known(mt, known, r, Len(q))
  BY <1>1, <1>2 DEF Defining
<1>4. ASSUME NEW k \in 1..Len(r), Needs(mt, r[k])  PROVE Known(mt, known, r, k - 1)
  <2>1. CASE k = Len(q) + 1
    <3>1. Needs(mt, p) /\ k - 1 = Len(q)
      BY <1>1, <1>4, <2>1
    <3>. QED  BY <1>3, <3>1
  <2>2. CASE k # Len(q) + 1
    <3>1. k \in 1..Len(q) /\ k - 1 \in 0..Len(q)
      BY <1>1, <2>2
    <3>2. Known(mt, known, q, k - 1)
      BY <1>1, <1>4, <3>1 DEF Defining
    <3>. QED  BY <1>2, <3>1, <3>2
  <2>. QED  BY <2>1, <2>2
<1>5. ASSUME after  PROVE Known(mt, known, r, Len(r))
  <2>1. CASE sent
    <3>1. known \/ \E i \in 1..Len(q) : Defines(mt, r[i])
      BY <1>3, <2>1 DEF Known
    <3>2. \A i \in 1..Len(q) : i \in 1..Len(r)
      BY <1>1
    <3>. QED  BY <3>1, <3>2 DEF Known
  <2>2. CASE Defines(mt, p)
    BY <1>1, <2>2 DEF Known
  <2>. QED  BY <1>5, <2>1, <2>2
<1>. QED  BY <1>4, <1>5 DEF Defining, r

LEMMA DefiningBoth ==
  ASSUME NEW mt, NEW known, NEW q, IsSeq(q), NEW sent, Defining(mt, known, q, sent),
         NEW out, IsSeq(out), NEW after, Defining(mt, sent, out, after)
  PROVE  Defining(mt, known, q \o out, after)
<1>. DEFINE r == q \o out
<1>1. /\ Len(r) = Len(q) + Len(out) /\ Len(q) \in Nat /\ Len(out) \in Nat
      /\ \A i \in 1..Len(q) : r[i] = q[i]
      /\ \A i \in 1..Len(out) : r[Len(q) + i] = out[i]
  BY Parts
<1>. HIDE DEF r
<1>2. ASSUME NEW k \in 0..Len(q), Known(mt, known, q, k)  PROVE Known(mt, known, r, k)
  BY <1>1, <1>2 DEF Known
<1>3. ASSUME NEW k \in 0..Len(out), Known(mt, sent, out, k)
      PROVE  Known(mt, known, r, Len(q) + k)
  <2>1. CASE sent
    <3>1. Known(mt, known, q, Len(q))
      BY <2>1 DEF Defining
    <3>2. known \/ \E i \in 1..Len(q) : Defines(mt, q[i])
      BY <3>1 DEF Known
    <3>3. ASSUME NEW i \in 1..Len(q), Defines(mt, q[i])
          PROVE  i \in 1..Len(q) + k /\ Defines(mt, r[i])
      BY <1>1, <3>3
    <3>. QED  BY <3>2, <3>3 DEF Known
  <2>2. ASSUME NEW i \in 1..k, Defines(mt, out[i])  PROVE Known(mt, known, r, Len(q) + k)
    <3>1. i \in 1..Len(out) /\ Len(q) + i \in 1..Len(q) + k
      BY <1>1
    <3>2. Defines(mt, r[Len(q) + i])
      BY <1>1, <2>2, <3>1
    <3>. QED  BY <3>1, <3>2 DEF Known
  <2>. QED  BY <1>3, <2>1, <2>2 DEF Known
<1>4. ASSUME NEW k \in 1..Len(r), Needs(mt, r[k])  PROVE Known(mt, known, r, k - 1)
  <2>1. CASE k \in 1..Len(q)
    <3>1. Known(mt, known, q, k - 1)
      BY <1>1, <1>4, <2>1 DEF Defining
    <3>2. k - 1 \in 0..Len(q)
      BY <1>1, <2>1
    <3>. QED  BY <1>2, <3>1, <3>2
  <2>2. CASE k \notin 1..Len(q)
    <3>1. PICK i \in 1..Len(out) : k = Len(q) + i
      BY <1>1, <2>2, TwoParts
    <3>2. Known(mt, sent, out, i - 1)
      BY <1>1, <1>4, <3>1 DEF Defining
    <3>3. i - 1 \in 0..Len(out) /\ k - 1 = Len(q) + (i - 1)
      BY <1>1, <3>1
    <3>. QED  BY <1>3, <3>2, <3>3
  <2>. QED  BY <2>1, <2>2
<1>5. after => Known(mt, known, r, Len(r))
  <2>1. after => Known(mt, sent, out, Len(out))
    BY DEF Defining
  <2>2. Len(out) \in 0..Len(out)
    BY <1>1
  <2>. QED  BY <1>1, <1>3, <2>1, <2>2
<1>. QED  BY <1>4, <1>5 DEF Defining, r

LEMMA PacketsMore ==
  ASSUME NEW a, NEW mt, NEW q, PacketsOK(a, mt, q), NEW p, PacketOK(a, mt, p)
  PROVE  PacketsOK(a, mt, Append(q, p))
<1>1. IsSeq(q)
  BY DEF PacketsOK
<1>2. /\ IsSeq(Append(q, p)) /\ Len(Append(q, p)) = Len(q) + 1 /\ Len(q) \in Nat
      /\ \A i \in 1..Len(q) : Append(q, p)[i] = q[i]
      /\ Append(q, p)[Len(q) + 1] = p
  BY <1>1, AppendSeq, IsSeqElements
<1>3. \A i \in 1..Len(q) + 1 : i \in 1..Len(q) \/ i = Len(q) + 1
  BY <1>2
<1>. QED  BY <1>2, <1>3 DEF PacketsOK

LEMMA PacketsBoth ==
  ASSUME NEW a, NEW mt, NEW q, PacketsOK(a, mt, q), NEW out, PacketsOK(a, mt, out)
  PROVE  PacketsOK(a, mt, q \o out)
<1>1. IsSeq(q) /\ IsSeq(out)
  BY DEF PacketsOK
<1>2. /\ IsSeq(q \o out) /\ Len(q \o out) = Len(q) + Len(out)
      /\ Len(q) \in Nat /\ Len(out) \in Nat
      /\ \A i \in 1..Len(q) : (q \o out)[i] = q[i]
      /\ \A i \in 1..Len(out) : (q \o out)[Len(q) + i] = out[i]
  BY <1>1, Parts
<1>3. \A i \in 1..Len(q) + Len(out) : i \in 1..Len(q) \/ \E j \in 1..Len(out) : i = Len(q) + j
  BY <1>2, TwoParts
<1>. QED  BY <1>2, <1>3 DEF PacketsOK

-----------------------------------------------------------------------------
(* What an emission sends *)

ArgsOK(m, args) ==
  LET signal == object.methods[m] IN
  /\ args \in Seq(Arguments \cup Pointers) /\ Len(args) = signal.arity
  /\ (signal.arity = 1 /\ signal.pointer) \/ args \in Seq(Arguments)

(* The notification of a property may stand for its argument.                *)
Notification(m, vals, args, k, q) ==
  LET p == q[Len(q)]
      before == q[Len(q) - 1]
      signal == object.methods[m]
  IN
  /\ p.to = "root" /\ p.type = "invoke" /\ p.index = k
  /\ \/ \A i \in 1..signal.arity : i \in DOMAIN p.args /\ p.args[i] = args[i]
     \/ /\ signal.arity = 1 /\ signal.pointer /\ p.args = <<>>
        /\ k \in DOMAIN api.raw /\ p.property = api.raw[k] /\ Len(q) > 1
        /\ before.to = "root" /\ before.type = "change" /\ before.index = p.property
        /\ Shows(meta, p.property, before.value) = Shown(vals[api.properties[p.property]])
     \/ signal.arity = 1 /\ signal.pointer /\ p.args # <<>>

(* After t of the entries of the table, of which the last is k.              *)
Spoken(h, s) ==
  /\ HostOK(s.host) /\ s.host.attached = h.attached /\ s.host.dynamic = h.dynamic
  /\ PacketsOK(api, meta, s.out)
  /\ \A k \in 1..Len(s.out) : s.out[k].to = "root" /\ s.out[k].type \in {"change", "invoke"}
  /\ h.dynamic => Defining(meta, h.sent, s.out, s.host.sent)
Emitted(h, m, vals, args, conn, t, s) ==
  /\ Spoken(h, s)
  /\ \A k \in 1..Len(s.out) :
       s.out[k].type = "invoke" => \E j \in 1..t : s.out[k].index = conn[j]
  /\ t = 0 => s.out = <<>>
  /\ t > 0 =>
       /\ Len(s.out) > 0 /\ Notification(m, vals, args, conn[t], s.out)
       /\ \A k \in 1..Len(s.out) - 1 :
            s.out[k].type = "invoke" => \E j \in 1..t - 1 : s.out[k].index = conn[j]

LEMMA InvokeSent ==
  ASSUME Agree(design, object, api, meta), NEW list \in Seq(Arguments),
         NEW k \in DOMAIN api.signals, NEW m, api.signals[k] = m, NEW args, ArgsOK(m, args)
  PROVE  LET signal == object.methods[m]
             sent == Marshal(list, args, IF signal.arity = 1 /\ signal.pointer THEN 0
                                         ELSE signal.arity)
         IN
         /\ signal.arity \in Nat /\ m \in DOMAIN object.methods
         /\ sent \in Seq(Arguments)
         /\ \/ signal.arity = 1 /\ signal.pointer
            \/ \A i \in 1..signal.arity : i \in DOMAIN sent /\ sent[i] = args[i]
         /\ signal.pointer => k \in DOMAIN api.raw
<1>. DEFINE signal == object.methods[m]
            n == IF signal.arity = 1 /\ signal.pointer THEN 0 ELSE signal.arity
            sent == Marshal(list, args, n)
<1>1. m \in DOMAIN object.methods /\ (signal.pointer => k \in DOMAIN api.raw)
  BY DEF Agree, SignalsAgree, RawsAgree
<1>2. signal.arity \in Nat
  <2>1. IsMethod(signal)
    BY <1>1, PlainIs DEF Agree
  <2>. QED  BY <2>1 DEF IsMethod
<1>3. args \in Seq(Arguments \cup Pointers) /\ Len(args) = signal.arity
  BY DEF ArgsOK
<1>4. n \in 0..Len(args) /\ (n # 0 => args \in Seq(Arguments))
  BY <1>2 DEF ArgsOK
<1>. HIDE DEF n
<1>5. sent \in Seq(Arguments) /\ \A i \in 1..n : i \in DOMAIN sent /\ sent[i] = args[i]
  BY <1>3, <1>4, Marshalled
<1>. HIDE DEF sent
<1>6. \/ signal.arity = 1 /\ signal.pointer
      \/ \A i \in 1..signal.arity : i \in DOMAIN sent /\ sent[i] = args[i]
  BY <1>5 DEF n
<1>. QED  BY <1>1, <1>2, <1>5, <1>6 DEF sent, n

LEMMA EmissionTurn ==
  ASSUME Agree(design, object, api, meta), KidsOK(kid),
         NEW h, NEW m, NEW vals, ValuesOK(object, vals), NEW args, ArgsOK(m, args),
         NEW conn, NEW t \in Nat, conn[t + 1] \in DOMAIN api.signals,
         api.signals[conn[t + 1]] = m,
         NEW s, Emitted(h, m, vals, args, conn, t, s)
  PROVE  Emitted(h, m, vals, args, conn, t + 1, HandleMetaCall(s, conn[t + 1], vals, args))
<1>. DEFINE k == conn[t + 1]
            signal == object.methods[m]
            raw == IF k \in DOMAIN api.raw THEN api.raw[k] ELSE 0
            list == Marshal(s.host.list, args, IF signal.arity = 1 /\ signal.pointer THEN 0
                                               ELSE signal.arity)
            invoke == [type |-> "invoke", to |-> "root", index |-> k, args |-> list,
                       property |-> raw]
            e == HandleMetaCall(s, k, vals, args)
<1>1. /\ HostOK(s.host) /\ s.host.attached = h.attached /\ s.host.dynamic = h.dynamic
      /\ PacketsOK(api, meta, s.out)
      /\ \A i \in 1..Len(s.out) : s.out[i].to = "root" /\ s.out[i].type \in {"change", "invoke"}
      /\ h.dynamic => Defining(meta, h.sent, s.out, s.host.sent)
      /\ \A i \in 1..Len(s.out) :
           s.out[i].type = "invoke" => \E j \in 1..t : s.out[i].index = conn[j]
  BY DEF Emitted, Spoken
<1>2. s.host.list \in Seq(Arguments)
  BY <1>1 DEF HostOK
<1>3. /\ signal.arity \in Nat /\ list \in Seq(Arguments)
      /\ \/ signal.arity = 1 /\ signal.pointer
         \/ \A i \in 1..signal.arity : i \in DOMAIN list /\ list[i] = args[i]
      /\ signal.pointer => k \in DOMAIN api.raw
  <2>1. k \in DOMAIN api.signals /\ api.signals[k] = m
    OBVIOUS
  <2>2. /\ signal.arity \in Nat /\ m \in DOMAIN object.methods
        /\ list \in Seq(Arguments)
        /\ \/ signal.arity = 1 /\ signal.pointer
           \/ \A i \in 1..signal.arity : i \in DOMAIN list /\ list[i] = args[i]
        /\ signal.pointer => k \in DOMAIN api.raw
    <3>. HIDE DEF k
    <3>. QED  BY <1>2, <2>1, InvokeSent, Zenon
  <2>. QED  BY <2>2
<1>4. /\ 0 \notin DOMAIN meta.props
      /\ k \in DOMAIN api.raw => api.raw[k] \in DOMAIN meta.props
  <2>1. PICK n \in Nat : DOMAIN meta.props = 1..n
    BY DEF Agree, PropertiesAgree
  <2>2. 0 \notin 1..n
    OBVIOUS
  <2>3. k \in DOMAIN api.raw => api.raw[k] \in DOMAIN meta.props
    BY DEF Agree, RawsAgree
  <2>. QED  BY <2>1, <2>2, <2>3
<1>5. raw \in {0} \cup DOMAIN meta.props /\ (raw # 0 => k \in DOMAIN api.raw /\ raw = api.raw[k])
      /\ (signal.pointer => raw # 0)
  BY <1>3, <1>4
<1>6. e = IF raw = 0
          THEN [host |-> [s.host EXCEPT !.list = list], out |-> Append(s.out, invoke)]
          ELSE LET p == SerializeProperty(s.host, raw, vals)
               IN [host |-> [p.host EXCEPT !.list = list],
                   out  |-> s.out \o <<[type |-> "change", to |-> "root", index |-> raw,
                                        value |-> p.value], invoke>>]
  BY DEF HandleMetaCall
<1>. HIDE DEF signal, raw, list, e
<1>7. PacketOK(api, meta, invoke) /\ ~Needs(meta, invoke)
  BY <1>3, <1>5 DEF PacketOK, Needs, Brings
<1>8. invoke.to = "root" /\ invoke.type = "invoke" /\ invoke.index = k /\ invoke.args = list
      /\ invoke.property = raw
  OBVIOUS
<1>. HIDE DEF invoke, k
<1>9. IsSeq(s.out) /\ Len(s.out) \in Nat
  BY <1>1, IsSeqElements DEF PacketsOK
<1>10. ASSUME raw = 0  PROVE Emitted(h, m, vals, args, conn, t + 1, e)
  <2>. DEFINE out == Append(s.out, invoke)
  <2>1. e.host = [s.host EXCEPT !.list = list] /\ e.out = out
    BY <1>6, <1>10
  <2>2. /\ HostOK(e.host) /\ e.host.attached = h.attached /\ e.host.dynamic = h.dynamic
        /\ e.host.sent = s.host.sent
    BY <1>1, <1>3, <2>1 DEF HostOK
  <2>3. /\ IsSeq(out) /\ Len(out) = Len(s.out) + 1
        /\ \A i \in 1..Len(s.out) : out[i] = s.out[i]
        /\ out[Len(s.out) + 1] = invoke
    BY <1>9, AppendSeq
  <2>4. PacketsOK(api, meta, out)
    BY <1>1, <1>7, PacketsMore
  <2>5. h.dynamic => Defining(meta, h.sent, out, e.host.sent)
    BY <1>1, <1>7, <1>9, <2>2, DefiningMore
  <2>. HIDE DEF out
  <2>6. \A i \in 1..Len(out) : i \in 1..Len(s.out) \/ i = Len(s.out) + 1
    BY <1>9, <2>3
  <2>7. \A i \in 1..Len(out) : out[i].to = "root" /\ out[i].type \in {"change", "invoke"}
    BY <1>1, <1>8, <2>3, <2>6
  <2>8. ASSUME NEW i \in 1..Len(out) - 1, out[i].type = "invoke"
        PROVE  \E j \in 1..t : out[i].index = conn[j]
    BY <1>1, <1>9, <2>3, <2>8
  <2>9. ASSUME NEW i \in 1..Len(out), out[i].type = "invoke"
        PROVE  \E j \in 1..t + 1 : out[i].index = conn[j]
    <3>1. CASE i = Len(s.out) + 1
      <4>1. out[i].index = conn[t + 1] /\ t + 1 \in 1..t + 1
        BY <1>8, <2>3, <3>1 DEF k
      <4>. QED  BY <4>1
    <3>2. CASE i \in 1..Len(s.out)
      <4>1. PICK j \in 1..t : out[i].index = conn[j]
        BY <1>1, <2>3, <2>9, <3>2
      <4>2. j \in 1..t + 1
        OBVIOUS
      <4>. QED  BY <4>1, <4>2
    <3>. QED  BY <2>6, <3>1, <3>2
  <2>10. Notification(m, vals, args, k, out)
    <3>1. out[Len(out)] = invoke
      BY <2>3
    <3>2. \A i \in 1..signal.arity : i \in DOMAIN list /\ list[i] = args[i]
      BY <1>3, <1>5, <1>10
    <3>. QED  BY <1>8, <3>1, <3>2 DEF Notification, signal
  <2>11. Spoken(h, e)
    BY <2>1, <2>2, <2>4, <2>5, <2>7 DEF Spoken
  <2>12. t + 1 # 0 /\ t + 1 - 1 = t /\ Len(out) > 0
    BY <1>9, <2>3
  <2>13. e.out = out
    BY <2>1
  <2>14. \A i \in 1..Len(e.out) - 1 :
           e.out[i].type = "invoke" => \E j \in 1..t + 1 - 1 : e.out[i].index = conn[j]
    BY <2>8, <2>12, <2>13
  <2>15. \A i \in 1..Len(e.out) :
           e.out[i].type = "invoke" => \E j \in 1..t + 1 : e.out[i].index = conn[j]
    BY <2>9, <2>13
  <2>16. Notification(m, vals, args, conn[t + 1], e.out) /\ Len(e.out) > 0
    BY <2>10, <2>12, <2>13 DEF k
  <2>. QED  BY <2>11, <2>12, <2>14, <2>15, <2>16 DEF Emitted
<1>11. ASSUME raw # 0  PROVE Emitted(h, m, vals, args, conn, t + 1, e)
  <2>. DEFINE p == SerializeProperty(s.host, raw, vals)
              change == [type |-> "change", to |-> "root", index |-> raw, value |-> p.value]
              mid == Append(s.out, change)
              out == Append(mid, invoke)
  <2>1. /\ HostOK(p.host) /\ p.host.attached = h.attached /\ p.host.dynamic = h.dynamic
        /\ ValueOK(meta, raw, p.value)
        /\ Shows(meta, raw, p.value) = Shown(vals[api.properties[raw]])
        /\ ~IsClass(meta, raw) => p.host = s.host
        /\ IsClass(meta, raw) /\ h.dynamic /\ ~p.value.null /\ p.value.def = NoDefinition
             => s.host.sent
        /\ IsClass(meta, raw) /\ p.host.sent => s.host.sent \/ p.value.def # NoDefinition
    <3>1. raw \in DOMAIN meta.props /\ PropertiesAgree(object, api, meta)
      BY <1>5, <1>11 DEF Agree
    <3>. QED  BY <1>1, <3>1, PropertySent
  <2>2. e.host = [p.host EXCEPT !.list = list] /\ e.out = s.out \o <<change, invoke>>
    BY <1>6, <1>11
  <2>. HIDE DEF p
  <2>3. /\ HostOK(e.host) /\ e.host.attached = h.attached /\ e.host.dynamic = h.dynamic
        /\ e.host.sent = p.host.sent
    BY <1>3, <2>1, <2>2 DEF HostOK
  <2>4. /\ change.to = "root" /\ change.type = "change" /\ change.index = raw
        /\ change.value = p.value
    OBVIOUS
  <2>. HIDE DEF change
  <2>5. PacketOK(api, meta, change)
    BY <1>5, <1>11, <2>1, <2>4 DEF PacketOK
  <2>6. h.dynamic => (Needs(meta, change) => s.host.sent)
    BY <2>1, <2>4 DEF Needs, Brings, Defines, Pointer
  <2>7. p.host.sent => s.host.sent \/ Defines(meta, change)
    BY <2>1, <2>4 DEF Brings, Defines, Pointer
  <2>8. /\ IsSeq(mid) /\ Len(mid) = Len(s.out) + 1
        /\ \A i \in 1..Len(s.out) : mid[i] = s.out[i]
        /\ mid[Len(s.out) + 1] = change
        /\ PacketsOK(api, meta, mid)
    BY <1>1, <1>9, <2>5, AppendSeq, PacketsMore
  <2>9. h.dynamic => Defining(meta, h.sent, mid, p.host.sent)
    BY <1>1, <1>9, <2>6, <2>7, DefiningMore
  <2>. HIDE DEF mid
  <2>10. /\ IsSeq(out) /\ Len(out) = Len(mid) + 1
         /\ \A i \in 1..Len(mid) : out[i] = mid[i]
         /\ out[Len(mid) + 1] = invoke
         /\ PacketsOK(api, meta, out)
    BY <1>7, <2>8, AppendSeq, PacketsMore
  <2>11. h.dynamic => Defining(meta, h.sent, out, e.host.sent)
    BY <1>7, <2>3, <2>8, <2>9, DefiningMore
  <2>12. s.out \o <<change, invoke>> = out
    BY <1>9 DEF mid, IsSeq
  <2>. HIDE DEF out
  <2>13. /\ Len(out) = Len(s.out) + 2
         /\ \A i \in 1..Len(s.out) : out[i] = s.out[i]
         /\ out[Len(s.out) + 1] = change /\ out[Len(s.out) + 2] = invoke
         /\ \A i \in 1..Len(out) :
              i \in 1..Len(s.out) \/ i = Len(s.out) + 1 \/ i = Len(s.out) + 2
    BY <1>9, <2>8, <2>10
  <2>14. \A i \in 1..Len(out) : out[i].to = "root" /\ out[i].type \in {"change", "invoke"}
    BY <1>1, <1>8, <2>4, <2>13
  <2>15. ASSUME NEW i \in 1..Len(out) - 1, out[i].type = "invoke"
         PROVE  \E j \in 1..t : out[i].index = conn[j]
    <3>1. i \in 1..Len(s.out) \/ i = Len(s.out) + 1
      BY <1>9, <2>13
    <3>2. i # Len(s.out) + 1
      BY <2>4, <2>13, <2>15
    <3>. QED  BY <1>1, <2>13, <2>15, <3>1, <3>2
  <2>16. ASSUME NEW i \in 1..Len(out), out[i].type = "invoke"
         PROVE  \E j \in 1..t + 1 : out[i].index = conn[j]
    <3>1. CASE i = Len(s.out) + 2
      <4>1. out[i].index = conn[t + 1] /\ t + 1 \in 1..t + 1
        BY <1>8, <2>13, <3>1 DEF k
      <4>. QED  BY <4>1
    <3>2. CASE i # Len(s.out) + 2
      <4>1. i \in 1..Len(out) - 1
        BY <1>9, <2>13, <3>2
      <4>2. PICK j \in 1..t : out[i].index = conn[j]
        BY <2>15, <2>16, <4>1
      <4>3. j \in 1..t + 1
        OBVIOUS
      <4>. QED  BY <4>2, <4>3
    <3>. QED  BY <3>1, <3>2
  <2>17. Notification(m, vals, args, k, out)
    <3>1. out[Len(out)] = invoke /\ out[Len(out) - 1] = change /\ Len(out) > 1
      BY <1>9, <2>13
    <3>2. k \in DOMAIN api.raw /\ raw = api.raw[k]
      BY <1>5, <1>11
    <3>. QED  BY <1>3, <1>8, <2>1, <2>4, <3>1, <3>2 DEF Notification, signal
  <2>18. Spoken(h, e)
    BY <2>2, <2>3, <2>10, <2>11, <2>12, <2>14 DEF Spoken
  <2>19. t + 1 # 0 /\ t + 1 - 1 = t /\ Len(out) > 0
    BY <1>9, <2>13
  <2>20. e.out = out
    BY <2>2, <2>12
  <2>21. \A i \in 1..Len(e.out) - 1 :
           e.out[i].type = "invoke" => \E j \in 1..t + 1 - 1 : e.out[i].index = conn[j]
    BY <2>15, <2>19, <2>20
  <2>22. \A i \in 1..Len(e.out) :
           e.out[i].type = "invoke" => \E j \in 1..t + 1 : e.out[i].index = conn[j]
    BY <2>16, <2>20
  <2>23. Notification(m, vals, args, conn[t + 1], e.out) /\ Len(e.out) > 0
    BY <2>17, <2>19, <2>20 DEF k
  <2>. QED  BY <2>18, <2>19, <2>21, <2>22, <2>23 DEF Emitted
<1>. QED  BY <1>10, <1>11 DEF e, k

EmissionOf(base, conn, vals, args) ==
  LET handle(s, k) == HandleMetaCall(s, k, vals, args)
  IN  FoldLeft(handle, base, conn)

LEMMA EmissionFolds ==
  ASSUME NEW base, NEW conn, NEW vals, NEW args, NEW n \in Nat, DOMAIN conn = 1..n
  PROVE  \E g : /\ Folds("emission", g, base, conn, [vals |-> vals, args |-> args], n)
                /\ EmissionOf(base, conn, vals, args) = g[1..n]
<1>. DEFINE handle(s, k) == HandleMetaCall(s, k, vals, args)
            arg == [vals |-> vals, args |-> args]
            Of(g, s) ==
              IF s = {} THEN base ELSE handle(g[s \ {Max(s)}], conn[Max(s)])
            iter == CHOOSE g : g = [s \in SUBSET DOMAIN conn |-> Of(g, s)]
<1>1. EmissionOf(base, conn, vals, args) = iter[DOMAIN conn]
  BY DEF EmissionOf, FoldLeft, MapThenFoldSet
<1>2. ASSUME NEW g, NEW s
      PROVE  Of(g, s) = Turned("emission", g, base, conn, arg, s)
  BY DEF Turned, Turn
<1>. HIDE DEF Of, arg, handle
<1>3. PICK g : Folds("emission", g, base, conn, arg, n)
  BY FoldExists
<1>4. g = [s \in SUBSET DOMAIN conn |-> Of(g, s)]
  BY <1>2, <1>3 DEF Folds
<1>5. iter = [s \in SUBSET DOMAIN conn |-> Of(iter, s)]
  BY <1>4
<1>. HIDE DEF iter
<1>6. Folds("emission", iter, base, conn, arg, n)
  BY <1>2, <1>5 DEF Folds
<1>. QED  BY <1>1, <1>6 DEF arg

(* The entries of the table that are connected to a signal. *)
LEMMA ConnectedTo ==
  ASSUME Agree(design, object, api, meta),
         NEW m \in DOMAIN object.methods, object.methods[m].sort = "signal",
         ~object.methods[m].cloned, m > MethodOffset(design)
  PROVE  \E n \in Nat \ {0} :
           /\ DOMAIN Connected(m) = 1..n
           /\ \A t \in 1..n : /\ Connected(m)[t] \in DOMAIN api.signals
                              /\ api.signals[Connected(m)[t]] = m
                              /\ \A u \in 1..t - 1 : Connected(m)[u] < Connected(m)[t]
           /\ \A k \in DOMAIN api.signals :
                api.signals[k] = m => \E t \in 1..n : Connected(m)[t] = k
<1>. DEFINE S == {k \in DOMAIN api.signals : api.signals[k] = m /\ ~object.methods[m].cloned}
            n == Cardinality(S)
<1>1. PICK top \in Nat : DOMAIN api.signals = 1..top
  BY DEF Agree, SignalsAgree
<1>2. S \in SUBSET (1..top) /\ \A k : k \in S <=> k \in DOMAIN api.signals /\ api.signals[k] = m
  BY <1>1
<1>3. Connected(m) = InOrder(S)
  BY DEF Connected
<1>. HIDE DEF S
<1>4. IsFiniteSet(S) /\ S \subseteq Nat
  BY <1>1, <1>2, NumbersAreFinite
<1>5. /\ n \in Nat /\ DOMAIN InOrder(S) = 1..n
      /\ \A k \in 1..n : InOrder(S)[k] \in S
      /\ \A i \in S : \E k \in 1..n : InOrder(S)[k] = i
      /\ \A k, l \in 1..n : k < l => InOrder(S)[k] < InOrder(S)[l]
  BY <1>4, InOrderOf
<1>6. PICK k \in DOMAIN api.signals : api.signals[k] = m
  BY DEF Agree, SignalsAgree
<1>7. n # 0
  <2>1. PICK t \in 1..n : InOrder(S)[t] = k
    BY <1>2, <1>5, <1>6
  <2>. QED  BY <1>5, <2>1
<1>. HIDE DEF n
<1>8. n \in Nat \ {0} /\ DOMAIN Connected(m) = 1..n
  BY <1>3, <1>5, <1>7
<1>9. ASSUME NEW t \in 1..n
      PROVE  /\ Connected(m)[t] \in DOMAIN api.signals /\ api.signals[Connected(m)[t]] = m
             /\ \A u \in 1..t - 1 : Connected(m)[u] < Connected(m)[t]
  <2>1. \A u \in 1..t - 1 : u \in 1..n /\ u < t
    BY <1>5
  <2>. QED  BY <1>2, <1>3, <1>5, <2>1
<1>10. \A l \in DOMAIN api.signals : api.signals[l] = m => \E t \in 1..n : Connected(m)[t] = l
  BY <1>2, <1>3, <1>5
<1>. QED  BY <1>8, <1>9, <1>10

(* One packet of an emission is heard, the last. *)
Uttered(h, m, vals, args, s) ==
  /\ Spoken(h, s) /\ Len(s.out) > 0
  /\ \E k \in DOMAIN api.signals :
       api.signals[k] = m /\ IsLast(meta, k) /\ Notification(m, vals, args, k, s.out)
  /\ \A i \in 1..Len(s.out) - 1 : ~Heard(meta, s.out[i])

LEMMA LastConnected ==
  ASSUME Agree(design, object, api, meta), NEW m \in DOMAIN object.methods,
         NEW k \in DOMAIN api.signals, api.signals[k] = m
  PROVE  /\ \A i \in DOMAIN meta.methods :
              meta.methods[i].name = meta.methods[k].name =>
                i \in DOMAIN api.signals /\ api.signals[i] = m
         /\ \A i \in DOMAIN api.signals :
              api.signals[i] = m => /\ i \in DOMAIN meta.methods
                                    /\ meta.methods[i].name = meta.methods[k].name
<1>1. \A i \in DOMAIN api.signals :
        /\ i \in DOMAIN meta.methods /\ api.signals[i] \in DOMAIN object.methods
        /\ meta.methods[i].name = object.methods[api.signals[i]].name
        /\ \A j \in DOMAIN meta.methods :
             meta.methods[j].name = object.methods[api.signals[i]].name => j \in DOMAIN api.signals
  BY DEF Agree, SignalsAgree, NameOf
<1>2. Distinct(object.methods)
  BY PlainIs DEF Agree
<1>3. ASSUME NEW i \in DOMAIN meta.methods, meta.methods[i].name = meta.methods[k].name
      PROVE  i \in DOMAIN api.signals /\ api.signals[i] = m
  <2>1. i \in DOMAIN api.signals
    BY <1>1, <1>3
  <2>2. object.methods[api.signals[i]].name = object.methods[m].name
    BY <1>1, <1>3, <2>1
  <2>. QED  BY <1>1, <1>2, <2>1, <2>2 DEF Distinct
<1>. QED  BY <1>1, <1>3

LEMMA EmissionIs ==
  ASSUME Agree(design, object, api, meta), KidsOK(kid), HostOK(host),
         NEW m \in DOMAIN object.methods, object.methods[m].sort = "signal",
         ~object.methods[m].cloned, m > MethodOffset(design),
         NEW vals, ValuesOK(object, vals), NEW args, ArgsOK(m, args)
  PROVE  Uttered(host, m, vals, args,
                 EmissionOf([host |-> host, out |-> <<>>], Connected(m), vals, args))
<1>. DEFINE base == [host |-> host, out |-> <<>>]
            conn == Connected(m)
            arg == [vals |-> vals, args |-> args]
            e == EmissionOf(base, conn, vals, args)
<1>1. PICK n \in Nat \ {0} :
        /\ DOMAIN conn = 1..n
        /\ \A t \in 1..n : /\ conn[t] \in DOMAIN api.signals /\ api.signals[conn[t]] = m
                           /\ \A u \in 1..t - 1 : conn[u] < conn[t]
        /\ \A k \in DOMAIN api.signals : api.signals[k] = m => \E t \in 1..n : conn[t] = k
  BY ConnectedTo
<1>. HIDE DEF conn
<1>2. PICK g : Folds("emission", g, base, conn, arg, n) /\ e = g[1..n]
  BY <1>1, EmissionFolds
<1>. HIDE DEF base, e
<1>3. /\ g[1..0] = base
      /\ \A t \in 0..n - 1 : g[1..t + 1] = Turn("emission", g[1..t], conn[t + 1], arg)
  BY <1>1, <1>2, FoldStep
<1>4. ASSUME NEW t \in 0..n - 1
      PROVE  g[1..t + 1] = HandleMetaCall(g[1..t], conn[t + 1], vals, args)
  <2>1. arg.vals = vals /\ arg.args = args
    OBVIOUS
  <2>. HIDE DEF arg
  <2>. QED  BY <1>3, <2>1 DEF Turn
<1>. HIDE DEF arg
<1>. DEFINE T == {t \in Nat : t <= n => Emitted(host, m, vals, args, conn, t, g[1..t])}
<1>5. 0 \in T
  <2>1. base.host = host /\ base.out = <<>>
    BY DEF base
  <2>2. host.sent \in BOOLEAN
    BY DEF HostOK
  <2>3. PacketsOK(api, meta, <<>>)
    BY NoSeq DEF PacketsOK
  <2>4. Spoken(host, base)
    BY <2>1, <2>2, <2>3, NoSeq, DefiningNothing DEF Spoken
  <2>5. Emitted(host, m, vals, args, conn, 0, base)
    BY <2>1, <2>4, NoSeq DEF Emitted
  <2>. QED  BY <1>3, <2>5
<1>6. ASSUME NEW t \in Nat, t \in T  PROVE t + 1 \in T
  <2>. SUFFICES ASSUME t + 1 <= n
                PROVE  Emitted(host, m, vals, args, conn, t + 1, g[1..t + 1])
    OBVIOUS
  <2>1. t \in 0..n - 1 /\ t + 1 \in 1..n /\ t <= n
    BY <1>1
  <2>2. Emitted(host, m, vals, args, conn, t, g[1..t])
    BY <1>6, <2>1
  <2>3. conn[t + 1] \in DOMAIN api.signals /\ api.signals[conn[t + 1]] = m
    BY <1>1, <2>1
  <2>4. Emitted(host, m, vals, args, conn, t + 1,
                HandleMetaCall(g[1..t], conn[t + 1], vals, args))
    BY <2>2, <2>3, EmissionTurn
  <2>. QED  BY <1>4, <2>1, <2>4
<1>. HIDE DEF T
<1>7. n \in T
  BY <1>1, <1>5, <1>6, SetInduction
<1>8. Emitted(host, m, vals, args, conn, n, e) /\ n > 0
  BY <1>1, <1>2, <1>7 DEF T
<1>. DEFINE k == conn[n]
<1>9. k \in DOMAIN api.signals /\ api.signals[k] = m /\ k \in Nat
  <2>1. \A j \in DOMAIN api.signals : j \in Nat
    BY DEF Agree, SignalsAgree
  <2>. QED  BY <1>1, <2>1
<1>10. \A j \in 1..n : conn[j] <= k
  <2>1. ASSUME NEW j \in 1..n, j # n  PROVE conn[j] < k
    BY <1>1, <2>1
  <2>2. k <= k
    BY <1>9
  <2>3. \A j \in 1..n : conn[j] \in Nat
    <3>1. \A j \in DOMAIN api.signals : j \in Nat
      BY DEF Agree, SignalsAgree
    <3>. QED  BY <1>1, <3>1
  <2>. QED  BY <1>9, <2>1, <2>2, <2>3
<1>11. IsLast(meta, k)
  BY <1>1, <1>9, <1>10, LastConnected DEF IsLast
<1>12. ASSUME NEW i \in 1..Len(e.out) - 1  PROVE ~Heard(meta, e.out[i])
  <2>. SUFFICES ASSUME Heard(meta, e.out[i])  PROVE FALSE
    OBVIOUS
  <2>1. PICK j \in 1..n - 1 : e.out[i].index = conn[j]
    BY <1>8 DEF Emitted, Heard
  <2>2. conn[j] \in DOMAIN api.signals /\ api.signals[conn[j]] = m /\ conn[j] < k /\ conn[j] \in Nat
    <3>1. \A l \in DOMAIN api.signals : l \in Nat
      BY DEF Agree, SignalsAgree
    <3>. QED  BY <1>1, <3>1
  <2>3. k \in DOMAIN meta.methods /\ meta.methods[k].name = meta.methods[conn[j]].name
    BY <1>9, <2>2, LastConnected
  <2>4. k <= conn[j]
    BY <2>1, <2>3 DEF Heard, IsLast
  <2>. QED  BY <1>9, <2>2, <2>4
<1>13. Spoken(host, e) /\ Len(e.out) > 0 /\ Notification(m, vals, args, k, e.out)
  BY <1>8 DEF Emitted
<1>14. Uttered(host, m, vals, args, e)
  BY <1>9, <1>11, <1>12, <1>13 DEF Uttered
<1>. QED  BY <1>14 DEF e, base, conn

-----------------------------------------------------------------------------
(* What is on its way tells of what was emitted. *)

(* The count for a queue and packets of which only the last may be heard. *)
CountsOn(mt, q, n, top, out, more) ==
  LET l == Len(q)
      m == Len(out)
      last == top + (IF Heard(mt, out[m]) THEN 1 ELSE 0)
  IN
  /\ more \in [0..l + m -> 0..last] /\ more[l + m] = last
  /\ Counted(mt, q \o out, more)
  /\ \A k \in 1..l + m :
       Heard(mt, (q \o out)[k]) =>
         \/ k \in 1..l /\ Heard(mt, q[k]) /\ more[k] = n[k] /\ n[k] \in 1..top
         \/ k = l + m /\ Heard(mt, out[m])

LEMMA CountedMore ==
  ASSUME NEW mt, NEW q, IsSeq(q), NEW top \in Nat, NEW n \in [0..Len(q) -> 0..top],
         Counted(mt, q, n), n[Len(q)] = top,
         NEW out, IsSeq(out), Len(out) > 0, \A i \in 1..Len(out) - 1 : ~Heard(mt, out[i])
  PROVE  \E more : CountsOn(mt, q, n, top, out, more)
<1>. DEFINE l == Len(q)
            m == Len(out)
            r == q \o out
            last == top + (IF Heard(mt, out[m]) THEN 1 ELSE 0)
            more == [k \in 0..l + m |-> IF k <= l THEN n[k] ELSE IF k < l + m THEN top ELSE last]
<1>1. /\ l \in Nat /\ m \in Nat /\ Len(r) = l + m
      /\ \A i \in 1..l : r[i] = q[i]
      /\ \A i \in 1..m : r[l + i] = out[i]
  BY Parts
<1>2. m > 0 /\ \A i \in 1..m - 1 : ~Heard(mt, out[i])
  OBVIOUS
<1>3. last \in Nat /\ (last = top \/ last = top + 1)
      /\ (Heard(mt, out[m]) <=> last = top + 1)
  OBVIOUS
<1>4. /\ n \in [0..l -> 0..top] /\ n[l] = top /\ n[0] = 0
      /\ \A k \in 1..l : n[k] = n[k - 1] + (IF Heard(mt, q[k]) THEN 1 ELSE 0)
      /\ \A i, j \in 0..l : i <= j => n[i] <= n[j]
  BY DEF Counted
<1>5. \A i \in 0..l : n[i] \in 0..top
  BY <1>1, <1>4
<1>. HIDE DEF l, m, r, last
<1>6. \A k \in 0..l : more[k] = n[k] /\ more[k] \in 0..top
  <2>1. \A k \in 0..l : k \in 0..l + m /\ k <= l
    BY <1>1
  <2>. QED  BY <1>5, <2>1
<1>7. \A k \in 0..l + m : l < k /\ k < l + m => more[k] = top
  BY <1>1
<1>8. more[l + m] = last
  <2>1. l + m \in 0..l + m /\ ~(l + m <= l) /\ ~(l + m < l + m)
    BY <1>1, <1>2
  <2>. QED  BY <2>1
<1>9. more = [k \in 0..l + m |-> more[k]]
  OBVIOUS
<1>. HIDE DEF more
<1>10. \A k \in 0..l + m : k \in 0..l \/ (l < k /\ k < l + m) \/ k = l + m
  BY <1>1
<1>11. \A k \in 0..l + m : more[k] \in 0..last
  <2>1. ASSUME NEW k \in 0..l + m  PROVE more[k] \in 0..top \/ more[k] = last
    BY <1>6, <1>7, <1>8, <1>10
  <2>. QED  BY <1>3, <2>1
<1>12. more \in [0..l + m -> 0..last]
  BY <1>9, <1>11
<1>13. ASSUME NEW k \in 1..l + m
       PROVE  /\ more[k] = more[k - 1] + (IF Heard(mt, r[k]) THEN 1 ELSE 0)
              /\ Heard(mt, r[k]) =>
                   \/ k \in 1..l /\ Heard(mt, q[k]) /\ more[k] = n[k] /\ n[k] \in 1..top
                   \/ k = l + m /\ Heard(mt, out[m])
  <2>1. CASE k \in 1..l
    <3>1. k \in 0..l /\ k - 1 \in 0..l
      BY <1>1, <2>1
    <3>2. r[k] = q[k] /\ more[k] = n[k] /\ more[k - 1] = n[k - 1]
      BY <1>1, <1>6, <2>1, <3>1
    <3>3. Heard(mt, q[k]) => n[k] \in 1..top
      BY <1>4, <1>5, <2>1, <3>1
    <3>. QED  BY <1>4, <2>1, <3>2, <3>3
  <2>2. CASE l < k /\ k < l + m
    <3>1. PICK i \in 1..m - 1 : k = l + i
      <4>1. k - l \in 1..m - 1 /\ k = l + (k - l)
        BY <1>1, <2>2
      <4>. QED  BY <4>1
    <3>2. ~Heard(mt, r[k])
      <4>1. i \in 1..m
        BY <1>1
      <4>2. r[k] = out[i]
        BY <1>1, <3>1, <4>1
      <4>. QED  BY <1>2, <4>2
    <3>3. more[k] = top
      BY <1>7, <2>2
    <3>4. more[k - 1] = top
      <4>1. CASE k - 1 = l
        <5>1. l \in 0..l
          BY <1>1
        <5>. QED  BY <1>4, <1>6, <4>1, <5>1
      <4>2. CASE k - 1 # l
        <5>1. k - 1 \in 0..l + m /\ l < k - 1 /\ k - 1 < l + m
          BY <1>1, <2>2, <4>2
        <5>. QED  BY <1>7, <5>1
      <4>. QED  BY <4>1, <4>2
    <3>. QED  BY <3>2, <3>3, <3>4
  <2>3. CASE k = l + m
    <3>1. r[k] = out[m]
      <4>1. m \in 1..m
        BY <1>1, <1>2
      <4>. QED  BY <1>1, <2>3, <4>1
    <3>2. more[k - 1] = top
      <4>1. CASE m = 1
        <5>1. k - 1 = l /\ l \in 0..l
          BY <1>1, <2>3, <4>1
        <5>. QED  BY <1>4, <1>6, <5>1
      <4>2. CASE m # 1
        <5>1. k - 1 \in 0..l + m /\ l < k - 1 /\ k - 1 < l + m
          BY <1>1, <1>2, <2>3, <4>2
        <5>. QED  BY <1>7, <5>1
      <4>. QED  BY <4>1, <4>2
    <3>. QED  BY <1>3, <1>8, <2>3, <3>1, <3>2
  <2>. QED  BY <1>10, <2>1, <2>2, <2>3
<1>14. more[0] = 0
  BY <1>1, <1>4, <1>6
<1>15. ASSUME NEW i \in 0..l + m, NEW j \in 0..l + m, i <= j
       PROVE  more[i] <= more[j]
  <2>1. CASE j = l + m
    BY <1>3, <1>8, <1>11, <2>1
  <2>2. CASE j \in 0..l
    <3>1. i \in 0..l
      BY <1>1, <1>15, <2>2
    <3>. QED  BY <1>4, <1>6, <1>15, <2>2, <3>1
  <2>3. CASE l < j /\ j < l + m
    <3>1. more[j] = top
      BY <1>7, <2>3
    <3>2. more[i] \in 0..top
      <4>1. i \in 0..l \/ (l < i /\ i < l + m)
        BY <1>1, <1>15, <2>3
      <4>2. top \in 0..top
        OBVIOUS
      <4>. QED  BY <1>6, <1>7, <4>1, <4>2
    <3>. QED  BY <3>1, <3>2
  <2>. QED  BY <1>10, <2>1, <2>2, <2>3
<1>16. Counted(mt, r, more)
  BY <1>1, <1>13, <1>14, <1>15 DEF Counted
<1>17. CountsOn(mt, q, n, top, out, more)
  BY <1>8, <1>12, <1>13, <1>16 DEF CountsOn, l, m, r, last
<1>. QED  BY <1>17

LEMMA CarriesMore ==
  ASSUME NEW mt, NEW q, IsSeq(q), NEW store, NEW e, IsSeq(e), Carries(mt, q, store, e),
         NEW out, IsSeq(out), Len(out) > 0, \A i \in 1..Len(out) - 1 : ~Heard(mt, out[i]),
         NEW x
  PROVE  /\ ~Heard(mt, out[Len(out)]) => Carries(mt, q \o out, store, e)
         /\ /\ Heard(mt, out[Len(out)])
            /\ Tells(mt, q \o out, store, Len(q \o out), x)
            => Carries(mt, q \o out, store, Append(e, x))
<1>. DEFINE l == Len(q)
            m == Len(out)
            r == q \o out
            top == Len(e)
            last == top + (IF Heard(mt, out[m]) THEN 1 ELSE 0)
<1>1. /\ l \in Nat /\ m \in Nat /\ Len(r) = l + m
      /\ \A i \in 1..l : r[i] = q[i]
  BY Parts
<1>2. top \in Nat
  BY IsSeqElements
<1>3. PICK n \in [0..l -> 0..top] :
        /\ Counted(mt, q, n) /\ n[l] = top
        /\ \A k \in 1..l : Heard(mt, q[k]) => Tells(mt, q, store, k, e[n[k]])
  BY DEF Carries
<1>a. PICK more : CountsOn(mt, q, n, top, out, more)
  BY <1>2, <1>3, CountedMore
<1>4. /\ more \in [0..l + m -> 0..last]
      /\ more[l + m] = last /\ Counted(mt, r, more)
      /\ \A k \in 1..l + m :
           Heard(mt, r[k]) =>
             \/ k \in 1..l /\ Heard(mt, q[k]) /\ more[k] = n[k] /\ n[k] \in 1..top
             \/ k = l + m /\ Heard(mt, out[m])
  BY <1>a DEF CountsOn
<1>. HIDE DEF l, m, r, top, last
<1>5. ASSUME NEW k \in 1..l, Heard(mt, q[k])  PROVE Tells(mt, r, store, k, e[n[k]])
  <2>1. Tells(mt, q, store, k, e[n[k]]) /\ r[k] = q[k]
    BY <1>1, <1>3, <1>5
  <2>2. k # 1 => r[k - 1] = q[k - 1]
    BY <1>1
  <2>. QED  BY <2>1, <2>2 DEF Tells, Came
<1>6. ASSUME ~Heard(mt, out[m])  PROVE Carries(mt, r, store, e)
  <2>1. last = top
    BY <1>2, <1>6 DEF last
  <2>2. \A k \in 1..l + m : Heard(mt, r[k]) => Tells(mt, r, store, k, e[more[k]])
    BY <1>4, <1>5, <1>6
  <2>. QED  BY <1>1, <1>4, <2>1, <2>2 DEF Carries, top
<1>7. ASSUME Heard(mt, out[m]), Tells(mt, r, store, l + m, x)
      PROVE  Carries(mt, r, store, Append(e, x))
  <2>. DEFINE f == Append(e, x)
  <2>1. /\ Len(f) = last /\ last = top + 1 /\ f[last] = x
        /\ \A i \in 1..top : f[i] = e[i]
    BY <1>2, <1>7, AppendSeq DEF last, top
  <2>. HIDE DEF f
  <2>2. \A k \in 1..l + m : Heard(mt, r[k]) => Tells(mt, r, store, k, f[more[k]])
    BY <1>4, <1>5, <1>7, <2>1
  <2>. QED  BY <1>1, <1>4, <2>1, <2>2 DEF Carries, f
<1>. QED  BY <1>1, <1>6, <1>7 DEF l, m, r

(* A pointer notifies with its value. *)
Speaks(m, vals, args) ==
  /\ ArgsOK(m, args)
  /\ object.methods[m].pointer =>
       \E i \in DOMAIN object.props : object.props[i].sort = "class" /\ args = <<vals[i]>>

LEMMA NotifierIs ==
  ASSUME PlainClass(object), NEW i \in DOMAIN object.props, NEW m \in DOMAIN object.methods,
         object.props[i].notify = object.methods[m].name
  PROVE  LET signal == object.methods[m] IN
         /\ signal.sort = "signal" /\ ~signal.cloned /\ signal.arity \in {0, 1}
         /\ signal.pointer <=> signal.arity = 1 /\ object.props[i].sort = "class"
<1>1. Distinct(object.methods) /\ object.methods[m].name # None
  BY PlainIs
<1>2. PICK n \in DOMAIN object.methods :
        LET signal == object.methods[n] IN
        /\ signal.name = object.props[i].notify /\ signal.sort = "signal" /\ ~signal.cloned
        /\ signal.arity \in {0, 1}
        /\ signal.pointer <=> signal.arity = 1 /\ object.props[i].sort = "class"
  BY <1>1 DEF PlainClass
<1>3. n = m
  BY <1>1, <1>2 DEF Distinct
<1>. QED  BY <1>2, <1>3

LEMMA PointerIs ==
  ASSUME PlainClass(object), NEW m \in DOMAIN object.methods, object.methods[m].pointer
  PROVE  /\ object.methods[m].arity = 1
         /\ \E i \in DOMAIN object.props :
              object.props[i].sort = "class" /\ object.props[i].notify = object.methods[m].name
<1>1. PICK i \in DOMAIN object.props :
        object.props[i].sort = "class" /\ object.props[i].notify = object.methods[m].name
  BY DEF PlainClass
<1>2. object.methods[m].arity = 1
  BY <1>1, NotifierIs
<1>. QED  BY <1>1, <1>2

(* Whoever hears it hears what was emitted. *)
Spelled(m, args) ==
  [name |-> object.methods[m].name, args |-> [i \in DOMAIN args |-> Shown(args[i])]]

Spelling(k, m, args, x) ==
  /\ m \in DOMAIN object.methods /\ meta.methods[k].arity = object.methods[m].arity
  /\ object.methods[m].arity \in Nat /\ DOMAIN args = 1..object.methods[m].arity
  /\ x = [name |-> meta.methods[k].name,
          args |-> [i \in 1..meta.methods[k].arity |-> x.args[i]]]

LEMMA SpelledIs ==
  ASSUME Agree(design, object, api, meta), NEW k \in DOMAIN api.signals,
         NEW m, m = api.signals[k], NEW args, ArgsOK(m, args)
  PROVE  Spelling(k, m, args, Spelled(m, args))
<1>1. /\ m \in DOMAIN object.methods /\ meta.methods[k].arity = object.methods[m].arity
      /\ meta.methods[k].name = object.methods[m].name
  BY DEF Agree, SignalsAgree, NameOf
<1>2. object.methods[m].arity \in Nat
  <2>1. IsMethod(object.methods[m])
    BY <1>1, PlainIs DEF Agree
  <2>. QED  BY <2>1 DEF IsMethod
<1>3. DOMAIN args = 1..object.methods[m].arity
  BY LenProperties DEF ArgsOK
<1>4. /\ Spelled(m, args).name = object.methods[m].name
      /\ Spelled(m, args) = [name |-> Spelled(m, args).name, args |-> Spelled(m, args).args]
      /\ Spelled(m, args).args = [i \in DOMAIN args |-> Spelled(m, args).args[i]]
  BY DEF Spelled
<1>. QED  BY <1>1, <1>2, <1>3, <1>4 DEF Spelling

LEMMA Said ==
  ASSUME Agree(design, object, api, meta), NEW k \in DOMAIN api.signals,
         NEW m, api.signals[k] = m, NEW vals, ValuesOK(object, vals),
         NEW args, Speaks(m, vals, args), NEW q, IsSeq(q), NEW out, IsSeq(out), Len(out) > 0,
         Notification(m, vals, args, k, out), NEW store
  PROVE  Tells(meta, q \o out, store, Len(q \o out), Spelled(m, args))
<1>. DEFINE r == q \o out
            l == Len(r)
            p == out[Len(out)]
            before == out[Len(out) - 1]
            signal == object.methods[m]
            x == Spelled(m, args)
<1>1. /\ m \in DOMAIN object.methods /\ meta.methods[k].arity = signal.arity
      /\ signal.arity \in Nat /\ DOMAIN args = 1..signal.arity
      /\ x = [name |-> meta.methods[k].name,
              args |-> [i \in 1..meta.methods[k].arity |-> x.args[i]]]
  <2>1. ArgsOK(m, args) /\ m = api.signals[k]
    BY DEF Speaks
  <2>2. Spelling(k, m, args, x)
    BY <2>1, SpelledIs
  <2>. QED  BY <2>2 DEF Spelling
<1>2. \A i \in DOMAIN args : x.args[i] = Shown(args[i])
  BY DEF Spelled
<1>3. /\ Len(q) \in Nat /\ Len(out) \in Nat /\ l = Len(q) + Len(out)
      /\ \A i \in 1..Len(out) : r[Len(q) + i] = out[i]
  BY Parts
<1>4. r[l] = p
  <2>1. Len(out) \in 1..Len(out)
    BY <1>3
  <2>. QED  BY <1>3, <2>1
<1>. HIDE DEF r, l, x, p
<1>5. p.index = k
  BY DEF Notification, p
<1>6. CASE ~signal.pointer
  <2>1. args \in Seq(Arguments)
    BY <1>6 DEF Speaks, ArgsOK
  <2>2. \A i \in DOMAIN args : Shown(args[i]) = args[i]
    BY <2>1 DEF Shown, Arguments, Values
  <2>3. \A i \in 1..signal.arity : i \in DOMAIN p.args /\ p.args[i] = args[i]
    BY <1>6 DEF Notification, p
  <2>4. \A i \in 1..signal.arity : i \in DOMAIN p.args /\ p.args[i] = x.args[i]
    BY <1>1, <1>2, <2>2, <2>3
  <2>. QED  BY <1>1, <1>4, <1>5, <2>4 DEF Tells, x, r, l
<1>7. CASE signal.pointer
  <2>1. PICK i \in DOMAIN object.props : object.props[i].sort = "class" /\ args = <<vals[i]>>
    BY <1>7 DEF Speaks
  <2>2. signal.arity = 1
    BY <1>1, <1>7, PointerIs DEF Agree
  <2>3. x.args[1] = Shown(vals[i])
    BY <1>2, <2>1
  <2>4. x.args = <<x.args[1]>>
    <3>1. x.args = [j \in 1..1 |-> x.args[j]]
      BY <1>1, <2>2
    <3>. QED  BY <3>1
  <2>5. vals[i] \in Pointers
    BY <2>1 DEF ValuesOK
  <2>6. x.args \in {<<"null">>, <<"child">>}
    BY <2>3, <2>4, <2>5 DEF Shown, Pointers
  <2>7. \/ p.args # <<>>
        \/ /\ p.args = <<>> /\ k \in DOMAIN api.raw /\ p.property = api.raw[k] /\ Len(out) > 1
           /\ before.to = "root" /\ before.type = "change" /\ before.index = p.property
           /\ Shows(meta, p.property, before.value) = Shown(vals[api.properties[p.property]])
    BY <1>7, <2>2 DEF Notification, p
  <2>. HIDE DEF before
  <2>8. CASE p.args # <<>>
    BY <1>1, <1>4, <1>5, <2>2, <2>6, <2>8 DEF Tells, x, r, l
  <2>9. CASE p.args = <<>>
    <3>1. /\ k \in DOMAIN api.raw /\ p.property = api.raw[k] /\ Len(out) > 1
          /\ before.to = "root" /\ before.type = "change" /\ before.index = p.property
          /\ Shows(meta, p.property, before.value) = Shown(vals[api.properties[p.property]])
      BY <2>7, <2>9
    <3>2. /\ p.property \in DOMAIN meta.props
          /\ api.properties[p.property] \in DOMAIN object.props
          /\ object.props[api.properties[p.property]].notify = signal.name
      BY <3>1 DEF Agree, RawsAgree, PropertiesAgree, NameOf
    <3>3. object.props[api.properties[p.property]].sort = "class"
      BY <1>1, <1>7, <3>2, NotifierIs DEF Agree
    <3>4. api.properties[p.property] = i
      BY <2>1, <3>2, <3>3, OneClass DEF Agree
    <3>5. p.property # 0
      BY <3>2 DEF Agree, PropertiesAgree
    <3>6. r[l - 1] = before /\ l # 1
      <4>1. Len(out) - 1 \in 1..Len(out) /\ l - 1 = Len(q) + (Len(out) - 1)
        BY <1>3, <3>1
      <4>2. l # 1
        BY <1>3, <3>1
      <4>. QED  BY <1>3, <4>1, <4>2 DEF before
    <3>7. Came(meta, r, store, l, p.property, x.args[1])
      BY <2>3, <3>1, <3>4, <3>6 DEF Came
    <3>. QED  BY <1>1, <1>4, <1>5, <2>2, <2>9, <3>5, <3>7 DEF Tells, x, r, l
  <2>. QED  BY <2>8, <2>9
<1>. QED  BY <1>6, <1>7

-----------------------------------------------------------------------------
(* What is sent leaves the host, the wire and what is due as they should be. *)

Sent(h, q, e) ==
  /\ HostOK(h) /\ PacketsOK(api, meta, q)
  /\ Connecting(design, h, replica, q)
  /\ DefinedInv(design, meta, h, replica.type, q)
  /\ IsSeq(e) /\ Carries(meta, q, replica.store, e)
  /\ ~h.attached => e = <<>>

LEMMA ConnectingMore ==
  ASSUME NEW d, NEW h, NEW r, NEW q, IsSeq(q), Connecting(d, h, r, q), h.attached,
         NEW after, after.attached, NEW out, IsSeq(out),
         \A k \in 1..Len(out) : out[k].type # "init"
  PROVE  Connecting(d, after, r, q \o out)
<1>. DEFINE s == q \o out
<1>1. /\ IsSeq(s) /\ Len(s) = Len(q) + Len(out) /\ Len(q) \in Nat /\ Len(out) \in Nat
      /\ \A i \in 1..Len(q) : s[i] = q[i]
      /\ \A i \in 1..Len(out) : s[Len(q) + i] = out[i]
  BY Parts
<1>. HIDE DEF s
<1>2. ASSUME NEW k \in 1..Len(s), s[k].type = "init"  PROVE k = 1 /\ ~r.valid
  <2>1. k \in 1..Len(q)
    <3>1. ASSUME NEW j \in 1..Len(out), k = Len(q) + j  PROVE FALSE
      BY <1>1, <1>2, <3>1
    <3>2. k \in 1..Len(q) + Len(out)
      BY <1>1
    <3>3. k \in 1..Len(q) \/ \E j \in 1..Len(out) : k = Len(q) + j
      BY <1>1, <3>2, TwoParts
    <3>. QED  BY <3>1, <3>3
  <2>. QED  BY <1>1, <1>2, <2>1 DEF Connecting
<1>3. ~r.valid => s # <<>> /\ s[1].type = "init"
  <2>. SUFFICES ASSUME ~r.valid  PROVE s # <<>> /\ s[1].type = "init"
    OBVIOUS
  <2>1. q # <<>> /\ q[1].type = "init"
    BY DEF Connecting
  <2>2. Len(q) # 0
    BY <2>1, EmptySeq DEF IsSeq
  <2>3. 1 \in 1..Len(q) /\ Len(s) # 0
    BY <1>1, <2>2
  <2>. QED  BY <1>1, <2>1, <2>3
<1>. QED  BY <1>2, <1>3 DEF Connecting, s

LEMMA EmissionSent ==
  ASSUME Agree(design, object, api, meta), Sent(host, down, due),
         NEW m, NEW vals, ValuesOK(object, vals), NEW args, Speaks(m, vals, args),
         NEW s, Uttered(host, m, vals, args, s)
  PROVE  IF host.attached THEN Sent(s.host, down \o s.out, Append(due, Spelled(m, args)))
         ELSE Sent(s.host, down, due)
<1>1. /\ HostOK(s.host) /\ s.host.attached = host.attached /\ s.host.dynamic = host.dynamic
      /\ PacketsOK(api, meta, s.out)
      /\ \A k \in 1..Len(s.out) : s.out[k].to = "root" /\ s.out[k].type \in {"change", "invoke"}
      /\ host.dynamic => Defining(meta, host.sent, s.out, s.host.sent)
      /\ Len(s.out) > 0
      /\ \A i \in 1..Len(s.out) - 1 : ~Heard(meta, s.out[i])
  BY DEF Uttered, Spoken
<1>2. /\ HostOK(host) /\ PacketsOK(api, meta, down) /\ Connecting(design, host, replica, down)
      /\ DefinedInv(design, meta, host, replica.type, down)
      /\ IsSeq(due) /\ Carries(meta, down, replica.store, due)
      /\ ~host.attached => due = <<>>
  BY DEF Sent
<1>3. IsSeq(s.out) /\ IsSeq(down)
  BY <1>1, <1>2 DEF PacketsOK
<1>4. CASE ~host.attached
  <2>1. Connecting(design, s.host, replica, down)
    BY <1>1, <1>2, <1>4 DEF Connecting
  <2>2. DefinedInv(design, meta, s.host, replica.type, down)
    BY <1>1, <1>4 DEF DefinedInv
  <2>. QED  BY <1>1, <1>2, <1>4, <2>1, <2>2 DEF Sent
<1>5. CASE host.attached
  <2>1. PacketsOK(api, meta, down \o s.out)
    BY <1>1, <1>2, PacketsBoth
  <2>2. Connecting(design, s.host, replica, down \o s.out)
    <3>1. \A k \in 1..Len(s.out) : s.out[k].type # "init"
      BY <1>1
    <3>2. s.host.attached
      BY <1>1, <1>5
    <3>. QED  BY <1>2, <1>3, <1>5, <3>1, <3>2, ConnectingMore
  <2>3. DefinedInv(design, meta, s.host, replica.type, down \o s.out)
    <3>. SUFFICES ASSUME design.acq = "dynamic"
                  PROVE  s.host.dynamic
                         /\ Defining(meta, replica.type # "unknown", down \o s.out, s.host.sent)
      BY DEF DefinedInv
    <3>1. host.dynamic /\ Defining(meta, replica.type # "unknown", down, host.sent)
      BY <1>2, <1>5 DEF DefinedInv
    <3>. QED  BY <1>1, <1>3, <3>1, DefiningBoth
  <2>4. Heard(meta, s.out[Len(s.out)])
        /\ Tells(meta, down \o s.out, replica.store, Len(down \o s.out), Spelled(m, args))
    <3>1. PICK k \in DOMAIN api.signals :
            api.signals[k] = m /\ IsLast(meta, k) /\ Notification(m, vals, args, k, s.out)
      BY DEF Uttered
    <3>2. Heard(meta, s.out[Len(s.out)])
      BY <3>1 DEF Heard, Notification
    <3>. QED  BY <1>1, <1>3, <3>1, <3>2, Said
  <2>5. Carries(meta, down \o s.out, replica.store, Append(due, Spelled(m, args)))
    BY <1>1, <1>2, <1>3, <2>4, CarriesMore
  <2>6. IsSeq(Append(due, Spelled(m, args)))
    BY <1>2, AppendSeq
  <2>. QED  BY <1>1, <1>5, <2>1, <2>2, <2>3, <2>5, <2>6 DEF Sent
<1>. QED  BY <1>4, <1>5

LEMMA Emitting ==
  ASSUME Agree(design, object, api, meta), KidsOK(kid), Sent(host, down, due),
         NEW m \in DOMAIN object.methods, object.methods[m].sort = "signal",
         ~object.methods[m].cloned, m > MethodOffset(design),
         NEW vals, ValuesOK(object, vals), NEW args, Speaks(m, vals, args),
         Emits(m, vals, args)
  PROVE  Sent(host', down', due')
<1>1. CASE design.acq = "inprocess"
  <2>1. UNCHANGED <<host, down, due>>
    BY <1>1 DEF Emits
  <2>. QED  BY <2>1
<1>2. CASE design.acq # "inprocess"
  <2>. DEFINE s == EmissionOf([host |-> host, out |-> <<>>], Connected(m), vals, args)
  <2>1. /\ host' = IF design.crowd \/ host.attached THEN s.host ELSE host
        /\ IF host.attached THEN down' = down \o s.out /\ due' = Append(due, Spelled(m, args))
           ELSE UNCHANGED <<down, due>>
    BY <1>2 DEF Emits, EmissionOf, Spelled
  <2>2. Uttered(host, m, vals, args, s)
    <3>1. ArgsOK(m, args) /\ HostOK(host)
      BY DEF Speaks, Sent
    <3>. QED  BY <3>1, EmissionIs
  <2>. HIDE DEF s
  <2>3. IF host.attached THEN Sent(s.host, down \o s.out, Append(due, Spelled(m, args)))
        ELSE Sent(s.host, down, due)
    BY <2>2, EmissionSent
  <2>. QED  BY <2>1, <2>3
<1>. QED  BY <1>1, <1>2

LEMMA Setting ==
  ASSUME Agree(design, object, api, meta), KidsOK(kid), ValuesOK(object, value),
         Sent(host, down, due), NEW i \in DOMAIN object.props,
         NEW v \in IF object.props[i].sort = "class" THEN Pointers ELSE Values, SetTo(i, v)
  PROVE  ValuesOK(object, value') /\ Sent(host', down', due')
<1>. DEFINE property == object.props[i]
            m == IndexOf(object.methods, property.notify)
            args == IF object.methods[m].arity = 0 THEN <<>> ELSE <<v>>
<1>1. value' = [value EXCEPT ![i] = v]
  BY DEF SetTo
<1>2. ValuesOK(object, value') /\ value'[i] = v
  BY <1>1 DEF ValuesOK
<1>3. \/ UNCHANGED <<host, down, due>>
      \/ m # 0 /\ Emits(m, value', args)
  BY DEF SetTo
<1>4. CASE UNCHANGED <<host, down, due>>
  BY <1>2, <1>4
<1>5. CASE m # 0 /\ Emits(m, value', args)
  <2>1. PlainClass(object) /\ NotifiersAreOwn(MethodOffset(design), object)
    BY DEF Agree
  <2>2. DOMAIN object.methods = 1..Len(object.methods) /\ Len(object.methods) \in Nat
    BY <2>1, PlainIs
  <2>3. m \in DOMAIN object.methods /\ object.methods[m].name = property.notify
    <3>1. /\ m \in 0..Len(object.methods)
          /\ m # 0 => object.methods[m].name = property.notify
      BY <2>2, IndexOfNone
    <3>. QED  BY <1>5, <2>2, <3>1
  <2>. HIDE DEF m
  <2>4. /\ object.methods[m].sort = "signal" /\ ~object.methods[m].cloned
        /\ object.methods[m].arity \in {0, 1}
        /\ object.methods[m].pointer <=> object.methods[m].arity = 1 /\ property.sort = "class"
    BY <2>1, <2>3, NotifierIs
  <2>5. m > MethodOffset(design)
    BY <2>1, <2>3 DEF NotifiersAreOwn
  <2>6. v \in Arguments \cup Pointers /\ (property.sort # "class" => v \in Arguments)
    BY DEF Arguments
  <2>7. Speaks(m, value', args)
    <3>1. CASE object.methods[m].arity = 0
      <4>1. args = <<>> /\ ~object.methods[m].pointer
        BY <2>4, <3>1
      <4>2. <<>> \in Seq(Arguments) /\ <<>> \in Seq(Arguments \cup Pointers) /\ Len(<<>>) = 0
        OBVIOUS
      <4>. HIDE DEF args
      <4>. QED  BY <3>1, <4>1, <4>2 DEF Speaks, ArgsOK
    <3>2. CASE object.methods[m].arity = 1
      <4>1. args = <<v>>
        BY <3>2
      <4>2. /\ <<v>> \in Seq(Arguments \cup Pointers) /\ Len(<<v>>) = 1
            /\ property.sort # "class" => <<v>> \in Seq(Arguments)
        BY <2>6
      <4>. HIDE DEF args
      <4>3. ArgsOK(m, args)
        BY <2>4, <3>2, <4>1, <4>2 DEF ArgsOK
      <4>4. object.methods[m].pointer => property.sort = "class" /\ args = <<value'[i]>>
        BY <1>2, <2>4, <4>1
      <4>. QED  BY <4>3, <4>4 DEF Speaks
    <3>. QED  BY <2>4, <3>1, <3>2
  <2>. HIDE DEF args
  <2>8. Emits(m, value', args)
    BY <1>5 DEF args, m
  <2>9. Sent(host', down', due')
    BY <1>2, <2>3, <2>4, <2>5, <2>7, <2>8, Emitting
  <2>. QED  BY <1>2, <2>9
<1>. QED  BY <1>3, <1>4, <1>5

(* A request is taken for what it was made for. *)
LEMMA Performing ==
  ASSUME Agree(design, object, api, meta), KidsOK(kid), ValuesOK(object, value),
         Sent(host, down, due), NEW p, NEW e, Meets(object, api, p, e), Perform(p, e)
  PROVE  ValuesOK(object, value') /\ Sent(host', down', due') /\ wrong' = wrong
<1>. DEFINE table == IF p.type = "invoke" THEN api.methods ELSE api.properties
            index == IF p.index \in DOMAIN table THEN table[p.index] ELSE 0
            members == IF p.type = "invoke" THEN object.methods ELSE object.props
            name == NameIn(members, index)
            target == IF p.type = "write" THEN index
                      ELSE IF name[1] = "push"
                      THEN IndexOf(object.props, <<"property", name[2]>>) ELSE 0
            sets == target # 0 /\ object.props[target].write
<1>1. /\ IF sets THEN SetTo(target, p.args[1]) ELSE UNCHANGED <<value, host, down, due, seen>>
      /\ wrong' = IF [name |-> name, args |-> p.args] = e THEN wrong
                  ELSE wrong \cup {[expected |-> e, got |-> [name |-> name, args |-> p.args]]}
  BY DEF Perform
<1>2. PICK v \in Values : p.args = <<v>>
  BY DEF Meets
<1>3. e = [name |-> Member(object, api, p), args |-> p.args]
  BY DEF Meets
<1>4. PlainClass(object)
  BY DEF Agree
<1>5. /\ DOMAIN object.props = 1..Len(object.props) /\ Len(object.props) \in Nat
  BY <1>4, PlainIs
<1>6. CASE p.type = "invoke" /\ p.index \in DOMAIN api.methods
  <2>1. index = api.methods[p.index] /\ members = object.methods
    BY <1>6
  <2>2. name = Member(object, api, p)
    BY <1>6 DEF Member
  <2>. HIDE DEF index, members
  <2>3. sets => target \in DOMAIN object.props /\ object.props[target].sort = "value"
    <3>. SUFFICES ASSUME sets
                  PROVE  target \in DOMAIN object.props /\ object.props[target].sort = "value"
      OBVIOUS
    <3>3. name # None => index \in DOMAIN object.methods /\ name = object.methods[index].name
      BY <2>1 DEF NameIn
    <3>. HIDE DEF name
    <3>1. name[1] = "push" /\ target = IndexOf(object.props, <<"property", name[2]>>) /\ target # 0
      BY <1>6
    <3>2. name # None
      <4>1. None[1] # "push"
        BY DEF None
      <4>. QED  BY <3>1, <4>1
    <3>. HIDE DEF target
    <3>4. target \in DOMAIN object.props
          /\ object.props[target].name = <<"property", object.methods[index].name[2]>>
      <4>1. /\ target \in 0..Len(object.props)
            /\ target # 0 => object.props[target].name = <<"property", name[2]>>
        BY <1>5, <3>1, IndexOfNone
      <4>. QED  BY <1>5, <3>1, <3>2, <3>3, <4>1
    <3>5. object.methods[index].name[1] = "push" =>
            \A i \in DOMAIN object.props :
              object.props[i].name = <<"property", object.methods[index].name[2]>> =>
                object.props[i].sort = "value"
      BY <1>4, <3>2, <3>3 DEF PlainClass
    <3>. QED  BY <3>1, <3>2, <3>3, <3>4, <3>5
  <2>. HIDE DEF target, name
  <2>4. wrong' = wrong
    BY <1>1, <1>3, <2>2
  <2>5. CASE sets
    <3>1. target \in DOMAIN object.props /\ object.props[target].sort # "class"
          /\ SetTo(target, v)
      BY <1>1, <1>2, <2>3, <2>5
    <3>. QED  BY <2>4, <3>1, Setting
  <2>6. CASE ~sets
    BY <1>1, <2>4, <2>6
  <2>. QED  BY <2>5, <2>6
<1>7. CASE /\ p.type = "write" /\ p.index \in DOMAIN api.properties
           /\ api.properties[p.index] \in DOMAIN object.props
           /\ object.props[api.properties[p.index]].sort = "value"
  <2>1. index = api.properties[p.index] /\ target = index
    BY <1>7
  <2>2. name = Member(object, api, p)
    BY <1>7 DEF Member
  <2>. HIDE DEF target, name, index
  <2>4. wrong' = wrong
    BY <1>1, <1>3, <2>2
  <2>5. CASE sets
    <3>1. target \in DOMAIN object.props /\ object.props[target].sort # "class"
          /\ SetTo(target, v)
      BY <1>1, <1>2, <1>7, <2>1, <2>5
    <3>. QED  BY <2>4, <3>1, Setting
  <2>6. CASE ~sets
    BY <1>1, <2>4, <2>6
  <2>. QED  BY <2>5, <2>6
<1>. QED  BY <1>6, <1>7 DEF Meets

-----------------------------------------------------------------------------
(* Steps of the programs *)

IInv == TypeInv /\ ConveyInv

LEMMA ClassIn ==
  ASSUME NEW s, NEW n \in Nat, DOMAIN s = 1..n
  PROVE  LET i == SelectInSeq(s, LAMBDA p : p.sort = "class") IN
         /\ i \in 0..n
         /\ i # 0 => s[i].sort = "class"
         /\ i = 0 => \A j \in 1..n : s[j].sort # "class"
<1>. DEFINE I == {i \in 1..Len(s) : s[i].sort = "class"}
            m == SelectInSeq(s, LAMBDA p : p.sort = "class")
<1>1. Len(s) = n
  OBVIOUS
<1>2. m = IF I # {} THEN Min(I) ELSE 0
  BY DEF SelectInSeq
<1>3. I # {} => Min(I) \in I /\ \A i \in I : Min(I) <= i
  <2>1. I \in SUBSET Nat
    OBVIOUS
  <2>2. I # {} => \E k \in I : \A j \in I : k <= j
    BY <2>1, Smallest
  <2>. QED  BY <2>2 DEF Min
<1>4. \A i : i \in I <=> i \in 1..n /\ s[i].sort = "class"
  BY <1>1
<1>. HIDE DEF I, m
<1>5. /\ m \in 0..n
      /\ m # 0 => s[m].sort = "class"
      /\ m = 0 => \A j \in 1..n : s[j].sort # "class"
  BY <1>2, <1>3, <1>4
<1>. QED  BY <1>5 DEF m

LEMMA PointerIndexIs ==
  ASSUME PlainClass(object)
  PROVE  /\ PointerIndex \in {0} \cup DOMAIN object.props
         /\ \A i \in DOMAIN object.props : i = PointerIndex <=> object.props[i].sort = "class"
<1>1. DOMAIN object.props = 1..Len(object.props) /\ Len(object.props) \in Nat
  BY PlainIs
<1>2. /\ PointerIndex \in 0..Len(object.props)
      /\ PointerIndex # 0 => object.props[PointerIndex].sort = "class"
      /\ PointerIndex = 0 => \A j \in 1..Len(object.props) : object.props[j].sort # "class"
  BY <1>1, ClassIn DEF PointerIndex
<1>. HIDE DEF PointerIndex
<1>. QED  BY <1>1, <1>2, OneClass

(* What has gone wrong, and what has been asked. *)
Excused == \A w \in wrong : LeftOver(w) \/ Misnamed(w)
Asked(u, w) == RequestsMeet(object, api, u, w) /\ (design.acq = "inprocess" => u = <<>>)

LEMMA Stays ==
  ASSUME IInv, UNCHANGED <<design, object, api, meta, replica>>,
         ValuesOK(object, value'), KidsOK(kid'), Sent(host', down', due'),
         events' \in 0..MaxEvents, Excused', Asked(up', wanted')
  PROVE  IInv'
<1>1. TypeInv'
  BY DEF IInv, TypeInv, Sent
<1>2. ConveyInv'
  BY DEF IInv, ConveyInv, Sent, Excused, Asked
<1>. QED  BY <1>1, <1>2 DEF IInv

LEMMA Holds ==
  ASSUME IInv
  PROVE  /\ design \in Designs /\ Agree(design, object, api, meta) /\ PlainClass(object)
         /\ ValuesOK(object, value) /\ KidsOK(kid) /\ HostOK(host)
         /\ ReplicaOK(design, meta, replica)
         /\ Sent(host, down, due) /\ Excused /\ Asked(up, wanted)
         /\ events \in 0..MaxEvents
BY DEF IInv, TypeInv, ConveyInv, Sent, Excused, Asked, Agree

LEMMA Happened == ASSUME IInv, Happens  PROVE events' \in 0..MaxEvents
BY DesignsAreClasses DEF Happens, IInv, TypeInv

LEMMA PropertyIsSet ==
  ASSUME IInv, NEW i \in DOMAIN object.props, NEW v, SetProperty(i, v)  PROVE IInv'
<1>1. /\ Agree(design, object, api, meta) /\ PlainClass(object)
      /\ ValuesOK(object, value) /\ KidsOK(kid) /\ Sent(host, down, due) /\ Excused
      /\ Asked(up, wanted)
  BY Holds
<1>2. /\ Happens /\ SetTo(i, v)
      /\ v \in IF i = PointerIndex THEN Pointers ELSE Values
      /\ UNCHANGED <<design, object, kid, api, up, meta, replica, seenKid, wanted, wrong>>
  BY DEF SetProperty
<1>3. v \in IF object.props[i].sort = "class" THEN Pointers ELSE Values
  BY <1>1, <1>2, PointerIndexIs
<1>4. ValuesOK(object, value') /\ Sent(host', down', due')
  BY <1>1, <1>2, <1>3, Setting
<1>5. events' \in 0..MaxEvents
  BY <1>2, Happened
<1>6. KidsOK(kid') /\ Excused' /\ Asked(up', wanted')
  BY <1>1, <1>2 DEF Excused, Misnamed, LeftOver
<1>. QED  BY <1>2, <1>4, <1>5, <1>6, Stays

LEMMA SignalIsEmitted ==
  ASSUME IInv, NEW m \in DOMAIN object.methods, EmitSignal(m)  PROVE IInv'
<1>. DEFINE args == [i \in 1..object.methods[m].arity |-> "argument"]
<1>1. /\ Agree(design, object, api, meta) /\ PlainClass(object)
      /\ ValuesOK(object, value) /\ KidsOK(kid) /\ Sent(host, down, due) /\ Excused
      /\ Asked(up, wanted)
  BY Holds
<1>2. /\ Happens /\ object.methods[m].sort = "signal" /\ ~object.methods[m].cloned
      /\ ~Notifies(m) /\ m > MethodOffset(design) /\ Emits(m, value, args)
      /\ UNCHANGED <<design, object, value, kid, api, up, meta, replica, seenKid, wanted, wrong>>
  BY DEF EmitSignal
<1>3. ~object.methods[m].pointer
  BY <1>1, <1>2, PointerIs DEF Notifies
<1>4. object.methods[m].arity \in Nat
  <2>1. IsMethod(object.methods[m])
    BY <1>1, PlainIs
  <2>. QED  BY <2>1 DEF IsMethod
<1>5. args \in Seq(Arguments) /\ args \in Seq(Arguments \cup Pointers)
      /\ Len(args) = object.methods[m].arity
  BY <1>4 DEF Arguments
<1>. HIDE DEF args
<1>6. Speaks(m, value, args)
  BY <1>3, <1>5 DEF Speaks, ArgsOK
<1>7. Sent(host', down', due')
  BY <1>1, <1>2, <1>6, Emitting
<1>8. events' \in 0..MaxEvents
  BY <1>2, Happened
<1>9. ValuesOK(object, value') /\ KidsOK(kid') /\ Excused' /\ Asked(up', wanted')
  BY <1>1, <1>2 DEF Excused, Misnamed, LeftOver
<1>. QED  BY <1>2, <1>7, <1>8, <1>9, Stays

LEMMA Asking ==
  ASSUME IInv, Happens, NEW p, NEW e, Meets(object, api, p, e), Asks(p, e),
         UNCHANGED <<design, object, kid, api, meta, replica>>
  PROVE  IInv'
<1>1. /\ Agree(design, object, api, meta)
      /\ ValuesOK(object, value) /\ KidsOK(kid) /\ Sent(host, down, due) /\ Excused
      /\ Asked(up, wanted)
  BY Holds
<1>2. events' \in 0..MaxEvents /\ KidsOK(kid')
  BY <1>1, Happened
<1>3. CASE design.acq = "inprocess"
  <2>1. Perform(p, e) /\ UNCHANGED <<up, wanted>>
    BY <1>3 DEF Asks, AsksInProcess
  <2>2. ValuesOK(object, value') /\ Sent(host', down', due') /\ wrong' = wrong
    BY <1>1, <2>1, Performing
  <2>3. Excused' /\ Asked(up', wanted')
    BY <1>1, <2>1, <2>2 DEF Excused, Misnamed, LeftOver
  <2>. QED  BY <1>2, <2>2, <2>3, Stays
<1>4. CASE design.acq # "inprocess"
  <2>1. /\ up' = Append(up, p) /\ wanted' = Append(wanted, e)
        /\ UNCHANGED <<value, host, down, due, seen, wrong>>
    BY <1>4 DEF Asks
  <2>2. RequestsMeet(object, api, up', wanted')
    <3>1. /\ IsSeq(up) /\ IsSeq(wanted) /\ Len(up) = Len(wanted) /\ Len(up) \in Nat
          /\ \A i \in 1..Len(up) : Meets(object, api, up[i], wanted[i])
      BY <1>1, IsSeqElements DEF Asked, RequestsMeet
    <3>2. /\ IsSeq(up') /\ Len(up') = Len(up) + 1 /\ up'[Len(up) + 1] = p
          /\ \A i \in 1..Len(up) : up'[i] = up[i]
      BY <2>1, <3>1, AppendSeq
    <3>3. /\ IsSeq(wanted') /\ Len(wanted') = Len(wanted) + 1 /\ wanted'[Len(wanted) + 1] = e
          /\ \A i \in 1..Len(wanted) : wanted'[i] = wanted[i]
      BY <2>1, <3>1, AppendSeq
    <3>4. ASSUME NEW i \in 1..Len(up')  PROVE Meets(object, api, up'[i], wanted'[i])
      <4>1. CASE i \in 1..Len(up)
        BY <3>1, <3>2, <3>3, <4>1
      <4>2. CASE i = Len(up) + 1
        BY <3>1, <3>2, <3>3, <4>2
      <4>. QED  BY <3>1, <3>2, <4>1, <4>2
    <3>. QED  BY <3>1, <3>2, <3>3, <3>4 DEF RequestsMeet
  <2>3. Excused' /\ Asked(up', wanted')
    BY <1>1, <1>4, <2>1, <2>2 DEF Excused, Misnamed, LeftOver, Asked
  <2>4. ValuesOK(object, value') /\ Sent(host', down', due')
    BY <1>1, <2>1
  <2>. QED  BY <1>2, <2>3, <2>4, Stays
<1>. QED  BY <1>3, <1>4

LEMMA CallIsMade ==
  ASSUME IInv, NEW m \in DOMAIN object.methods, NEW v \in Values, Call(m, v)  PROVE IInv'
<1>. DEFINE expected == [name |-> object.methods[m].name, args |-> <<v>>]
            index == IndexOf(meta.methods, expected.name)
            p == [type |-> "invoke", index |-> index - NumSignals, args |-> <<v>>]
<1>1. /\ Agree(design, object, api, meta)
      /\ ValuesOK(object, value) /\ KidsOK(kid) /\ Sent(host, down, due) /\ Excused
      /\ Asked(up, wanted)
  BY Holds
<1>2. /\ Happens /\ object.methods[m].sort = "slot" /\ m > MethodOffset(design)
      /\ IF index > NumSignals THEN Asks(p, expected)
         ELSE /\ wrong' = wrong \cup {[expected |-> expected, got |-> Nothing]}
              /\ UNCHANGED <<value, host, up, down, seen, due, wanted>>
      /\ UNCHANGED <<design, object, kid, api, meta, replica, seenKid>>
  BY DEF Call
<1>3. expected.name = object.methods[m].name
  OBVIOUS
<1>4. IF index > NumSignals
      THEN index - NumSignals \in DOMAIN api.methods /\ api.methods[index - NumSignals] = m
      ELSE design.acq = "dynamic" /\ object.methods[m].name[1] = "push"
  BY <1>1, <1>2, Zenon DEF Agree, MethodsAgree, NumSignals, Signals
<1>. HIDE DEF index
<1>5. CASE index > NumSignals
  <2>1. Meets(object, api, p, expected)
    <3>1. p.type = "invoke" /\ p.index \in DOMAIN api.methods /\ p.args = <<v>>
      BY <1>4, <1>5
    <3>2. Member(object, api, p) = object.methods[m].name
      BY <1>4, <1>5, <3>1 DEF Member, NameIn
    <3>. QED  BY <3>1, <3>2 DEF Meets
  <2>. HIDE DEF p, expected
  <2>. QED  BY <1>2, <1>5, <2>1, Asking
<1>6. CASE ~(index > NumSignals)
  <2>1. design.acq = "dynamic" /\ object.methods[m].name[1] = "push"
    BY <1>4, <1>6
  <2>2. /\ wrong' = wrong \cup {[expected |-> expected, got |-> Nothing]}
        /\ UNCHANGED <<value, host, up, down, seen, due, wanted>>
    BY <1>2, <1>6
  <2>3. ASSUME NEW w \in wrong'  PROVE (LeftOver(w) \/ Misnamed(w))'
    <3>1. design' = design
      BY <1>2
    <3>2. CASE w \in wrong
      BY <1>1, <3>1, <3>2 DEF Excused, Misnamed, LeftOver
    <3>3. CASE w = [expected |-> expected, got |-> Nothing]
      <4>1. w.expected.name = object.methods[m].name /\ w.got = Nothing
        BY <3>3
      <4>. QED  BY <2>1, <3>1, <4>1 DEF Misnamed
    <3>. QED  BY <2>2, <3>2, <3>3
  <2>4. Excused'
    BY <2>3 DEF Excused
  <2>5. events' \in 0..MaxEvents
    BY <1>2, Happened
  <2>6. ValuesOK(object, value') /\ KidsOK(kid') /\ Sent(host', down', due') /\ Asked(up', wanted')
    BY <1>1, <1>2, <2>2
  <2>. QED  BY <1>2, <2>4, <2>5, <2>6, Stays
<1>. QED  BY <1>5, <1>6

LEMMA PropertyIsWritten ==
  ASSUME IInv, NEW j \in DOMAIN meta.props, NEW v \in Values, Write(j, v)  PROVE IInv'
<1>. DEFINE p == [type |-> "write", index |-> j, args |-> <<v>>]
            expected == [name |-> meta.props[j].name, args |-> <<v>>]
<1>1. Agree(design, object, api, meta)
  BY Holds
<1>2. /\ Happens /\ meta.props[j].sort = "value" /\ Asks(p, expected)
      /\ UNCHANGED <<design, object, kid, api, meta, replica, seenKid>>
  BY DEF Write
<1>3. /\ j \in DOMAIN api.properties /\ api.properties[j] \in DOMAIN object.props
      /\ meta.props[j].name = object.props[api.properties[j]].name
      /\ meta.props[j].sort = object.props[api.properties[j]].sort
  BY <1>1 DEF Agree, PropertiesAgree
<1>4. Meets(object, api, p, expected)
  <2>1. p.type = "write" /\ p.index = j /\ p.args = <<v>>
    OBVIOUS
  <2>2. Member(object, api, p) = meta.props[j].name
    BY <1>3, <2>1 DEF Member, NameIn
  <2>. QED  BY <1>2, <1>3, <2>1, <2>2 DEF Meets
<1>. HIDE DEF p, expected
<1>. QED  BY <1>2, <1>4, Asking

LEMMA RequestIsRead == ASSUME IInv, HostReads  PROVE IInv'
<1>1. /\ Agree(design, object, api, meta)
      /\ ValuesOK(object, value) /\ KidsOK(kid) /\ Sent(host, down, due) /\ Excused
      /\ Asked(up, wanted) /\ events \in 0..MaxEvents
  BY Holds
<1>2. /\ up # <<>> /\ up' = Tail(up) /\ wanted' = Tail(wanted)
      /\ Perform(Head(up), Head(wanted))
      /\ UNCHANGED <<design, object, kid, api, meta, replica, seenKid, events>>
  BY DEF HostReads
<1>3. /\ IsSeq(up) /\ IsSeq(wanted) /\ Len(up) = Len(wanted)
      /\ \A i \in 1..Len(up) : Meets(object, api, up[i], wanted[i])
  BY <1>1 DEF Asked, RequestsMeet
<1>4. /\ IsSeq(up') /\ Len(up) \in Nat \ {0} /\ Len(up') = Len(up) - 1
      /\ Head(up) = up[1] /\ \A i \in 1..Len(up) - 1 : up'[i] = up[i + 1]
  BY <1>2, <1>3, TailSeq
<1>5. wanted # <<>>
  BY <1>3, <1>4, NoSeq
<1>6. /\ IsSeq(wanted') /\ Len(wanted') = Len(wanted) - 1
      /\ Head(wanted) = wanted[1] /\ \A i \in 1..Len(wanted) - 1 : wanted'[i] = wanted[i + 1]
  BY <1>2, <1>3, <1>5, TailSeq
<1>7. Meets(object, api, Head(up), Head(wanted))
  BY <1>3, <1>4, <1>6
<1>8. ValuesOK(object, value') /\ Sent(host', down', due') /\ wrong' = wrong
  BY <1>1, <1>2, <1>7, Performing
<1>9. ASSUME NEW i \in 1..Len(up')  PROVE Meets(object, api, up'[i], wanted'[i])
  <2>1. i \in 1..Len(up) - 1 /\ i + 1 \in 1..Len(up)
    BY <1>4
  <2>. QED  BY <1>3, <1>4, <1>6, <2>1
<1>10. RequestsMeet(object, api, up', wanted')
  BY <1>3, <1>4, <1>6, <1>9 DEF RequestsMeet
<1>11. Asked(up', wanted')
  BY <1>1, <1>2, <1>10 DEF Asked
<1>12. KidsOK(kid') /\ Excused' /\ events' \in 0..MaxEvents
  BY <1>1, <1>2, <1>8 DEF Excused, Misnamed, LeftOver
<1>. QED  BY <1>2, <1>8, <1>11, <1>12, Stays

LEMMA KidIsSet ==
  ASSUME IInv, NEW o \in {"t", "u"}, NEW v \in Values, NEW i \in DOMAIN kid[o], SetKid(o, i, v)
  PROVE  IInv'
<1>. DEFINE change == [type |-> "change", to |-> "child", value |-> v]
            invoke == [type |-> "invoke", to |-> "child"]
            out == <<change, invoke>>
<1>1. /\ Agree(design, object, api, meta)
      /\ ValuesOK(object, value) /\ KidsOK(kid) /\ Sent(host, down, due) /\ Excused
      /\ Asked(up, wanted)
  BY Holds
<1>2. /\ Happens /\ kid' = [kid EXCEPT ![o][i] = v]
      /\ \/ down' = down
         \/ host.attached /\ down' = down \o out
      /\ UNCHANGED <<design, object, value, api, host, up, meta, replica, seen, seenKid, due,
                     wanted, wrong>>
  BY DEF SetKid
<1>3. KidsOK(kid')
  <2>1. kid[o] \in Seq(Values) /\ Len(kid[o]) \in Nat /\ DOMAIN kid[o] = 1..Len(kid[o])
    BY <1>1, LenProperties DEF KidsOK
  <2>2. [kid[o] EXCEPT ![i] = v] \in Seq(Values) /\ Len([kid[o] EXCEPT ![i] = v]) = Len(kid[o])
    BY <2>1
  <2>3. kid' = [kid EXCEPT ![o] = [kid[o] EXCEPT ![i] = v]]
    BY <1>1, <1>2 DEF KidsOK
  <2>. QED  BY <1>1, <2>2, <2>3 DEF KidsOK
<1>4. ASSUME down' = down  PROVE Sent(host', down', due')
  BY <1>1, <1>2, <1>4
<1>5. ASSUME host.attached, down' = down \o out  PROVE Sent(host', down', due')
  <2>1. IsSeq(out) /\ Len(out) = 2
    <3>1. out \in Seq({change, invoke}) /\ Len(out) = 2
      OBVIOUS
    <3>. HIDE DEF out
    <3>. QED  BY <3>1, SeqIs
  <2>2. \A k \in 1..2 : out[k].to = "child" /\ out[k].type \in {"change", "invoke"}
    OBVIOUS
  <2>. HIDE DEF out
  <2>3. /\ HostOK(host) /\ PacketsOK(api, meta, down) /\ Connecting(design, host, replica, down)
        /\ DefinedInv(design, meta, host, replica.type, down)
        /\ IsSeq(due) /\ Carries(meta, down, replica.store, due)
    BY <1>1 DEF Sent
  <2>4. IsSeq(down)
    BY <2>3 DEF PacketsOK
  <2>5. PacketsOK(api, meta, down \o out)
    <3>1. PacketsOK(api, meta, out)
      BY <2>1, <2>2 DEF PacketsOK, PacketOK
    <3>. QED  BY <2>3, <3>1, PacketsBoth
  <2>6. Connecting(design, host, replica, down \o out)
    BY <1>5, <2>1, <2>2, <2>3, <2>4, ConnectingMore
  <2>7. DefinedInv(design, meta, host, replica.type, down \o out)
    <3>1. Defining(meta, host.sent, out, host.sent)
      BY <2>1, <2>2 DEF Defining, Needs, Brings, Known
    <3>. QED  BY <2>1, <2>3, <2>4, <3>1, DefiningBoth DEF DefinedInv
  <2>8. Carries(meta, down \o out, replica.store, due)
    <3>1. \A k \in 1..2 : ~Heard(meta, out[k])
      BY <2>2 DEF Heard
    <3>2. Len(out) > 0 /\ ~Heard(meta, out[Len(out)])
          /\ \A k \in 1..Len(out) - 1 : ~Heard(meta, out[k])
      BY <2>1, <3>1
    <3>. QED  BY <2>1, <2>3, <2>4, <3>2, CarriesMore
  <2>. QED  BY <1>2, <1>5, <2>3, <2>5, <2>6, <2>7, <2>8 DEF Sent
<1>6. Sent(host', down', due')
  BY <1>2, <1>4, <1>5
<1>7. events' \in 0..MaxEvents
  BY <1>2, Happened
<1>8. ValuesOK(object, value') /\ Excused' /\ Asked(up', wanted')
  BY <1>1, <1>2 DEF Excused, Misnamed, LeftOver
<1>. QED  BY <1>2, <1>3, <1>6, <1>7, <1>8, Stays

-----------------------------------------------------------------------------
(* The values are sent once, when a replica is acquired. *)

PackingOf(base, seq) ==
  LET add(s, i) == LET p == SerializeProperty(s.host, i, value)
                   IN [host |-> p.host, values |-> Append(s.values, p.value)]
  IN  FoldLeft(add, base, seq)

LEMMA PackingFolds ==
  ASSUME NEW base, NEW seq, NEW n \in Nat, DOMAIN seq = 1..n
  PROVE  \E g : Folds("packing", g, base, seq, 0, n) /\ PackingOf(base, seq) = g[1..n]
<1>. DEFINE add(s, i) == LET p == SerializeProperty(s.host, i, value)
                         IN [host |-> p.host, values |-> Append(s.values, p.value)]
            Of(g, s) == IF s = {} THEN base ELSE add(g[s \ {Max(s)}], seq[Max(s)])
            iter == CHOOSE g : g = [s \in SUBSET DOMAIN seq |-> Of(g, s)]
<1>1. PackingOf(base, seq) = iter[DOMAIN seq]
  BY DEF PackingOf, FoldLeft, MapThenFoldSet
<1>2. ASSUME NEW g, NEW s
      PROVE  Of(g, s) = Turned("packing", g, base, seq, 0, s)
  BY DEF Turned, Turn, Added
<1>. HIDE DEF Of, add
<1>3. PICK g : Folds("packing", g, base, seq, 0, n)
  BY FoldExists
<1>4. g = [s \in SUBSET DOMAIN seq |-> Of(g, s)]
  BY <1>2, <1>3 DEF Folds
<1>5. iter = [s \in SUBSET DOMAIN seq |-> Of(iter, s)]
  BY <1>4
<1>. HIDE DEF iter
<1>6. Folds("packing", iter, base, seq, 0, n)
  BY <1>2, <1>5 DEF Folds
<1>. QED  BY <1>1, <1>6

(* After t of the properties. *)
Packed(h, t, s) ==
  /\ HostOK(s.host) /\ s.host.attached = h.attached /\ s.host.dynamic = h.dynamic
  /\ IsSeq(s.values) /\ Len(s.values) = t
  /\ \A i \in 1..t : ValueOK(meta, i, s.values[i])
  /\ s.host.sent => h.sent \/ \E i \in 1..t : IsClass(meta, i) /\ s.values[i].def # NoDefinition
  /\ h.dynamic =>
       \A i \in 1..t :
         IsClass(meta, i) /\ ~s.values[i].null /\ s.values[i].def = NoDefinition => h.sent

LEMMA PackedMore ==
  ASSUME PropertiesAgree(object, api, meta), KidsOK(kid), ValuesOK(object, value),
         NEW h, NEW t \in Nat, t + 1 \in DOMAIN meta.props, NEW s, Packed(h, t, s)
  PROVE  Packed(h, t + 1, Added(s, t + 1))
<1>. DEFINE j == t + 1
            p == SerializeProperty(s.host, j, value)
            e == Added(s, j)
<1>1. e.host = p.host /\ e.values = Append(s.values, p.value)
  BY DEF Added
<1>2. /\ HostOK(s.host) /\ s.host.attached = h.attached /\ s.host.dynamic = h.dynamic
      /\ IsSeq(s.values) /\ Len(s.values) = t
      /\ \A i \in 1..t : ValueOK(meta, i, s.values[i])
      /\ s.host.sent =>
           h.sent \/ \E i \in 1..t : IsClass(meta, i) /\ s.values[i].def # NoDefinition
      /\ h.dynamic =>
           \A i \in 1..t :
             IsClass(meta, i) /\ ~s.values[i].null /\ s.values[i].def = NoDefinition => h.sent
  BY DEF Packed
<1>3. /\ HostOK(p.host) /\ p.host.attached = s.host.attached
      /\ p.host.dynamic = s.host.dynamic
      /\ ValueOK(meta, j, p.value)
      /\ ~IsClass(meta, j) => p.host = s.host
      /\ IsClass(meta, j) /\ s.host.dynamic /\ ~p.value.null /\ p.value.def = NoDefinition
           => s.host.sent
      /\ IsClass(meta, j) /\ p.host.sent => s.host.sent \/ p.value.def # NoDefinition
  BY <1>2, PropertySent
<1>. HIDE DEF p, e
<1>4. /\ IsSeq(e.values) /\ Len(e.values) = t + 1 /\ e.values[t + 1] = p.value
      /\ \A i \in 1..t : e.values[i] = s.values[i]
  BY <1>1, <1>2, AppendSeq
<1>5. \A i \in 1..t + 1 : i \in 1..t \/ i = j
  OBVIOUS
<1>6. \A i \in 1..t : IsClass(meta, j) => ~IsClass(meta, i)
  <2>1. ASSUME NEW i \in 1..t, IsClass(meta, i), IsClass(meta, j)  PROVE FALSE
    <3>1. PICK n \in Nat : DOMAIN meta.props = 1..n
      BY DEF PropertiesAgree
    <3>2. i \in DOMAIN meta.props /\ i # j
      BY <3>1
    <3>. QED  BY <2>1, <3>2 DEF PropertiesAgree, IsClass
  <2>. QED  BY <2>1
<1>7. \A i \in 1..t + 1 : ValueOK(meta, i, e.values[i])
  BY <1>2, <1>3, <1>4, <1>5
<1>. HIDE DEF j
<1>8. e.host.sent =>
        h.sent \/ \E i \in 1..t + 1 : IsClass(meta, i) /\ e.values[i].def # NoDefinition
  <2>. SUFFICES ASSUME p.host.sent, ~h.sent
                PROVE  \E i \in 1..t + 1 : IsClass(meta, i) /\ e.values[i].def # NoDefinition
    BY <1>1
  <2>1. CASE s.host.sent
    <3>1. PICK i \in 1..t : IsClass(meta, i) /\ s.values[i].def # NoDefinition
      BY <1>2, <2>1
    <3>2. i \in 1..t + 1 /\ e.values[i] = s.values[i]
      BY <1>4
    <3>. QED  BY <3>1, <3>2
  <2>2. CASE ~s.host.sent
    <3>1. IsClass(meta, j) /\ p.value.def # NoDefinition
      BY <1>3, <2>2
    <3>2. j \in 1..t + 1 /\ e.values[j] = p.value
      BY <1>4 DEF j
    <3>. QED  BY <3>1, <3>2
  <2>. QED  BY <2>1, <2>2
<1>9. ASSUME h.dynamic, NEW i \in 1..t + 1, IsClass(meta, i), ~e.values[i].null,
             e.values[i].def = NoDefinition
      PROVE  h.sent
  <2>1. CASE i \in 1..t
    BY <1>2, <1>4, <1>9, <2>1
  <2>2. CASE i = j
    <3>1. e.values[i] = p.value
      BY <1>4, <2>2 DEF j
    <3>2. s.host.sent
      BY <1>2, <1>3, <1>9, <2>2, <3>1
    <3>. QED  BY <1>2, <1>6, <1>9, <2>2, <3>2
  <2>. QED  BY <1>5, <2>1, <2>2
<1>. QED  BY <1>1, <1>2, <1>3, <1>4, <1>7, <1>8, <1>9 DEF Packed, e, j

LEMMA AllPacked ==
  ASSUME PropertiesAgree(object, api, meta), KidsOK(kid), ValuesOK(object, value),
         NEW h, HostOK(h), NEW n \in Nat, DOMAIN meta.props = 1..n
  PROVE  Packed(h, n, PackingOf([host |-> h, values |-> <<>>], Indices(api.properties)))
<1>. DEFINE base == [host |-> h, values |-> <<>>]
            seq == Indices(api.properties)
            all == PackingOf(base, seq)
<1>1. DOMAIN api.properties = 1..n
  BY DEF PropertiesAgree
<1>2. DOMAIN seq = 1..n /\ \A i \in 1..n : seq[i] = i
  BY <1>1 DEF Indices
<1>. HIDE DEF seq
<1>3. PICK g : Folds("packing", g, base, seq, 0, n) /\ all = g[1..n]
  BY <1>2, PackingFolds
<1>4. base.host = h /\ base.values = <<>>
  OBVIOUS
<1>. HIDE DEF base, all
<1>5. /\ g[1..0] = base
      /\ \A t \in 0..n - 1 : g[1..t + 1] = Turn("packing", g[1..t], seq[t + 1], 0)
  BY <1>3, FoldStep
<1>6. ASSUME NEW t \in 0..n - 1  PROVE g[1..t + 1] = Added(g[1..t], t + 1)
  <2>1. t + 1 \in 1..n
    OBVIOUS
  <2>. QED  BY <1>2, <1>5, <2>1 DEF Turn
<1>. DEFINE T == {t \in Nat : t <= n => Packed(h, t, g[1..t])}
<1>7. 0 \in T
  <2>1. Packed(h, 0, base)
    BY <1>4, NoSeq DEF Packed
  <2>. QED  BY <1>5, <2>1
<1>8. ASSUME NEW t \in Nat, t \in T  PROVE t + 1 \in T
  <2>. SUFFICES ASSUME t + 1 <= n  PROVE Packed(h, t + 1, g[1..t + 1])
    OBVIOUS
  <2>1. t \in 0..n - 1 /\ t + 1 \in DOMAIN meta.props /\ Packed(h, t, g[1..t])
    BY <1>8
  <2>2. Packed(h, t + 1, Added(g[1..t], t + 1))
    BY <2>1, PackedMore
  <2>. QED  BY <1>6, <2>1, <2>2
<1>. HIDE DEF T
<1>9. n \in T
  BY <1>7, <1>8, SetInduction
<1>10. Packed(h, n, all)
  BY <1>3, <1>9 DEF T
<1>. QED  BY <1>10 DEF all, base, seq

LEMMA ReplicaIsAttached == ASSUME IInv, Attach  PROVE IInv'
<1>. DEFINE h == AddListener(host)
            all == PackingOf([host |-> h, values |-> <<>>], Indices(api.properties))
            init == [type |-> "init", to |-> "root", values |-> all.values]
            out == <<init>>
<1>1. /\ Agree(design, object, api, meta)
      /\ ValuesOK(object, value) /\ KidsOK(kid) /\ HostOK(host) /\ Sent(host, down, due)
      /\ Excused /\ Asked(up, wanted) /\ events \in 0..MaxEvents
  BY Holds
<1>2. /\ design.acq # "inprocess" /\ ~host.attached
      /\ host' = all.host /\ down' = out
      /\ UNCHANGED <<design, object, value, kid, api, up, meta, replica, seen, seenKid, due,
                     wanted, wrong, events>>
  BY DEF Attach, PackingOf
<1>3. /\ HostOK(h) /\ h.attached /\ (design.acq = "dynamic" => h.dynamic /\ ~h.sent)
  BY <1>1 DEF AddListener, HostOK
<1>. HIDE DEF h
<1>4. PICK n \in Nat : DOMAIN meta.props = 1..n
  BY <1>1 DEF Agree, PropertiesAgree
<1>5. Packed(h, n, all)
  BY <1>1, <1>3, <1>4, AllPacked DEF Agree
<1>. HIDE DEF all
<1>6. /\ HostOK(all.host) /\ all.host.attached /\ all.host.dynamic = h.dynamic
      /\ IsSeq(all.values) /\ Len(all.values) = n
      /\ \A i \in 1..n : ValueOK(meta, i, all.values[i])
      /\ all.host.sent =>
           h.sent \/ \E i \in 1..n : IsClass(meta, i) /\ all.values[i].def # NoDefinition
      /\ h.dynamic =>
           \A i \in 1..n :
             IsClass(meta, i) /\ ~all.values[i].null /\ all.values[i].def = NoDefinition => h.sent
  BY <1>3, <1>5 DEF Packed
<1>7. init.type = "init" /\ init.to = "root" /\ init.values = all.values
  OBVIOUS
<1>8. IsSeq(out) /\ Len(out) = 1 /\ out[1] = init /\ out # <<>>
  <2>1. out \in Seq({init}) /\ Len(out) = 1 /\ out[1] = init /\ out # <<>>
    OBVIOUS
  <2>. HIDE DEF out
  <2>. QED  BY <2>1, SeqIs
<1>. HIDE DEF init, out
<1>9. PacketsOK(api, meta, out)
  <2>1. DOMAIN init.values = DOMAIN meta.props
    BY <1>4, <1>6, <1>7, IsSeqElements
  <2>2. PacketOK(api, meta, init)
    BY <1>4, <1>6, <1>7, <2>1 DEF PacketOK
  <2>. QED  BY <1>8, <2>2 DEF PacketsOK
<1>10. ~replica.valid /\ down = <<>> /\ due = <<>>
  BY <1>1, <1>2 DEF Sent, Connecting
<1>11. Connecting(design, all.host, replica, out)
  BY <1>2, <1>6, <1>7, <1>8, <1>10 DEF Connecting
<1>12. DefinedInv(design, meta, all.host, replica.type, out)
  <2>. SUFFICES ASSUME design.acq = "dynamic"
                PROVE  all.host.dynamic
                       /\ Defining(meta, replica.type # "unknown", out, all.host.sent)
    BY DEF DefinedInv
  <2>1. h.dynamic /\ ~h.sent
    BY <1>3
  <2>2. \A i \in 1..n : IsClass(meta, i) =>
          /\ Pointer(meta, init) = all.values[i] /\ Brings(meta, init)
    <3>1. ASSUME NEW i \in 1..n, IsClass(meta, i)
          PROVE  Pointer(meta, init) = all.values[i] /\ Brings(meta, init)
      <4>1. (CHOOSE j \in DOMAIN meta.props : IsClass(meta, j)) = i
        <5>1. \A j \in DOMAIN meta.props : IsClass(meta, j) => j = i
          BY <1>1, <1>4, <3>1 DEF Agree, PropertiesAgree, IsClass
        <5>. QED  BY <1>4, <3>1, <5>1
      <4>. QED  BY <1>4, <1>7, <3>1, <4>1 DEF Pointer, Brings
    <3>. QED  BY <3>1
  <2>3. Brings(meta, init) => \E i \in 1..n : IsClass(meta, i)
    BY <1>4, <1>7 DEF Brings
  <2>4. ~Needs(meta, init)
    BY <1>6, <2>1, <2>2, <2>3 DEF Needs, Defines
  <2>5. all.host.sent => Defines(meta, init)
    BY <1>6, <2>1, <2>2 DEF Defines
  <2>. QED  BY <1>6, <1>8, <2>1, <2>4, <2>5 DEF Defining, Known
<1>13. Carries(meta, out, replica.store, <<>>)
  <2>1. Carries(meta, <<>>, replica.store, <<>>)
    BY <1>1, <1>10 DEF Sent
  <2>2. ~Heard(meta, out[Len(out)]) /\ \A k \in 1..Len(out) - 1 : ~Heard(meta, out[k])
    BY <1>7, <1>8 DEF Heard
  <2>3. <<>> \o out = out
    BY <1>8 DEF IsSeq
  <2>4. IsSeq(<<>>) /\ Len(out) > 0
    BY <1>8, NoSeq
  <2>5. Carries(meta, <<>> \o out, replica.store, <<>>)
    BY <1>8, <2>1, <2>2, <2>4, CarriesMore
  <2>. QED  BY <2>3, <2>5
<1>14. Sent(host', down', due')
  BY <1>2, <1>6, <1>9, <1>10, <1>11, <1>12, <1>13, NoSeq DEF Sent
<1>15. /\ ValuesOK(object, value') /\ KidsOK(kid') /\ Excused' /\ Asked(up', wanted')
       /\ events' \in 0..MaxEvents
  BY <1>1, <1>2 DEF Excused, Misnamed, LeftOver
<1>. QED  BY <1>2, <1>14, <1>15, Stays

LEMMA AcquiredInProcess == ASSUME IInv, AcquireInProcess  PROVE IInv'
<1>1. /\ Agree(design, object, api, meta)
      /\ ValuesOK(object, value) /\ KidsOK(kid) /\ Sent(host, down, due)
      /\ ReplicaOK(design, meta, replica) /\ Excused /\ Asked(up, wanted)
      /\ events \in 0..MaxEvents /\ design \in Designs
  BY Holds
<1>2. /\ design.acq = "inprocess" /\ replica' = [replica EXCEPT !.valid = TRUE]
      /\ UNCHANGED <<design, object, value, kid, api, host, up, down, meta, seenKid, due,
                     wanted, wrong, events>>
  BY DEF AcquireInProcess
<1>3. /\ replica \in [valid : BOOLEAN, type : Definitions \cup {"unknown"},
                      store : {replica.store},
                      child : {NoChild} \cup [name : Definitions, value : {replica.child.value}]]
  BY <1>1 DEF ReplicaOK
<1>4. /\ replica' \in [valid : BOOLEAN, type : Definitions \cup {"unknown"},
                       store : {replica.store},
                       child : {NoChild} \cup [name : Definitions, value : {replica.child.value}]]
      /\ replica'.valid /\ replica'.type = replica.type /\ replica'.store = replica.store
      /\ replica'.child = replica.child
  BY <1>2, <1>3
<1>5. ReplicaOK(design, meta, replica')
  BY <1>1, <1>2, <1>4 DEF ReplicaOK
<1>6. ~host.attached /\ down = <<>> /\ due = <<>>
  BY <1>1, <1>2 DEF Sent, Connecting
<1>7. Connecting(design, host, replica', down)
  BY <1>2, <1>6, NoSeq DEF Connecting
<1>8. DefinedInv(design, meta, host, replica'.type, down)
  BY <1>6 DEF DefinedInv
<1>9. TypeInv'
  BY <1>1, <1>2, <1>5, <1>7, <1>8 DEF TypeInv, Sent
<1>10. ConveyInv'
  BY <1>1, <1>2, <1>4 DEF ConveyInv, Sent, Asked, Excused, Misnamed, LeftOver
<1>. QED  BY <1>9, <1>10 DEF IInv

-----------------------------------------------------------------------------
(* What the replica reads is taken from what is on its way. *)

LEMMA DefiningTail ==
  ASSUME NEW mt, NEW known \in BOOLEAN, NEW q, IsSeq(q), q # <<>>, NEW sent,
         Defining(mt, known, q, sent), NEW after, known \/ Defines(mt, q[1]) => after
  PROVE  Defining(mt, after, Tail(q), sent)
<1>. DEFINE r == Tail(q)
<1>1. /\ Len(q) \in Nat \ {0} /\ Len(r) = Len(q) - 1
      /\ \A i \in 1..Len(q) - 1 : r[i] = q[i + 1]
  BY TailSeq
<1>. HIDE DEF r
<1>2. ASSUME NEW k \in 1..Len(q), Known(mt, known, q, k)  PROVE Known(mt, after, r, k - 1)
  <2>1. CASE after
    BY <2>1 DEF Known
  <2>2. CASE ~after
    <3>1. ~known /\ ~Defines(mt, q[1])
      BY <2>2
    <3>2. PICK i \in 1..k : Defines(mt, q[i])
      BY <1>2, <3>1 DEF Known
    <3>3. i # 1
      BY <3>1, <3>2
    <3>4. i - 1 \in 1..k - 1 /\ i - 1 \in 1..Len(q) - 1 /\ i - 1 + 1 = i
      BY <1>1, <3>3
    <3>5. Defines(mt, r[i - 1])
      BY <1>1, <3>2, <3>4
    <3>. QED  BY <3>4, <3>5 DEF Known
  <2>. QED  BY <2>1, <2>2
<1>3. ASSUME NEW k \in 1..Len(r), Needs(mt, r[k])  PROVE Known(mt, after, r, k - 1)
  <2>1. k + 1 \in 1..Len(q) /\ r[k] = q[k + 1] /\ k + 1 - 1 = k /\ k \in 1..Len(q)
    BY <1>1
  <2>2. Known(mt, known, q, k)
    BY <1>3, <2>1 DEF Defining
  <2>. QED  BY <1>2, <2>1, <2>2
<1>4. sent => Known(mt, after, r, Len(r))
  <2>1. Len(q) \in 1..Len(q) /\ Len(r) = Len(q) - 1
    BY <1>1
  <2>2. sent => Known(mt, known, q, Len(q))
    BY DEF Defining
  <2>. QED  BY <1>2, <2>1, <2>2
<1>. QED  BY <1>3, <1>4 DEF Defining, r

(* A value that has been read is there for the notification after it. *)
Arrived(mt, p, store) ==
  p.to = "root" /\ p.type = "change" =>
    p.index \in DOMAIN store /\ store[p.index] = Shows(mt, p.index, p.value)

LEMMA TellsTail ==
  ASSUME NEW mt, NEW q, NEW store, NEW after, Arrived(mt, q[1], after),
         NEW r, NEW k \in Nat \ {0}, r[k] = q[k + 1], k # 1 => r[k - 1] = q[k],
         NEW x, Tells(mt, q, store, k + 1, x)
  PROVE  Tells(mt, r, after, k, x)
<1>1. k + 1 # 1 /\ k + 1 - 1 = k
  OBVIOUS
<1>2. ASSUME NEW j, NEW v, Came(mt, q, store, k + 1, j, v)  PROVE Came(mt, r, after, k, j, v)
  <2>1. q[k].to = "root" /\ q[k].type = "change" /\ q[k].index = j
        /\ Shows(mt, j, q[k].value) = v
    BY <1>1, <1>2 DEF Came
  <2>2. CASE k = 1
    BY <2>1, <2>2 DEF Came, Arrived
  <2>3. CASE k # 1
    BY <2>1, <2>3 DEF Came
  <2>. QED  BY <2>2, <2>3
<1>. QED  BY <1>2 DEF Tells

LEMMA CarriesTail ==
  ASSUME NEW mt, NEW q, IsSeq(q), q # <<>>, NEW store, NEW e, IsSeq(e),
         Carries(mt, q, store, e), NEW after, Arrived(mt, q[1], after)
  PROVE  /\ Heard(mt, q[1]) =>
              /\ e # <<>> /\ Tells(mt, q, store, 1, Head(e))
              /\ Carries(mt, Tail(q), after, Tail(e))
         /\ ~Heard(mt, q[1]) => Carries(mt, Tail(q), after, e)
<1>. DEFINE r == Tail(q)
            l == Len(q) - 1
            top == Len(e)
            h == IF Heard(mt, q[1]) THEN 1 ELSE 0
            f == IF Heard(mt, q[1]) THEN Tail(e) ELSE e
<1>1. /\ l \in Nat /\ Len(q) = l + 1 /\ Len(r) = l
      /\ \A i \in 1..l : r[i] = q[i + 1]
  BY TailSeq
<1>2. top \in Nat
  BY IsSeqElements
<1>3. PICK n \in [0..l + 1 -> 0..top] :
        /\ Counted(mt, q, n) /\ n[l + 1] = top
        /\ \A k \in 1..l + 1 : Heard(mt, q[k]) => Tells(mt, q, store, k, e[n[k]])
  BY <1>1 DEF Carries
<1>4. /\ n[0] = 0
      /\ \A k \in 1..l + 1 : n[k] = n[k - 1] + (IF Heard(mt, q[k]) THEN 1 ELSE 0)
      /\ \A i, j \in 0..l + 1 : i <= j => n[i] <= n[j]
  BY <1>1, <1>3 DEF Counted
<1>5. \A i \in 0..l + 1 : n[i] \in 0..top
  BY <1>1, <1>3
<1>6. n[1] = h /\ h \in {0, 1} /\ h <= top
  <2>1. 1 \in 1..l + 1 /\ 1 \in 0..l + 1 /\ 1 - 1 = 0
    BY <1>1
  <2>2. n[1] = n[0] + (IF Heard(mt, q[1]) THEN 1 ELSE 0)
    BY <1>4, <2>1
  <2>3. n[1] = h /\ h \in {0, 1}
    BY <1>4, <2>2
  <2>4. n[1] \in 0..top
    BY <1>5, <2>1
  <2>. QED  BY <1>2, <2>3, <2>4
<1>. HIDE DEF l, top, r
<1>7. /\ Heard(mt, q[1]) => e # <<>> /\ Head(e) = e[1]
      /\ IsSeq(f) /\ Len(f) = top - h
      /\ \A i \in 1..top - h : f[i] = e[i + h]
  <2>1. CASE Heard(mt, q[1])
    <3>1. e # <<>>
      BY <1>6, <2>1, NoSeq DEF top
    <3>2. /\ IsSeq(Tail(e)) /\ Len(Tail(e)) = Len(e) - 1 /\ Head(e) = e[1]
          /\ \A i \in 1..Len(e) - 1 : Tail(e)[i] = e[i + 1]
      BY <3>1, TailSeq
    <3>3. h = 1 /\ f = Tail(e)
      BY <2>1
    <3>. HIDE DEF f, h
    <3>. QED  BY <2>1, <3>1, <3>2, <3>3 DEF top
  <2>2. CASE ~Heard(mt, q[1])
    <3>1. h = 0 /\ f = e
      BY <2>2
    <3>. HIDE DEF f, h
    <3>2. top - h = top /\ \A i \in 1..top : i + h = i
      BY <1>2, <3>1
    <3>. QED  BY <2>2, <3>1, <3>2 DEF top
  <2>. QED  BY <2>1, <2>2
<1>8. Heard(mt, q[1]) => Tells(mt, q, store, 1, Head(e))
  <2>1. 1 \in 1..l + 1
    BY <1>1
  <2>2. Heard(mt, q[1]) => n[1] = 1
    BY <1>6
  <2>. QED  BY <1>3, <1>7, <2>1, <2>2
<1>. HIDE DEF h, f
<1>. DEFINE less == [k \in 0..l |-> n[k + 1] - h]
<1>9. \A k \in 0..l : /\ k + 1 \in 0..l + 1 /\ n[k + 1] \in 0..top /\ h <= n[k + 1]
                      /\ less[k] = n[k + 1] - h
  <2>1. ASSUME NEW k \in 0..l  PROVE k + 1 \in 0..l + 1 /\ 1 \in 0..l + 1 /\ 1 <= k + 1
    BY <1>1
  <2>. QED  BY <1>4, <1>5, <1>6, <2>1
<1>10. less = [k \in 0..l |-> less[k]]
  OBVIOUS
<1>. HIDE DEF less
<1>11. \A k \in 0..l : less[k] \in 0..top - h /\ less[k] + h = n[k + 1]
  BY <1>2, <1>6, <1>9
<1>12. less \in [0..l -> 0..top - h]
  BY <1>10, <1>11
<1>13. Counted(mt, r, less)
  <2>1. less[0] = 0
    <3>1. 0 \in 0..l /\ 0 + 1 = 1
      BY <1>1
    <3>. QED  BY <1>6, <1>9, <3>1
  <2>2. ASSUME NEW k \in 1..l
        PROVE  less[k] = less[k - 1] + (IF Heard(mt, r[k]) THEN 1 ELSE 0)
    <3>1. k \in 0..l /\ k - 1 \in 0..l /\ k + 1 \in 1..l + 1 /\ k + 1 - 1 = k /\ k - 1 + 1 = k
      BY <1>1
    <3>2. less[k] = n[k + 1] - h /\ less[k - 1] = n[k] - h /\ n[k] \in Nat
      BY <1>9, <3>1
    <3>3. n[k + 1] = n[k] + (IF Heard(mt, q[k + 1]) THEN 1 ELSE 0)
      BY <1>4, <3>1
    <3>4. r[k] = q[k + 1]
      BY <1>1
    <3>. QED  BY <1>6, <3>2, <3>3, <3>4
  <2>3. ASSUME NEW i \in 0..l, NEW j \in 0..l, i <= j  PROVE less[i] <= less[j]
    <3>1. i + 1 \in 0..l + 1 /\ j + 1 \in 0..l + 1 /\ i + 1 <= j + 1
      BY <1>1, <2>3
    <3>2. n[i + 1] <= n[j + 1]
      BY <1>4, <3>1
    <3>. QED  BY <1>6, <1>9, <3>2
  <2>. QED  BY <1>1, <2>1, <2>2, <2>3 DEF Counted
<1>14. ASSUME NEW k \in 1..l, Heard(mt, r[k])  PROVE Tells(mt, r, after, k, f[less[k]])
  <2>1. k \in 0..l /\ k + 1 \in 1..l + 1 /\ k + 1 - 1 = k /\ k \in Nat \ {0} /\ k \in 0..l + 1
        /\ 1 <= k /\ 1 \in 0..l + 1
    BY <1>1
  <2>2. r[k] = q[k + 1] /\ (k # 1 => r[k - 1] = q[k])
    <3>1. k # 1 => k - 1 \in 1..l /\ k - 1 + 1 = k
      BY <1>1
    <3>. QED  BY <1>1, <3>1
  <2>3. Tells(mt, q, store, k + 1, e[n[k + 1]])
    BY <1>3, <1>14, <2>1, <2>2
  <2>4. n[k + 1] = n[k] + 1 /\ n[k] >= h
    BY <1>4, <1>6, <1>14, <2>1, <2>2
  <2>5. less[k] \in 1..top - h /\ less[k] + h = n[k + 1]
    BY <1>2, <1>5, <1>6, <1>11, <2>1, <2>4
  <2>6. f[less[k]] = e[n[k + 1]]
    BY <1>7, <2>5
  <2>. QED  BY <2>1, <2>2, <2>3, <2>6, TellsTail
<1>15. less[l] = Len(f)
  <2>1. l \in 0..l
    BY <1>1
  <2>. QED  BY <1>3, <1>7, <1>9, <2>1
<1>16. Carries(mt, r, after, f)
  BY <1>1, <1>7, <1>12, <1>13, <1>14, <1>15 DEF Carries
<1>. QED  BY <1>7, <1>8, <1>16 DEF r, f

-----------------------------------------------------------------------------
(* Steps of the replica's node *)

Formed(r) ==
  r \in [valid : BOOLEAN, type : Definitions \cup {"unknown"}, store : {r.store},
         child : {NoChild} \cup [name : Definitions, value : {r.child.value}]]

LEMMA PointerHandled ==
  ASSUME NEW r, Formed(r), NEW v, v.null \in BOOLEAN,
         v.def \in Definitions \cup {NoDefinition}, v.null => v.def = NoDefinition,
         design.acq \in {"static", "dynamic"},
         design.acq = "dynamic" /\ ~v.null /\ v.def = NoDefinition => r.type # "unknown",
         design.acq = "dynamic" /\ ~r.valid => r.child = NoChild
  PROVE  LET h == HandlePointer(r, v) IN
         /\ Formed(h) /\ h.store = r.store /\ h.valid = r.valid
         /\ r.type # "unknown" => h.type # "unknown"
         /\ design.acq = "dynamic" /\ v.def # NoDefinition => h.type # "unknown"
<1>. DEFINE fresh == r.child = NoChild \/ r.valid
            name == IF ~fresh THEN r.child.name
                    ELSE IF v.def # NoDefinition THEN v.def ELSE MetaObjectForType(r)
            type == IF fresh /\ v.def # NoDefinition THEN v.def ELSE r.type
            child == [name |-> name, value |-> v.value]
            h == HandlePointer(r, v)
<1>1. /\ r.valid \in BOOLEAN /\ r.type \in Definitions \cup {"unknown"}
      /\ r = [valid |-> r.valid, type |-> r.type, store |-> r.store, child |-> r.child]
      /\ r.child = NoChild \/ r.child.name \in Definitions
  BY DEF Formed
<1>2. "unknown" \notin Definitions /\ "x" \in Definitions /\ NoDefinition \notin Definitions
  BY DEF Definitions, NoDefinition
<1>3. CASE v.null
  <2>1. h = [r EXCEPT !.child = NoChild]
    BY <1>3 DEF HandlePointer
  <2>2. /\ h = [valid |-> r.valid, type |-> r.type, store |-> r.store, child |-> NoChild]
        /\ h.valid = r.valid /\ h.type = r.type /\ h.store = r.store /\ h.child = NoChild
    BY <1>1, <2>1
  <2>. HIDE DEF h
  <2>3. Formed(h)
    BY <1>1, <2>2 DEF Formed
  <2>. QED  BY <1>3, <2>2, <2>3 DEF h
<1>4. CASE ~v.null
  <2>1. h = [r EXCEPT !.child = child, !.type = type]
    BY <1>4 DEF HandlePointer
  <2>2. name \in Definitions
    <3>1. CASE ~fresh
      BY <1>1, <3>1
    <3>2. CASE fresh /\ v.def # NoDefinition
      BY <3>2
    <3>3. CASE fresh /\ v.def = NoDefinition
      <4>1. MetaObjectForType(r) \in Definitions
        BY <1>1, <1>2, <1>4, <3>3 DEF MetaObjectForType
      <4>. QED  BY <3>3, <4>1
    <3>. QED  BY <3>1, <3>2, <3>3
  <2>3. /\ type \in Definitions \cup {"unknown"}
        /\ r.type # "unknown" => type # "unknown"
        /\ design.acq = "dynamic" /\ v.def # NoDefinition => type # "unknown"
    <3>1. design.acq = "dynamic" => fresh
      OBVIOUS
    <3>2. v.def # NoDefinition => v.def # "unknown"
      BY <1>2
    <3>. HIDE DEF fresh
    <3>. QED  BY <1>1, <3>1, <3>2
  <2>4. child.name = name /\ child.value = v.value
        /\ child \in [name : Definitions, value : {child.value}]
    BY <2>2
  <2>. HIDE DEF type, child, name
  <2>5. /\ h = [valid |-> r.valid, type |-> type, store |-> r.store, child |-> child]
        /\ h.valid = r.valid /\ h.type = type /\ h.store = r.store /\ h.child = child
    BY <1>1, <2>1
  <2>. HIDE DEF h
  <2>6. Formed(h)
    BY <1>1, <2>3, <2>4, <2>5 DEF Formed
  <2>. QED  BY <2>3, <2>5, <2>6 DEF h
<1>. QED  BY <1>3, <1>4

(* What reading a packet must leave. *)
Reads(p) ==
  /\ p = down[1]
  /\ ReplicaOK(design, meta, replica') /\ replica'.valid
  /\ replica.type # "unknown" => replica'.type # "unknown"
  /\ design.acq = "dynamic" /\ Defines(meta, p) => replica'.type # "unknown"
  /\ Arrived(meta, p, replica'.store)
  /\ Excused'
  /\ IF Heard(meta, p) THEN due' = Tail(due) ELSE due' = due

LEMMA PacketIsRead ==
  ASSUME IInv, down # <<>>, down' = Tail(down), NEW p, Reads(p),
         UNCHANGED <<design, object, value, kid, api, host, up, meta, wanted, events>>
  PROVE  IInv'
<1>1. /\ Agree(design, object, api, meta)
      /\ ValuesOK(object, value) /\ KidsOK(kid) /\ HostOK(host)
      /\ Asked(up, wanted) /\ events \in 0..MaxEvents /\ design \in Designs
      /\ PacketsOK(api, meta, down) /\ Connecting(design, host, replica, down)
      /\ DefinedInv(design, meta, host, replica.type, down)
      /\ IsSeq(due) /\ Carries(meta, down, replica.store, due)
  BY Holds DEF Sent
<1>2. /\ p = down[1] /\ ReplicaOK(design, meta, replica') /\ replica'.valid
      /\ replica.type # "unknown" => replica'.type # "unknown"
      /\ design.acq = "dynamic" /\ Defines(meta, p) => replica'.type # "unknown"
      /\ Arrived(meta, p, replica'.store) /\ Excused'
      /\ IF Heard(meta, p) THEN due' = Tail(due) ELSE due' = due
  BY DEF Reads
<1>3. /\ IsSeq(down) /\ IsSeq(down') /\ Len(down) \in Nat \ {0} /\ Len(down') = Len(down) - 1
      /\ \A i \in 1..Len(down) - 1 : down'[i] = down[i + 1]
  BY <1>1, TailSeq DEF PacketsOK
<1>4. host.attached /\ design.acq # "inprocess"
  BY <1>1 DEF Connecting
<1>5. \A i \in 1..Len(down') : i + 1 \in 1..Len(down) /\ down'[i] = down[i + 1] /\ i + 1 # 1
  BY <1>3
<1>6. PacketsOK(api, meta, down')
  BY <1>1, <1>3, <1>5 DEF PacketsOK
<1>7. Connecting(design, host, replica', down')
  BY <1>1, <1>2, <1>4, <1>5 DEF Connecting
<1>8. DefinedInv(design, meta, host, replica'.type, down')
  <2>. SUFFICES ASSUME design.acq = "dynamic"
                PROVE  host.dynamic
                       /\ Defining(meta, replica'.type # "unknown", down', host.sent)
    BY DEF DefinedInv
  <2>1. host.dynamic /\ Defining(meta, replica.type # "unknown", down, host.sent)
    BY <1>1, <1>4 DEF DefinedInv
  <2>2. (replica.type # "unknown") \/ Defines(meta, down[1]) => replica'.type # "unknown"
    BY <1>2
  <2>. QED  BY <1>3, <2>1, <2>2, DefiningTail
<1>9. IsSeq(due') /\ Carries(meta, down', replica'.store, due')
  <2>1. /\ Heard(meta, down[1]) =>
              due # <<>> /\ Carries(meta, Tail(down), replica'.store, Tail(due))
        /\ ~Heard(meta, down[1]) => Carries(meta, Tail(down), replica'.store, due)
    BY <1>1, <1>2, <1>3, CarriesTail
  <2>. QED  BY <1>1, <1>2, <2>1, TailSeq
<1>10. TypeInv'
  BY <1>1, <1>2, <1>6, <1>7, <1>8 DEF TypeInv
<1>11. ConveyInv'
  BY <1>1, <1>2, <1>4, <1>9 DEF ConveyInv, Asked, Excused
<1>. QED  BY <1>10, <1>11 DEF IInv

(* What is known when a packet is there. *)
LEMMA Reading ==
  ASSUME IInv, down # <<>>
  PROVE  /\ PacketOK(api, meta, down[1]) /\ Agree(design, object, api, meta)
         /\ ReplicaOK(design, meta, replica) /\ Formed(replica) /\ Excused
         /\ host.attached /\ design.acq \in {"static", "dynamic"}
         /\ ~replica.valid => down[1].type = "init"
         /\ design.acq = "dynamic" /\ Needs(meta, down[1]) => replica.type # "unknown"
         /\ design.acq = "dynamic" /\ ~replica.valid => replica.child = NoChild
         /\ replica.valid => DOMAIN replica.store = DOMAIN meta.props
         /\ Heard(meta, down[1]) =>
              due # <<>> /\ Tells(meta, down, replica.store, 1, Head(due))
<1>1. /\ Agree(design, object, api, meta) /\ ReplicaOK(design, meta, replica) /\ Excused
      /\ design \in Designs
      /\ PacketsOK(api, meta, down) /\ Connecting(design, host, replica, down)
      /\ DefinedInv(design, meta, host, replica.type, down)
      /\ IsSeq(due) /\ Carries(meta, down, replica.store, due)
  BY Holds DEF Sent
<1>2. IsSeq(down) /\ 1 \in 1..Len(down)
  BY <1>1, TailSeq DEF PacketsOK
<1>3. PacketOK(api, meta, down[1])
  BY <1>1, <1>2 DEF PacketsOK
<1>4. /\ host.attached /\ design.acq # "inprocess"
      /\ ~replica.valid => down[1].type = "init"
  BY <1>1 DEF Connecting
<1>5. design.acq \in {"static", "dynamic"}
  BY <1>1, <1>4, DesignsAreClasses
<1>6. design.acq = "dynamic" /\ Needs(meta, down[1]) => replica.type # "unknown"
  <2>. SUFFICES ASSUME design.acq = "dynamic", Needs(meta, down[1])
                PROVE  replica.type # "unknown"
    OBVIOUS
  <2>1. Defining(meta, replica.type # "unknown", down, host.sent)
    BY <1>1, <1>4 DEF DefinedInv
  <2>2. Known(meta, replica.type # "unknown", down, 1 - 1)
    BY <1>2, <2>1 DEF Defining
  <2>. QED  BY <2>2 DEF Known
<1>7. Heard(meta, down[1]) => due # <<>> /\ Tells(meta, down, replica.store, 1, Head(due))
  <2>. DEFINE after == [j \in {down[1].index} |-> Shows(meta, down[1].index, down[1].value)]
  <2>1. Arrived(meta, down[1], after)
    BY DEF Arrived
  <2>. HIDE DEF after
  <2>. QED  BY <1>1, <1>2, <2>1, CarriesTail
<1>8. /\ Formed(replica)
      /\ design.acq = "dynamic" /\ ~replica.valid => replica.child = NoChild
      /\ replica.valid => DOMAIN replica.store = DOMAIN meta.props
  BY <1>1, <1>4 DEF ReplicaOK, Formed
<1>. QED  BY <1>1, <1>3, <1>4, <1>5, <1>6, <1>7, <1>8

LEMMA ChildIsRead ==
  ASSUME IInv, down # <<>>, NEW p, p = down[1], p.to = "child", ReadChild(p), UNCHANGED design
  PROVE  Reads(p)
<1>1. /\ PacketOK(api, meta, down[1]) /\ ReplicaOK(design, meta, replica) /\ Formed(replica)
      /\ Excused /\ (~replica.valid => down[1].type = "init")
  BY Reading
<1>2. p.type \in {"change", "invoke"} /\ replica.valid
  BY <1>1 DEF PacketOK
<1>3. /\ ~Heard(meta, p) /\ ~Defines(meta, p) /\ \A store : Arrived(meta, p, store)
  BY DEF Heard, Defines, Brings, Arrived
<1>4. UNCHANGED <<seen, due, wrong>>
  BY DEF ReadChild
<1>5. Excused'
  BY <1>1, <1>4 DEF Excused, Misnamed, LeftOver
<1>6. \/ replica' = replica
      \/ replica.child # NoChild /\ replica' = [replica EXCEPT !.child.value = p.value]
  BY DEF ReadChild
<1>7. CASE replica' = replica
  BY <1>1, <1>2, <1>3, <1>4, <1>5, <1>7 DEF Reads
<1>8. CASE replica.child # NoChild /\ replica' = [replica EXCEPT !.child.value = p.value]
  <2>. DEFINE child == [replica.child EXCEPT !.value = p.value]
  <2>1. replica' = [replica EXCEPT !.child = child]
    BY <1>1, <1>8 DEF Formed
  <2>2. replica.child \in [name : Definitions, value : {replica.child.value}]
    BY <1>1, <1>8 DEF Formed
  <2>3. child \in [name : Definitions, value : {child.value}]
    BY <2>2
  <2>. HIDE DEF child
  <2>4. /\ replica' \in [valid : BOOLEAN, type : Definitions \cup {"unknown"},
                         store : {replica'.store},
                         child : {NoChild} \cup [name : Definitions, value : {replica'.child.value}]]
        /\ replica'.valid = replica.valid /\ replica'.type = replica.type
        /\ replica'.store = replica.store
    BY <1>1, <2>1, <2>3 DEF Formed
  <2>5. ReplicaOK(design, meta, replica')
    BY <1>1, <1>2, <2>4 DEF ReplicaOK
  <2>. QED  BY <1>2, <1>3, <1>4, <1>5, <2>4, <2>5 DEF Reads
<1>. QED  BY <1>6, <1>7, <1>8

LEMMA StoredIs ==
  ASSUME NEW j, NEW v, ValueOK(meta, j, v)
  PROVE  Stored(j, v) = Shows(meta, j, v) /\ ShownOK(meta, j, Stored(j, v))
BY DEF Stored, Shows, ShownOK, ValueOK, IsClass

LEMMA InitIsRead ==
  ASSUME IInv, down # <<>>, NEW p, p = down[1], p.to = "root", p.type = "init",
         ReadInit(p), UNCHANGED design
  PROVE  Reads(p)
<1>. DEFINE pointer == SelectInSeq(meta.props, LAMBDA x : x.sort = "class")
            r == IF pointer = 0 THEN replica ELSE HandlePointer(replica, p.values[pointer])
            store == [i \in DOMAIN p.values |-> Stored(i, p.values[i])]
<1>1. /\ PacketOK(api, meta, down[1]) /\ ReplicaOK(design, meta, replica) /\ Formed(replica)
      /\ Agree(design, object, api, meta) /\ design.acq \in {"static", "dynamic"}
      /\ Excused
      /\ design.acq = "dynamic" /\ Needs(meta, down[1]) => replica.type # "unknown"
      /\ design.acq = "dynamic" /\ ~replica.valid => replica.child = NoChild
  BY Reading
<1>2. /\ DOMAIN p.values = DOMAIN meta.props
      /\ \A j \in DOMAIN meta.props : ValueOK(meta, j, p.values[j])
  BY <1>1 DEF PacketOK
<1>3. /\ replica' = [r EXCEPT !.store = store, !.valid = TRUE]
      /\ UNCHANGED <<due, wrong>>
  BY DEF ReadInit
<1>4. PICK n \in Nat : DOMAIN meta.props = 1..n
  BY <1>1 DEF Agree, PropertiesAgree
<1>5. /\ pointer \in 0..n
      /\ pointer # 0 => meta.props[pointer].sort = "class"
      /\ pointer = 0 => \A j \in 1..n : meta.props[j].sort # "class"
  BY <1>4, ClassIn
<1>6. DOMAIN store = DOMAIN meta.props /\ \A j \in DOMAIN store : ShownOK(meta, j, store[j])
  BY <1>2, StoredIs
<1>. HIDE DEF pointer, store
<1>7. /\ Formed(r)
      /\ replica.type # "unknown" => r.type # "unknown"
      /\ design.acq = "dynamic" /\ Defines(meta, p) => r.type # "unknown"
  <2>1. CASE pointer = 0
    <3>1. r = replica
      BY <2>1
    <3>2. ~Brings(meta, p)
      BY <1>4, <1>5, <2>1 DEF Brings, IsClass
    <3>. HIDE DEF r
    <3>. QED  BY <1>1, <3>1, <3>2 DEF Defines
  <2>2. CASE pointer # 0
    <3>. DEFINE v == p.values[pointer]
    <3>1. r = HandlePointer(replica, v)
      BY <2>2
    <3>. HIDE DEF r
    <3>2. pointer \in DOMAIN meta.props /\ IsClass(meta, pointer)
      BY <1>4, <1>5, <2>2 DEF IsClass
    <3>3. (CHOOSE j \in DOMAIN meta.props : IsClass(meta, j)) = pointer
      <4>1. \A j \in DOMAIN meta.props : IsClass(meta, j) => j = pointer
        BY <1>1, <3>2 DEF Agree, PropertiesAgree, IsClass
      <4>. QED  BY <3>2, <4>1
    <3>4. Brings(meta, p) /\ Pointer(meta, p) = v
      BY <3>2, <3>3 DEF Brings, Pointer
    <3>5. /\ v.null \in BOOLEAN /\ v.def \in Definitions \cup {NoDefinition}
          /\ v.null => v.def = NoDefinition
      BY <1>2, <3>2 DEF ValueOK
    <3>. HIDE DEF v
    <3>6. /\ Needs(meta, p) <=> ~v.null /\ v.def = NoDefinition
          /\ Defines(meta, p) <=> v.def # NoDefinition
      BY <3>4 DEF Needs, Defines
    <3>7. design.acq = "dynamic" /\ ~v.null /\ v.def = NoDefinition => replica.type # "unknown"
      BY <1>1, <3>6
    <3>8. /\ Formed(HandlePointer(replica, v))
          /\ replica.type # "unknown" => HandlePointer(replica, v).type # "unknown"
          /\ design.acq = "dynamic" /\ v.def # NoDefinition
               => HandlePointer(replica, v).type # "unknown"
      BY <1>1, <3>5, <3>7, PointerHandled
    <3>. QED  BY <3>1, <3>6, <3>8
  <2>. QED  BY <2>1, <2>2
<1>. HIDE DEF r
<1>8. /\ Formed(replica')
      /\ replica'.valid /\ replica'.type = r.type /\ replica'.store = store
  BY <1>3, <1>7 DEF Formed
<1>9. ReplicaOK(design, meta, replica')
  BY <1>1, <1>6, <1>8 DEF ReplicaOK, Formed
<1>10. ~Heard(meta, p) /\ Arrived(meta, p, replica'.store)
  BY DEF Heard, Arrived
<1>11. Excused'
  BY <1>1, <1>3 DEF Excused, Misnamed, LeftOver
<1>. QED  BY <1>3, <1>7, <1>8, <1>9, <1>10, <1>11 DEF Reads

LEMMA ChangeIsRead ==
  ASSUME IInv, down # <<>>, NEW p, p = down[1], p.to = "root", p.type = "change",
         ReadPropertyChange(p), UNCHANGED design
  PROVE  Reads(p)
<1>. DEFINE j == p.index
            v == p.value
            r == IF meta.props[j].sort = "class" THEN HandlePointer(replica, v) ELSE replica
<1>1. /\ PacketOK(api, meta, down[1]) /\ ReplicaOK(design, meta, replica) /\ Formed(replica)
      /\ design.acq \in {"static", "dynamic"}
      /\ Excused /\ (~replica.valid => down[1].type = "init")
      /\ design.acq = "dynamic" /\ Needs(meta, down[1]) => replica.type # "unknown"
      /\ design.acq = "dynamic" /\ ~replica.valid => replica.child = NoChild
      /\ replica.valid => DOMAIN replica.store = DOMAIN meta.props
  BY Reading
<1>2. j \in DOMAIN meta.props /\ ValueOK(meta, j, v) /\ replica.valid
  BY <1>1 DEF PacketOK
<1>3. /\ replica' = [r EXCEPT !.store[j] = Stored(j, v)] /\ UNCHANGED <<due, wrong>>
  BY DEF ReadPropertyChange
<1>4. Stored(j, v) = Shows(meta, j, v) /\ ShownOK(meta, j, Stored(j, v))
  BY <1>2, StoredIs
<1>5. /\ Formed(r) /\ r.store = replica.store /\ r.valid = replica.valid
      /\ replica.type # "unknown" => r.type # "unknown"
      /\ design.acq = "dynamic" /\ Defines(meta, p) => r.type # "unknown"
  <2>1. CASE ~IsClass(meta, j)
    <3>1. r = replica
      BY <2>1 DEF IsClass
    <3>2. ~Brings(meta, p)
      BY <2>1 DEF Brings
    <3>. HIDE DEF r
    <3>. QED  BY <1>1, <3>1, <3>2 DEF Defines
  <2>2. CASE IsClass(meta, j)
    <3>1. r = HandlePointer(replica, v)
      BY <2>2 DEF IsClass
    <3>. HIDE DEF r
    <3>2. Brings(meta, p) /\ Pointer(meta, p) = v
      BY <2>2 DEF Brings, Pointer
    <3>3. /\ v.null \in BOOLEAN /\ v.def \in Definitions \cup {NoDefinition}
          /\ v.null => v.def = NoDefinition
      BY <1>2, <2>2 DEF ValueOK
    <3>. HIDE DEF v
    <3>4. /\ Needs(meta, p) <=> ~v.null /\ v.def = NoDefinition
          /\ Defines(meta, p) <=> v.def # NoDefinition
      BY <3>2 DEF Needs, Defines
    <3>5. design.acq = "dynamic" /\ ~v.null /\ v.def = NoDefinition => replica.type # "unknown"
      BY <1>1, <3>4
    <3>6. /\ Formed(HandlePointer(replica, v))
          /\ HandlePointer(replica, v).store = replica.store
          /\ HandlePointer(replica, v).valid = replica.valid
          /\ replica.type # "unknown" => HandlePointer(replica, v).type # "unknown"
          /\ design.acq = "dynamic" /\ v.def # NoDefinition
               => HandlePointer(replica, v).type # "unknown"
      BY <1>1, <3>3, <3>5, PointerHandled
    <3>. QED  BY <3>1, <3>4, <3>6
  <2>. QED  BY <2>1, <2>2
<1>. DEFINE store == [r.store EXCEPT ![j] = Stored(j, v)]
<1>. HIDE DEF r
<1>6. replica' = [r EXCEPT !.store = store]
  BY <1>3, <1>5 DEF Formed
<1>7. /\ DOMAIN store = DOMAIN meta.props /\ store[j] = Stored(j, v)
      /\ \A i \in DOMAIN store : ShownOK(meta, i, store[i])
  BY <1>1, <1>2, <1>4, <1>5 DEF ReplicaOK
<1>. HIDE DEF store
<1>8. /\ Formed(replica')
      /\ replica'.valid /\ replica'.type = r.type /\ replica'.store = store
  BY <1>2, <1>5, <1>6 DEF Formed
<1>9. ReplicaOK(design, meta, replica')
  BY <1>1, <1>7, <1>8 DEF ReplicaOK, Formed
<1>10. ~Heard(meta, p) /\ Arrived(meta, p, replica'.store)
  BY <1>2, <1>4, <1>7, <1>8 DEF Heard, Arrived
<1>11. Excused'
  BY <1>1, <1>3 DEF Excused, Misnamed, LeftOver
<1>. QED  BY <1>3, <1>5, <1>8, <1>9, <1>10, <1>11 DEF Reads

(* Of signals with one name the last one's listeners hear it. *)
LEMMA LastOf ==
  ASSUME SignalsAgree(MethodOffset(design), object, api, meta), NEW k \in DOMAIN meta.methods
  PROVE  SelectLastInSeq(meta.methods, LAMBDA x : x.name = meta.methods[k].name) = k
           <=> IsLast(meta, k)
<1>. DEFINE I == {i \in 1..Len(meta.methods) : meta.methods[i].name = meta.methods[k].name}
            heard == SelectLastInSeq(meta.methods, LAMBDA x : x.name = meta.methods[k].name)
<1>1. PICK n \in Nat : DOMAIN meta.methods = 1..n
  BY DEF SignalsAgree
<1>2. Len(meta.methods) = n
  BY <1>1
<1>3. heard = IF I # {} THEN Max(I) ELSE 0
  BY DEF SelectLastInSeq
<1>4. \A i : i \in I <=> i \in DOMAIN meta.methods /\ meta.methods[i].name = meta.methods[k].name
  BY <1>1, <1>2
<1>5. I \in SUBSET (1..n) /\ I # {}
  BY <1>2, <1>4
<1>. HIDE DEF I, heard
<1>6. Max(I) \in I /\ \A i \in I : i <= Max(I)
  BY <1>1, <1>5, MaxOf
<1>7. IsLast(meta, k) <=> \A i \in I : i <= k
  BY <1>4 DEF IsLast
<1>8. k \in I
  BY <1>4
<1>9. (\A i \in I : i <= k) <=> Max(I) = k
  <2>1. \A i \in I : i \in Nat
    BY <1>1, <1>5
  <2>2. Max(I) \in Nat /\ k \in Nat /\ (Max(I) = k => \A i \in I : i <= k)
    BY <1>6, <1>8, <2>1
  <2>3. (\A i \in I : i <= k) => Max(I) <= k
    BY <1>6
  <2>4. k <= Max(I)
    BY <1>6, <1>8
  <2>. QED  BY <2>2, <2>3, <2>4
<1>10. heard = k <=> IsLast(meta, k)
  BY <1>3, <1>5, <1>7, <1>9
<1>. QED  BY <1>10 DEF heard

LEMMA InvokeIsRead ==
  ASSUME IInv, down # <<>>, NEW p, p = down[1], p.to = "root", p.type = "invoke",
         ReadInvoke(p), UNCHANGED design
  PROVE  Reads(p)
<1>. DEFINE signal == meta.methods[p.index]
            params == IF p.args # <<>> THEN p.args
                      ELSE IF p.property # 0 THEN <<replica.store[p.property]>>
                      ELSE <<>>
            heard == SelectLastInSeq(meta.methods, LAMBDA x : x.name = signal.name)
            args == [i \in 1..signal.arity |->
                       IF i \in DOMAIN params THEN params[i] ELSE "undefined"]
            got == [name |-> signal.name, args |-> args]
<1>1. /\ PacketOK(api, meta, down[1]) /\ ReplicaOK(design, meta, replica)
      /\ Agree(design, object, api, meta) /\ Excused
      /\ ~replica.valid => down[1].type = "init"
      /\ Heard(meta, down[1]) => due # <<>> /\ Tells(meta, down, replica.store, 1, Head(due))
  BY Reading
<1>2. p.index \in DOMAIN api.signals /\ p.args \in Seq(Arguments) /\ replica.valid
  BY <1>1 DEF PacketOK
<1>3. p.index \in DOMAIN meta.methods
  BY <1>1, <1>2 DEF Agree, SignalsAgree
<1>4. heard = p.index <=> Heard(meta, p)
  <2>1. heard = p.index <=> IsLast(meta, p.index)
    BY <1>1, <1>3, LastOf DEF Agree
  <2>. HIDE DEF heard
  <2>. QED  BY <2>1 DEF Heard
<1>5. /\ IF heard = p.index THEN Hear(got) ELSE UNCHANGED <<due, wrong>>
      /\ UNCHANGED replica
  BY DEF ReadInvoke
<1>. HIDE DEF heard, got
<1>6. ~Defines(meta, p) /\ Arrived(meta, p, replica'.store)
  BY DEF Defines, Brings, Arrived
<1>7. CASE ~Heard(meta, p)
  <2>1. UNCHANGED <<due, wrong>>
    BY <1>4, <1>5, <1>7
  <2>2. Excused'
    BY <1>1, <2>1 DEF Excused, Misnamed, LeftOver
  <2>. QED  BY <1>1, <1>2, <1>5, <1>6, <1>7, <2>1, <2>2 DEF Reads
<1>8. CASE Heard(meta, p)
  <2>. DEFINE e == Head(due)
  <2>1. due # <<>> /\ Tells(meta, down, replica.store, 1, e)
    BY <1>1, <1>8
  <2>2. /\ wrong' = IF got = e THEN wrong ELSE wrong \cup {[expected |-> e, got |-> got]}
        /\ due' = Tail(due)
    BY <1>4, <1>5, <1>8, <2>1 DEF Hear
  <2>. HIDE DEF e
  <2>3. e = [name |-> signal.name, args |-> [i \in 1..signal.arity |-> e.args[i]]]
    BY <2>1 DEF Tells
  <2>4. \/ \A i \in 1..signal.arity : i \in DOMAIN p.args /\ p.args[i] = e.args[i]
        \/ /\ signal.arity = 1 /\ p.args = <<>> /\ p.property # 0
           /\ Came(meta, down, replica.store, 1, p.property, e.args[1])
        \/ signal.arity = 1 /\ p.args # <<>> /\ e.args \in {<<"null">>, <<"child">>}
    BY <2>1 DEF Tells
  <2>5. \A i \in DOMAIN <<>> : FALSE
    OBVIOUS
  <2>6. ASSUME \A i \in 1..signal.arity : i \in DOMAIN p.args /\ p.args[i] = e.args[i]
        PROVE  got = e
    <3>1. CASE p.args # <<>>
      <4>1. params = p.args
        BY <3>1
      <4>. HIDE DEF params
      <4>2. \A i \in 1..signal.arity : i \in DOMAIN params /\ params[i] = e.args[i]
        BY <2>6, <4>1
      <4>3. args = [i \in 1..signal.arity |-> e.args[i]]
        BY <4>2
      <4>. HIDE DEF args
      <4>. QED  BY <2>3, <4>3 DEF got
    <3>2. CASE p.args = <<>>
      <4>1. \A i \in 1..signal.arity : FALSE
        BY <2>5, <2>6, <3>2
      <4>2. args = [i \in 1..signal.arity |-> e.args[i]]
        BY <4>1
      <4>. HIDE DEF args
      <4>. QED  BY <2>3, <4>2 DEF got
    <3>. QED  BY <3>1, <3>2
  <2>7. ASSUME signal.arity = 1, p.args = <<>>, p.property # 0,
               Came(meta, down, replica.store, 1, p.property, e.args[1])
        PROVE  got = e
    <3>1. replica.store[p.property] = e.args[1]
      BY <2>7 DEF Came
    <3>2. params = <<e.args[1]>>
      BY <2>7, <3>1
    <3>. HIDE DEF params
    <3>3. 1 \in DOMAIN params /\ params[1] = e.args[1] /\ signal.arity = 1
      BY <2>7, <3>2
    <3>4. args = [i \in 1..signal.arity |-> e.args[i]]
      BY <3>3
    <3>. HIDE DEF args
    <3>. QED  BY <2>3, <3>4 DEF got
  <2>8. ASSUME signal.arity = 1, p.args # <<>>, e.args \in {<<"null">>, <<"child">>}
        PROVE  LeftOver([expected |-> e, got |-> got])
    <3>1. params = p.args
      BY <2>8
    <3>2. 1 \in DOMAIN p.args /\ p.args[1] \in Arguments
      BY <1>2, <2>8
    <3>. HIDE DEF params
    <3>3. args = <<p.args[1]>>
      BY <2>8, <3>1, <3>2
    <3>. HIDE DEF args
    <3>4. got.args = <<p.args[1]>> /\ got.name = e.name
      <4>1. e.name = signal.name
        BY <2>3
      <4>. QED  BY <3>3, <4>1 DEF got
    <3>. DEFINE w == [expected |-> e, got |-> got]
    <3>5. w.expected = e /\ w.got = got
      OBVIOUS
    <3>. HIDE DEF w
    <3>6. LeftOver(w)
      BY <2>8, <3>2, <3>4, <3>5 DEF LeftOver, Arguments
    <3>. QED  BY <3>6 DEF w
  <2>9. got = e \/ LeftOver([expected |-> e, got |-> got])
    BY <2>4, <2>6, <2>7, <2>8
  <2>10. \A w \in wrong' : (LeftOver(w) \/ Misnamed(w))'
    BY <1>1, <2>2, <2>9 DEF Excused, Misnamed, LeftOver
  <2>11. Excused'
    BY <2>10 DEF Excused
  <2>. QED  BY <1>1, <1>2, <1>5, <1>6, <1>8, <2>2, <2>11 DEF Reads
<1>. QED  BY <1>7, <1>8

LEMMA ReplicaReads == ASSUME IInv, ClientReads  PROVE IInv'
<1>. DEFINE p == Head(down)
<1>1. /\ down # <<>> /\ down' = Tail(down)
      /\ UNCHANGED <<design, object, value, kid, api, host, up, meta, wanted, events>>
  BY DEF ClientReads
<1>2. /\ CASE p.to = "child"                       -> ReadChild(p)
           [] p.type = "init"                      -> ReadInit(p)
           [] p.to = "root" /\ p.type = "change"   -> ReadPropertyChange(p)
           [] p.to = "root" /\ p.type = "invoke"   -> ReadInvoke(p)
  BY DEF ClientReads
<1>3. p = down[1]
  <2>1. IsSeq(down)
    BY Holds DEF Sent, PacketsOK
  <2>. QED  BY <1>1, <2>1, TailSeq
<1>4. PacketOK(api, meta, p)
  BY <1>1, <1>3, Reading
<1>. HIDE DEF p
<1>5. \/ p.to = "child" /\ p.type \in {"change", "invoke"}
      \/ p.to = "root" /\ p.type \in {"init", "change", "invoke"}
  BY <1>4 DEF PacketOK
<1>6. Reads(p)
  <2>1. CASE p.to = "child"
    <3>1. ReadChild(p)
      BY <1>2, <1>5, <2>1
    <3>. QED  BY <1>1, <1>3, <2>1, <3>1, ChildIsRead
  <2>2. CASE p.to = "root" /\ p.type = "init"
    <3>1. ReadInit(p)
      BY <1>2, <2>2
    <3>. QED  BY <1>1, <1>3, <2>2, <3>1, InitIsRead
  <2>3. CASE p.to = "root" /\ p.type = "change"
    <3>1. ReadPropertyChange(p)
      BY <1>2, <2>3
    <3>. QED  BY <1>1, <1>3, <2>3, <3>1, ChangeIsRead
  <2>4. CASE p.to = "root" /\ p.type = "invoke"
    <3>1. ReadInvoke(p)
      BY <1>2, <2>4
    <3>. QED  BY <1>1, <1>3, <2>4, <3>1, InvokeIsRead
  <2>. QED  BY <1>5, <2>1, <2>2, <2>3, <2>4
<1>. QED  BY <1>1, <1>6, PacketIsRead

-----------------------------------------------------------------------------
(* The theorems                                                            *)

LEMMA InitReplica ==
  ASSUME NEW d, NEW mt, NEW r, r = StartOf(d, mt)  PROVE ReplicaOK(d, mt, r) /\ ~r.valid
<1>. DEFINE store == IF d.acq = "static"
                     THEN [j \in DOMAIN mt.props |->
                             IF mt.props[j].sort = "class" THEN "child" ELSE "old"]
                     ELSE <<>>
            child == IF d.acq = "static" /\ (\E j \in DOMAIN mt.props : mt.props[j].sort = "class")
                          /\ ~d.renamed
                     THEN [name |-> "x", value |-> "old"] ELSE NoChild
<1>1. r = [valid |-> FALSE, type |-> "unknown", store |-> store, child |-> child]
  BY DEF StartOf
<1>2. \/ child = NoChild
      \/ d.acq = "static" /\ child = [name |-> "x", value |-> "old"]
  OBVIOUS
<1>3. child \in {NoChild} \cup [name : Definitions, value : {child.value}]
  <2>1. "x" \in Definitions
    BY DEF Definitions
  <2>2. LET c == [name |-> "x", value |-> "old"] IN c \in [name : Definitions, value : {c.value}]
    BY <2>1
  <2>. HIDE DEF child
  <2>. QED  BY <1>2, <2>2
<1>4. d.acq # "static" => child = NoChild
  OBVIOUS
<1>5. d.acq = "static" =>
        /\ DOMAIN store = DOMAIN mt.props
        /\ \A j \in DOMAIN store : ShownOK(mt, j, store[j])
  BY DEF ShownOK, IsClass, Values
<1>6. d.acq # "static" => store = <<>> /\ DOMAIN store = {}
  OBVIOUS
<1>. HIDE DEF store, child
<1>7. ~r.valid /\ r.store = store /\ r.child = child
  BY <1>1
<1>8. r \in [valid : BOOLEAN, type : Definitions \cup {"unknown"}, store : {r.store},
             child : {NoChild} \cup [name : Definitions, value : {r.child.value}]]
  BY <1>1, <1>3
<1>. QED  BY <1>4, <1>5, <1>6, <1>7, <1>8 DEF ReplicaOK

LEMMA InitHolds == ASSUME Init  PROVE IInv
<1>1. /\ design \in Designs /\ object = ObjectOf(design) /\ api = ApiOf(design, object)
      /\ meta = MetaOf(design, object, api)
      /\ kid = [t |-> <<"old">>, u |-> <<"old", "old">>]
      /\ replica = StartOf(design, meta)
      /\ up = <<>> /\ down = <<>> /\ due = <<>> /\ wanted = <<>>
      /\ wrong = {} /\ events = 0
  BY DEF Init
<1>2. PICK p \in IF PointerIndex = 0 THEN {"null"} ELSE Pointers :
        /\ value = [i \in DOMAIN object.props |-> IF i = PointerIndex THEN p ELSE "old"]
        /\ host = [attached |-> FALSE, dynamic |-> design.crowd,
                   sent |-> design.crowd /\ p # "null", list |-> <<>>, held |-> p,
                   index |-> IF design.pub = "plain" /\ p = "u" THEN 2 ELSE 1]
  BY DEF Init
<1>3. Agree(design, object, api, meta)
  BY <1>1, DesignAgrees, Zenon
<1>4. ValuesOK(object, value)
  <2>1. \A i \in DOMAIN object.props : i = PointerIndex <=> object.props[i].sort = "class"
    BY <1>3, PointerIndexIs DEF Agree
  <2>2. p \in Pointers /\ "old" \in Values
    BY <1>2 DEF Pointers, Values
  <2>. QED  BY <1>2, <2>1, <2>2 DEF ValuesOK
<1>5. KidsOK(kid)
  <2>1. kid["t"] = <<"old">> /\ kid["u"] = <<"old", "old">>
        /\ kid = [o \in {"t", "u"} |-> kid[o]]
    BY <1>1
  <2>2. <<"old">> \in Seq(Values) /\ <<"old", "old">> \in Seq(Values)
    BY DEF Values
  <2>. QED  BY <2>1, <2>2 DEF KidsOK
<1>6. HostOK(host) /\ ~host.attached
  <2>1. design.crowd \in BOOLEAN /\ p \in Pointers
    BY <1>1, <1>2, DesignsAreClasses DEF Pointers
  <2>2. <<>> \in Seq(Arguments)
    OBVIOUS
  <2>. QED  BY <1>2, <2>1, <2>2 DEF HostOK
<1>7. ReplicaOK(design, meta, replica) /\ ~replica.valid
  BY <1>1, InitReplica
<1>8. /\ PacketsOK(api, meta, down) /\ Connecting(design, host, replica, down)
      /\ DefinedInv(design, meta, host, replica.type, down)
  BY <1>1, <1>6, <1>7, NoSeq DEF PacketsOK, Connecting, DefinedInv
<1>9. TypeInv
  BY <1>1, <1>3, <1>4, <1>5, <1>6, <1>7, <1>8, DesignsAreClasses DEF TypeInv
<1>10. Carries(meta, <<>>, replica.store, <<>>)
  <2>. DEFINE n == [k \in 0..0 |-> 0]
  <2>1. n \in [0..0 -> 0..0] /\ n[0] = 0
    OBVIOUS
  <2>2. \A i \in 0..0 : i = 0
    OBVIOUS
  <2>. HIDE DEF n
  <2>3. Counted(meta, <<>>, n)
    BY <2>1, <2>2, NoSeq DEF Counted
  <2>. QED  BY <2>1, <2>3, NoSeq DEF Carries
<1>11. ConveyInv
  BY <1>1, <1>10, NoSeq DEF ConveyInv, RequestsMeet
<1>. QED  BY <1>9, <1>11 DEF IInv

LEMMA NextHolds == ASSUME IInv, [Next]_vars  PROVE IInv'
<1>1. CASE Attach
  BY <1>1, ReplicaIsAttached
<1>2. CASE AcquireInProcess
  BY <1>2, AcquiredInProcess
<1>3. ASSUME NEW i \in DOMAIN object.props, NEW v, SetProperty(i, v)  PROVE IInv'
  BY <1>3, PropertyIsSet
<1>4. ASSUME NEW m \in DOMAIN object.methods, EmitSignal(m)  PROVE IInv'
  BY <1>4, SignalIsEmitted
<1>5. ASSUME NEW o \in {"t", "u"}, NEW v \in Values, NEW i \in DOMAIN kid[o], SetKid(o, i, v)
      PROVE  IInv'
  BY <1>5, KidIsSet
<1>6. ASSUME NEW m \in DOMAIN object.methods, NEW v \in Values, Call(m, v)  PROVE IInv'
  BY <1>6, CallIsMade
<1>7. ASSUME NEW j \in DOMAIN meta.props, NEW v \in Values, Write(j, v)  PROVE IInv'
  BY <1>7, PropertyIsWritten
<1>8. CASE HostReads
  BY <1>8, RequestIsRead
<1>9. CASE ClientReads
  BY <1>9, ReplicaReads
<1>10. CASE UNCHANGED vars
  <2>1. TypeInv'
    BY <1>10 DEF IInv, TypeInv, vars
  <2>2. ConveyInv'
    BY <1>10 DEF IInv, ConveyInv, vars, Misnamed, LeftOver
  <2>. QED  BY <2>1, <2>2 DEF IInv
<1>. QED  BY <1>1, <1>2, <1>3, <1>4, <1>5, <1>6, <1>7, <1>8, <1>9, <1>10 DEF Next

LEMMA Throughout == Spec => []IInv
<1>. QED  BY InitHolds, NextHolds, PTL DEF Spec

(* Whatever is published and however it is acquired, storage has an entry of  *)
(* the right kind for every property of the metaobject, and a replica knows   *)
(* the class of what a pointer leads to before it makes a child replica:      *)
(* metaObjectForType is only asked for types whose definition has come.       *)
THEOREM TypeCorrect == Spec => []TypeOK
<1>1. ASSUME IInv  PROVE TypeOK
  <2>1. /\ design \in Designs /\ Agree(design, object, api, meta) /\ PlainClass(object)
        /\ ValuesOK(object, value) /\ HostOK(host) /\ ReplicaOK(design, meta, replica)
        /\ events \in 0..MaxEvents
    BY <1>1, Holds
  <2>2. /\ design.pub \in {"repc", "derived", "plain"}
        /\ design.acq \in {"static", "dynamic", "inprocess"}
        /\ {design.base, design.crowd, design.renamed} \subseteq BOOLEAN
    BY <2>1, DesignsAreClasses
  <2>3. \A i \in DOMAIN object.props :
          value[i] \in IF i = PointerIndex THEN Pointers ELSE Values
    BY <2>1, PointerIndexIs DEF ValuesOK
  <2>4. /\ {host.attached, host.dynamic, host.sent} \subseteq BOOLEAN
        /\ host.held \in Pointers /\ host.index \in {1, 2}
    BY <2>1 DEF HostOK
  <2>5. /\ replica.valid /\ design.acq # "inprocess" => DOMAIN replica.store = DOMAIN meta.props
        /\ \A j \in DOMAIN replica.store :
             replica.store[j] \in IF meta.props[j].sort = "class" THEN {"null", "child"} ELSE Values
        /\ replica.child = NoChild \/ replica.child.name \in {"x", "y", "invalid"}
    BY <2>1 DEF ReplicaOK, ShownOK, IsClass, Definitions
  <2>. QED  BY <2>1, <2>2, <2>3, <2>4, <2>5 DEF TypeOK
<1>. QED  BY <1>1, Throughout, PTL

(* The indices by which signals, calls and writes are sent mean the same       *)
(* member in the SourceApiMap of repc, in DynamicApiMap, in a generated        *)
(* replica and in a metaobject built from a definition: what is emitted is     *)
(* heard, in order and with its arguments, what is asked is done, and nothing  *)
(* gets lost, save what marshalArgs leaves over and the push slots of enums.   *)
THEOREM IndicesAgree == Spec => []Conveyed
<1>1. ASSUME IInv  PROVE Conveyed
  <2>1. /\ Excused /\ Asked(up, wanted) /\ IsSeq(due)
        /\ Carries(meta, down, replica.store, due)
    BY <1>1, Holds DEF Sent
  <2>2. ASSUME up = <<>>  PROVE wanted = <<>>
    <3>1. IsSeq(wanted) /\ Len(wanted) = 0
      BY <2>1, <2>2, NoSeq DEF Asked, RequestsMeet
    <3>. QED  BY <3>1, EmptySeq DEF IsSeq
  <2>3. ASSUME down = <<>>  PROVE due = <<>>
    <3>1. Len(down) = 0
      BY <2>3, NoSeq
    <3>2. Len(due) = 0
      BY <2>1, <3>1 DEF Carries, Counted
    <3>. QED  BY <2>1, <3>2, EmptySeq DEF IsSeq
  <2>. QED  BY <2>1, <2>2, <2>3 DEF Conveyed, Quiet, Excused
<1>. QED  BY <1>1, Throughout, PTL

-----------------------------------------------------------------------------
(* What the program and the replica have of a property, and of the child.  *)

Knows(store, read, child, value_, fresh) ==
  [store |-> store, read |-> read, child |-> child, value |-> value_, fresh |-> fresh]
Told(mt, j, k, p, x) ==
  IF p.to = "child"
  THEN Knows(x.store, x.read, x.child, IF p.type = "change" THEN p.value ELSE x.value,
             p.type = "invoke")
  ELSE IF p.type = "init"
  THEN LET v == p.values[j] IN
       Knows(Shows(mt, j, v), Shows(mt, j, v), ~v.null, v.value, TRUE)
  ELSE IF p.type = "change" /\ p.index = j
  THEN Knows(Shows(mt, j, p.value), x.read, ~p.value.null, p.value.value, FALSE)
  ELSE IF p.type = "invoke" /\ p.index = k
  THEN Knows(x.store, x.store, x.child, x.value, TRUE)
  ELSE x

(* From x the packets of q lead to y.                                      *)
Leads(mt, j, k, q, x, y) ==
  \E f : /\ f[0] = x /\ f[Len(q)] = y
         /\ \A i \in 1..Len(q) : f[i] = Told(mt, j, k, q[i], f[i - 1])

Holding(mt, r, sn, sk, j, x) ==
  r.valid =>
    /\ x.store = r.store[j] /\ x.read = sn[j]
    /\ IsClass(mt, j) /\ x.child => /\ r.child # NoChild /\ r.child.value = x.value
                                    /\ x.fresh => sk = r.child
KidsValue(kids, v, i) == IF i \in DOMAIN kids[v] THEN kids[v][i] ELSE "invalid"
Current(a, mt, vals, kids, h, j, x) ==
  LET v == vals[a.properties[j]] IN
  /\ x.store = Shown(v) /\ x.read = Shown(v)
  /\ IsClass(mt, j) /\ v # "null" =>
       /\ h.held = v /\ x.child /\ x.fresh /\ x.value = KidsValue(kids, v, h.index)

(* A child replica has the class that the child's tables were made for.    *)
NamesOf(i) == IF i = 1 THEN {"x"} ELSE {"y", "invalid"}
Fits(mt, i, p) == Brings(mt, p) => Pointer(mt, p).def \in {NoDefinition} \cup NamesOf(i)
AllFit(mt, i, q) == \A k \in 1..Len(q) : Fits(mt, i, q[k])
Named(d, r, i) ==
  /\ i = 1 \/ d.acq = "dynamic"
  /\ r.type \in {"unknown"} \cup NamesOf(i)
  /\ r.child # NoChild => r.child.name = IF d.acq = "static" THEN "x" ELSE r.type

(* What is on its way leads the program to what the object has, *)
InSight(r, sn, sk, h, vals, kids, q) ==
  \A j \in DOMAIN meta.props : Watched(object, api, j) =>
    \E x, y : /\ Holding(meta, r, sn, sk, j, x)
              /\ Leads(meta, j, Entry(object, api, meta, j), q, x, y)
              /\ Current(api, meta, vals, kids, h, j, y)
(* and in the host's process the program reads the object.                 *)
Follows(r, sn, vals) ==
  design.acq = "inprocess" /\ r.valid /\ ~design.base =>
    \A j \in DOMAIN meta.props :
      NoteOf(object, api, j) # None => sn[j] = Shown(vals[api.properties[j]])

ViewInv ==
  /\ Announced(design, object, api, meta)
  /\ replica.valid => DOMAIN seen = DOMAIN meta.props
  /\ Named(design, replica, host.index) /\ AllFit(meta, host.index, down)
  /\ host.attached => InSight(replica, seen, seenKid, host, value, kid, down)
  /\ Follows(replica, seen, value)

(* What packets lead to. *)
LEMMA LeadsNowhere ==
  ASSUME NEW mt, NEW j, NEW k, NEW x  PROVE Leads(mt, j, k, <<>>, x, x)
<1>. DEFINE f == [i \in {0} |-> x]
<1>1. f[0] = x
  OBVIOUS
<1>. HIDE DEF f
<1>. QED  BY <1>1, NoSeq DEF Leads

LEMMA LeadsOn ==
  ASSUME NEW mt, NEW j, NEW k, NEW q, IsSeq(q), NEW x, NEW y, Leads(mt, j, k, q, x, y),
         NEW p
  PROVE  Leads(mt, j, k, Append(q, p), x, Told(mt, j, k, p, y))
<1>. DEFINE r == Append(q, p)
            n == Len(q)
            z == Told(mt, j, k, p, y)
<1>1. n \in Nat /\ Len(r) = n + 1 /\ r[n + 1] = p /\ \A i \in 1..n : r[i] = q[i]
  BY AppendSeq, IsSeqElements
<1>. HIDE DEF r, n, z
<1>2. PICK f : /\ f[0] = x /\ f[n] = y
               /\ \A i \in 1..n : f[i] = Told(mt, j, k, q[i], f[i - 1])
  BY DEF Leads, n
<1>. DEFINE g == [i \in 0..n + 1 |-> IF i = n + 1 THEN z ELSE f[i]]
<1>3. g[n + 1] = z /\ \A i \in 0..n : g[i] = f[i]
  BY <1>1
<1>. HIDE DEF g
<1>4. ASSUME NEW i \in 1..n + 1  PROVE g[i] = Told(mt, j, k, r[i], g[i - 1])
  <2>1. CASE i = n + 1
    <3>1. i - 1 = n /\ g[i - 1] = y
      BY <1>1, <1>2, <1>3, <2>1
    <3>. QED  BY <1>1, <1>3, <2>1, <3>1 DEF z
  <2>2. CASE i # n + 1
    <3>1. i \in 1..n /\ i - 1 \in 0..n /\ i \in 0..n
      BY <1>1, <2>2
    <3>2. g[i] = f[i] /\ g[i - 1] = f[i - 1] /\ r[i] = q[i]
      BY <1>1, <1>3, <3>1
    <3>. QED  BY <1>2, <3>1, <3>2
  <2>. QED  BY <2>1, <2>2
<1>5. g[0] = x
  BY <1>1, <1>2, <1>3
<1>6. Leads(mt, j, k, r, x, z)
  BY <1>1, <1>3, <1>4, <1>5 DEF Leads
<1>. QED  BY <1>6 DEF r, z

LEMMA LeadsBoth ==
  ASSUME NEW mt, NEW j, NEW k, NEW q, IsSeq(q), NEW out, IsSeq(out),
         NEW x, NEW y, Leads(mt, j, k, q, x, y), NEW z, Leads(mt, j, k, out, y, z)
  PROVE  Leads(mt, j, k, q \o out, x, z)
<1>. DEFINE r == q \o out
            n == Len(q)
            m == Len(out)
<1>1. /\ n \in Nat /\ m \in Nat /\ Len(r) = n + m
      /\ \A i \in 1..n : r[i] = q[i]
      /\ \A i \in 1..m : r[n + i] = out[i]
  BY Parts
<1>. HIDE DEF r, n, m
<1>2. PICK f : /\ f[0] = x /\ f[n] = y
               /\ \A i \in 1..n : f[i] = Told(mt, j, k, q[i], f[i - 1])
  BY DEF Leads, n
<1>3. PICK e : /\ e[0] = y /\ e[m] = z
               /\ \A i \in 1..m : e[i] = Told(mt, j, k, out[i], e[i - 1])
  BY DEF Leads, m
<1>. DEFINE g == [i \in 0..n + m |-> IF i > n THEN e[i - n] ELSE f[i]]
<1>4. /\ \A i \in 0..n : g[i] = f[i]
      /\ \A i \in 0..m : g[n + i] = e[i]
  <2>1. \A i \in 0..n : i \in 0..n + m /\ ~(i > n)
    BY <1>1
  <2>2. ASSUME NEW i \in 1..m  PROVE n + i \in 0..n + m /\ n + i > n /\ (n + i) - n = i
    BY <1>1
  <2>3. \A i \in 0..n : g[i] = f[i]
    BY <2>1
  <2>4. \A i \in 1..m : g[n + i] = e[i]
    BY <2>2
  <2>. HIDE DEF g
  <2>5. g[n + 0] = e[0]
    BY <1>1, <1>2, <1>3, <2>3
  <2>. QED  BY <1>1, <2>3, <2>4, <2>5
<1>. HIDE DEF g
<1>5. ASSUME NEW i \in 1..n + m  PROVE g[i] = Told(mt, j, k, r[i], g[i - 1])
  <2>1. CASE i \in 1..n
    <3>1. i - 1 \in 0..n /\ i \in 0..n
      BY <1>1, <2>1
    <3>. QED  BY <1>1, <1>2, <1>4, <2>1, <3>1
  <2>2. CASE i \notin 1..n
    <3>1. PICK l \in 1..m : i = n + l
      BY <1>1, <2>2, TwoParts
    <3>2. l \in 0..m /\ l - 1 \in 0..m /\ i - 1 = n + (l - 1)
      BY <1>1, <3>1
    <3>3. g[i] = e[l] /\ g[i - 1] = e[l - 1] /\ r[i] = out[l]
      BY <1>1, <1>4, <3>1, <3>2
    <3>. QED  BY <1>3, <3>1, <3>3
  <2>. QED  BY <2>1, <2>2
<1>6. g[0] = x /\ g[n + m] = z
  BY <1>1, <1>2, <1>3, <1>4
<1>7. Leads(mt, j, k, r, x, z)
  BY <1>1, <1>5, <1>6 DEF Leads
<1>. QED  BY <1>7 DEF r

LEMMA LeadsOnwards ==
  ASSUME NEW mt, NEW j, NEW k, NEW q, IsSeq(q), q # <<>>,
         NEW x, NEW y, Leads(mt, j, k, q, x, y)
  PROVE  Leads(mt, j, k, Tail(q), Told(mt, j, k, q[1], x), y)
<1>. DEFINE n == Len(q)
            t == Tail(q)
<1>1. /\ n \in Nat \ {0} /\ Len(t) = n - 1 /\ \A i \in 1..n - 1 : t[i] = q[i + 1]
  BY TailSeq
<1>. HIDE DEF n, t
<1>2. PICK f : /\ f[0] = x /\ f[n] = y
               /\ \A i \in 1..n : f[i] = Told(mt, j, k, q[i], f[i - 1])
  BY DEF Leads, n
<1>. DEFINE g == [i \in 0..n - 1 |-> f[i + 1]]
<1>3. \A i \in 0..n - 1 : g[i] = f[i + 1]
  OBVIOUS
<1>. HIDE DEF g
<1>4. g[n - 1] = y
  BY <1>1, <1>2, <1>3
<1>5. g[0] = Told(mt, j, k, q[1], x)
  <2>1. 1 \in 1..n /\ 1 - 1 = 0 /\ g[0] = f[1]
    BY <1>1, <1>3
  <2>. QED  BY <1>2, <2>1
<1>6. ASSUME NEW i \in 1..n - 1  PROVE g[i] = Told(mt, j, k, t[i], g[i - 1])
  <2>1. i + 1 \in 1..n /\ i \in 0..n - 1 /\ i - 1 \in 0..n - 1 /\ (i + 1) - 1 = i /\ (i - 1) + 1 = i
    BY <1>1
  <2>2. g[i] = f[i + 1] /\ g[i - 1] = f[i]
    BY <1>3, <2>1
  <2>. QED  BY <1>1, <1>2, <2>1, <2>2
<1>. QED  BY <1>1, <1>4, <1>5, <1>6 DEF Leads, t

(* Packets of the root's other properties and signals lead nowhere. *)
LEMMA ToldOther ==
  ASSUME NEW mt, NEW j, NEW k, NEW p, NEW x, p.to = "root",
         \/ p.type = "change" /\ p.index # j
         \/ p.type = "invoke" /\ p.index # k
  PROVE  Told(mt, j, k, p, x) = x
BY DEF Told

(* A host, whatever marshalArgs has left. *)
Hosted(h) ==
  h \in [attached : BOOLEAN, dynamic : BOOLEAN, sent : BOOLEAN, list : {h.list},
         held : Pointers, index : {1, 2}]

LEMMA PointerSent ==
  ASSUME PropertiesAgree(object, api, meta), KidsOK(kid),
         NEW h, Hosted(h), NEW vals, ValuesOK(object, vals), NEW j \in DOMAIN meta.props
  PROVE  LET p == SerializeProperty(h, j, vals)
             v == vals[api.properties[j]]
         IN
         /\ Hosted(p.host) /\ p.host.attached = h.attached /\ p.host.index = h.index
         /\ Shows(meta, j, p.value) = Shown(v)
         /\ ~IsClass(meta, j) => p.host.held = h.held
         /\ IsClass(meta, j) =>
              /\ p.host.held = v /\ p.value.null = (v = "null")
              /\ v # "null" => p.value.value = KidsValue(kid, v, h.index)
              /\ p.value.def \in {NoDefinition} \cup NamesOf(h.index)
<1>. DEFINE p == SerializeProperty(h, j, vals)
            i == api.properties[j]
            v == vals[i]
            defines == h.dynamic /\ v # "null" /\ ~h.sent
<1>1. i \in DOMAIN object.props /\ meta.props[j].sort = object.props[i].sort
  BY DEF PropertiesAgree
<1>2. v \in IF object.props[i].sort = "class" THEN Pointers ELSE Values
  BY <1>1 DEF ValuesOK
<1>3. CASE object.props[i].sort # "class"
  <2>1. p = [host |-> h, value |-> v]
    BY <1>3 DEF SerializeProperty
  <2>2. ~IsClass(meta, j) /\ v \in Values
    BY <1>1, <1>2, <1>3 DEF IsClass
  <2>3. Shown(v) = v
    BY <2>2 DEF Shown, Values
  <2>. HIDE DEF p, v
  <2>. QED  BY <2>1, <2>2, <2>3 DEF Shows, p, v
<1>4. CASE object.props[i].sort = "class"
  <2>. DEFINE host2 == [h EXCEPT !.held = v, !.sent = @ \/ defines]
              value2 == [null  |-> v = "null",
                         def   |-> IF defines THEN KidAt(v, h.index).name ELSE NoDefinition,
                         value |-> IF v = "null" THEN "none" ELSE KidAt(v, h.index).value]
  <2>1. p = [host |-> host2, value |-> value2]
    BY <1>4, Zenon DEF SerializeProperty
  <2>2. IsClass(meta, j) /\ v \in Pointers
    BY <1>1, <1>2, <1>4 DEF IsClass
  <2>3. v # "null" => /\ KidAt(v, h.index).name \in NamesOf(h.index)
                      /\ KidAt(v, h.index).value = KidsValue(kid, v, h.index)
    <3>. SUFFICES ASSUME v \in {"t", "u"}
                  PROVE  /\ KidAt(v, h.index).name \in NamesOf(h.index)
                         /\ KidAt(v, h.index).value = KidsValue(kid, v, h.index)
      BY <2>2 DEF Pointers
    <3>. HIDE DEF v
    <3>1. 1 \in DOMAIN kid[v] /\ h.index \in {1, 2}
      BY DEF KidsOK, Hosted
    <3>2. <<"x", "y">>[1] = "x" /\ <<"x", "y">>[2] = "y"
      OBVIOUS
    <3>. QED  BY <3>1, <3>2 DEF KidAt, NamesOf, KidsValue
  <2>4. Shown(v) = IF v = "null" THEN "null" ELSE "child"
    BY <2>2 DEF Shown, Pointers
  <2>. HIDE DEF v
  <2>5. defines \in BOOLEAN
    OBVIOUS
  <2>6. defines => v # "null"
    OBVIOUS
  <2>. HIDE DEF defines
  <2>7. /\ value2.null = (v = "null")
        /\ value2.def = IF defines THEN KidAt(v, h.index).name ELSE NoDefinition
        /\ v # "null" => value2.value = KidAt(v, h.index).value
    OBVIOUS
  <2>8. /\ Hosted(host2) /\ host2.attached = h.attached /\ host2.index = h.index
        /\ host2.held = v
    BY <2>2, <2>5 DEF Hosted
  <2>. HIDE DEF host2, value2, p
  <2>9. p.host = host2 /\ p.value = value2
    BY <2>1 DEF p
  <2>10. Shows(meta, j, value2) = Shown(v)
    BY <2>2, <2>4, <2>7 DEF Shows
  <2>. QED  BY <2>2, <2>3, <2>6, <2>7, <2>8, <2>9, <2>10 DEF p, v
<1>. QED  BY <1>3, <1>4

LEMMA FitsMore ==
  ASSUME NEW mt, NEW i, NEW q, IsSeq(q), AllFit(mt, i, q), NEW p, Fits(mt, i, p)
  PROVE  AllFit(mt, i, Append(q, p))
<1>1. /\ Len(Append(q, p)) = Len(q) + 1 /\ Len(q) \in Nat /\ Append(q, p)[Len(q) + 1] = p
      /\ \A k \in 1..Len(q) : Append(q, p)[k] = q[k]
  BY AppendSeq, IsSeqElements
<1>2. \A k \in 1..Len(q) + 1 : k \in 1..Len(q) \/ k = Len(q) + 1
  BY <1>1
<1>. QED  BY <1>1, <1>2 DEF AllFit

LEMMA FitsBoth ==
  ASSUME NEW mt, NEW i, NEW q, IsSeq(q), AllFit(mt, i, q),
         NEW out, IsSeq(out), AllFit(mt, i, out)
  PROVE  AllFit(mt, i, q \o out)
<1>1. /\ Len(q \o out) = Len(q) + Len(out) /\ Len(q) \in Nat /\ Len(out) \in Nat
      /\ \A k \in 1..Len(q) : (q \o out)[k] = q[k]
      /\ \A k \in 1..Len(out) : (q \o out)[Len(q) + k] = out[k]
  BY Parts
<1>2. \A k \in 1..Len(q) + Len(out) : k \in 1..Len(q) \/ \E l \in 1..Len(out) : k = Len(q) + l
  BY <1>1, TwoParts
<1>. QED  BY <1>1, <1>2 DEF AllFit

(* After t of the entries that are connected to a signal, those of them that  *)
(* a program watches lead to what the object has.                             *)
Informs(vals, conn, t, s, j) ==
  \A y : \E z :
    /\ Leads(meta, j, Entry(object, api, meta, j), s.out, y, z)
    /\ IF \E u \in 1..t : conn[u] = Entry(object, api, meta, j)
       THEN Current(api, meta, vals, kid, s.host, j, z)
       ELSE z = y /\ (IsClass(meta, j) => s.host.held = host.held)
Informed(vals, conn, t, s) ==
  /\ Hosted(s.host) /\ s.host.attached = host.attached /\ s.host.index = host.index
  /\ IsSeq(s.out) /\ AllFit(meta, host.index, s.out)
  /\ \A j \in DOMAIN meta.props : Watched(object, api, j) => Informs(vals, conn, t, s, j)

LEMMA InformTurn ==
  ASSUME Agree(design, object, api, meta), Announced(design, object, api, meta), KidsOK(kid),
         NEW vals, ValuesOK(object, vals), NEW args, NEW conn, NEW t \in Nat,
         conn[t + 1] \in DOMAIN api.signals,
         NEW s, Informed(vals, conn, t, s)
  PROVE  Informed(vals, conn, t + 1, HandleMetaCall(s, conn[t + 1], vals, args))
<1>. DEFINE k == conn[t + 1]
            signal == object.methods[api.signals[k]]
            raw == IF k \in DOMAIN api.raw THEN api.raw[k] ELSE 0
            list == Marshal(s.host.list, args, IF signal.arity = 1 /\ signal.pointer THEN 0
                                               ELSE signal.arity)
            invoke == [type |-> "invoke", to |-> "root", index |-> k, args |-> list,
                       property |-> raw]
            e == HandleMetaCall(s, k, vals, args)
<1>1. /\ Hosted(s.host) /\ s.host.attached = host.attached /\ s.host.index = host.index
      /\ IsSeq(s.out) /\ AllFit(meta, host.index, s.out)
      /\ \A j \in DOMAIN meta.props : Watched(object, api, j) => Informs(vals, conn, t, s, j)
  BY DEF Informed
<1>2. /\ 0 \notin DOMAIN meta.props
      /\ k \in DOMAIN api.raw => api.raw[k] \in DOMAIN meta.props
  <2>1. PICK n \in Nat : DOMAIN meta.props = 1..n
    BY DEF Agree, PropertiesAgree
  <2>2. 0 \notin 1..n
    OBVIOUS
  <2>3. k \in DOMAIN api.raw => api.raw[k] \in DOMAIN meta.props
    BY DEF Agree, RawsAgree
  <2>. QED  BY <2>1, <2>2, <2>3
<1>3. raw \in {0} \cup DOMAIN meta.props /\ (k \in DOMAIN api.raw <=> raw # 0)
      /\ (raw # 0 => raw = api.raw[k])
  BY <1>2
<1>4. e = IF raw = 0
          THEN [host |-> [s.host EXCEPT !.list = list], out |-> Append(s.out, invoke)]
          ELSE LET p == SerializeProperty(s.host, raw, vals)
               IN [host |-> [p.host EXCEPT !.list = list],
                   out  |-> s.out \o <<[type |-> "change", to |-> "root", index |-> raw,
                                        value |-> p.value], invoke>>]
  BY DEF HandleMetaCall
<1>5. invoke.to = "root" /\ invoke.type = "invoke" /\ invoke.index = k
  OBVIOUS
<1>6. \A j \in DOMAIN meta.props : Watched(object, api, j) =>
        LET entry == Entry(object, api, meta, j) IN
        /\ entry \in DOMAIN api.raw /\ api.raw[entry] = j
        /\ \A l \in DOMAIN api.raw : api.raw[l] = j => l = entry
  BY EntryIs
<1>. HIDE DEF signal, raw, list, e, invoke
<1>7. Fits(meta, host.index, invoke)
  BY <1>5 DEF Fits, Brings
<1>8. \A u \in 1..t + 1 : u \in 1..t \/ u = t + 1
  OBVIOUS
<1>9. ASSUME raw = 0  PROVE Informed(vals, conn, t + 1, e)
  <2>1. e.host = [s.host EXCEPT !.list = list] /\ e.out = Append(s.out, invoke)
    BY <1>4, <1>9
  <2>2. /\ Hosted(e.host) /\ e.host.attached = s.host.attached /\ e.host.index = s.host.index
        /\ e.host.held = s.host.held
    BY <1>1, <2>1 DEF Hosted
  <2>3. IsSeq(e.out) /\ AllFit(meta, host.index, e.out)
    BY <1>1, <1>7, <2>1, AppendSeq, FitsMore
  <2>4. ASSUME NEW j \in DOMAIN meta.props, Watched(object, api, j)
        PROVE  Informs(vals, conn, t + 1, e, j)
    <3>. DEFINE entry == Entry(object, api, meta, j)
    <3>1. entry # k
      BY <1>3, <1>6, <1>9, <2>4
    <3>. HIDE DEF entry
    <3>. SUFFICES ASSUME NEW y
                  PROVE  \E z : /\ Leads(meta, j, entry, e.out, y, z)
                                /\ IF \E u \in 1..t + 1 : conn[u] = entry
                                   THEN Current(api, meta, vals, kid, e.host, j, z)
                                   ELSE z = y /\ (IsClass(meta, j) => e.host.held = host.held)
      BY DEF Informs, entry
    <3>2. PICK z : /\ Leads(meta, j, entry, s.out, y, z)
                   /\ IF \E u \in 1..t : conn[u] = entry
                      THEN Current(api, meta, vals, kid, s.host, j, z)
                      ELSE z = y /\ (IsClass(meta, j) => s.host.held = host.held)
      BY <1>1, <2>4 DEF Informs, entry
    <3>3. Leads(meta, j, entry, e.out, y, z)
      <4>1. Told(meta, j, entry, invoke, z) = z
        BY <1>5, <3>1, ToldOther
      <4>. QED  BY <1>1, <2>1, <3>2, <4>1, LeadsOn
    <3>4. (\E u \in 1..t + 1 : conn[u] = entry) <=> (\E u \in 1..t : conn[u] = entry)
      BY <1>8, <3>1 DEF k
    <3>5. Current(api, meta, vals, kid, s.host, j, z) => Current(api, meta, vals, kid, e.host, j, z)
      BY <2>2 DEF Current
    <3>. QED  BY <2>2, <3>2, <3>3, <3>4, <3>5
  <2>. QED  BY <1>1, <2>2, <2>3, <2>4 DEF Informed
<1>10. ASSUME raw # 0  PROVE Informed(vals, conn, t + 1, e)
  <2>. DEFINE p == SerializeProperty(s.host, raw, vals)
              v == vals[api.properties[raw]]
              change == [type |-> "change", to |-> "root", index |-> raw, value |-> p.value]
              mid == Append(s.out, change)
              out == Append(mid, invoke)
  <2>1. raw \in DOMAIN meta.props /\ k \in DOMAIN api.raw /\ api.raw[k] = raw
    BY <1>3, <1>10
  <2>2. /\ Hosted(p.host) /\ p.host.attached = s.host.attached /\ p.host.index = s.host.index
        /\ Shows(meta, raw, p.value) = Shown(v)
        /\ ~IsClass(meta, raw) => p.host.held = s.host.held
        /\ IsClass(meta, raw) =>
             /\ p.host.held = v /\ p.value.null = (v = "null")
             /\ v # "null" => p.value.value = KidsValue(kid, v, s.host.index)
             /\ p.value.def \in {NoDefinition} \cup NamesOf(s.host.index)
    BY <1>1, <2>1, PointerSent DEF Agree
  <2>3. e.host = [p.host EXCEPT !.list = list] /\ e.out = s.out \o <<change, invoke>>
    BY <1>4, <1>10
  <2>. HIDE DEF p
  <2>4. /\ Hosted(e.host) /\ e.host.attached = host.attached /\ e.host.index = host.index
        /\ e.host.held = p.host.held
    BY <1>1, <2>2, <2>3 DEF Hosted
  <2>5. /\ change.to = "root" /\ change.type = "change" /\ change.index = raw
        /\ change.value = p.value
    OBVIOUS
  <2>. HIDE DEF change
  <2>6. Fits(meta, host.index, change)
    BY <1>1, <2>2, <2>5 DEF Fits, Brings, Pointer
  <2>7. e.out = out
    BY <1>1, <2>3 DEF IsSeq
  <2>8. IsSeq(mid) /\ AllFit(meta, host.index, mid)
    BY <1>1, <2>6, AppendSeq, FitsMore
  <2>9. IsSeq(out) /\ AllFit(meta, host.index, out)
    BY <1>7, <2>8, AppendSeq, FitsMore
  <2>10. ASSUME NEW j \in DOMAIN meta.props, Watched(object, api, j)
         PROVE  Informs(vals, conn, t + 1, e, j)
    <3>. DEFINE entry == Entry(object, api, meta, j)
    <3>1. entry = k <=> raw = j
      BY <1>6, <2>1, <2>10
    <3>. HIDE DEF entry
    <3>. SUFFICES ASSUME NEW y
                  PROVE  \E z : /\ Leads(meta, j, entry, e.out, y, z)
                                /\ IF \E u \in 1..t + 1 : conn[u] = entry
                                   THEN Current(api, meta, vals, kid, e.host, j, z)
                                   ELSE z = y /\ (IsClass(meta, j) => e.host.held = host.held)
      BY DEF Informs, entry
    <3>2. PICK z : /\ Leads(meta, j, entry, s.out, y, z)
                   /\ IF \E u \in 1..t : conn[u] = entry
                      THEN Current(api, meta, vals, kid, s.host, j, z)
                      ELSE z = y /\ (IsClass(meta, j) => s.host.held = host.held)
      BY <1>1, <2>10 DEF Informs, entry
    <3>. DEFINE z1 == Told(meta, j, entry, change, z)
                z2 == Told(meta, j, entry, invoke, z1)
    <3>3. Leads(meta, j, entry, mid, y, z1)
      BY <1>1, <3>2, LeadsOn
    <3>4. Leads(meta, j, entry, out, y, z2)
      <4>. HIDE DEF mid, z1
      <4>. QED  BY <2>8, <3>3, LeadsOn
    <3>5. Leads(meta, j, entry, e.out, y, z2)
      BY <2>7, <3>4
    <3>6. CASE entry = k
      <4>1. raw = j
        BY <3>1, <3>6
      <4>2. /\ z1.store = Shows(meta, j, p.value)
            /\ z1.child = ~p.value.null /\ z1.value = p.value.value
        <5>1. change.to = "root" /\ change.type = "change" /\ change.index = j
          BY <2>5, <4>1
        <5>. HIDE DEF z2, mid, out
        <5>. QED  BY <2>5, <5>1 DEF Told, Knows
      <4>. HIDE DEF z1
      <4>3. /\ z2.store = z1.store /\ z2.read = z1.store /\ z2.child = z1.child
            /\ z2.value = z1.value /\ z2.fresh = TRUE
        <5>1. invoke.to = "root" /\ invoke.type = "invoke" /\ invoke.index = entry
          BY <1>5, <3>6
        <5>. HIDE DEF mid, out
        <5>. QED  BY <5>1 DEF Told, Knows
      <4>. HIDE DEF z2
      <4>4. Current(api, meta, vals, kid, e.host, j, z2)
        BY <1>1, <2>2, <2>4, <4>1, <4>2, <4>3 DEF Current
      <4>5. t + 1 \in 1..t + 1 /\ conn[t + 1] = entry
        BY <3>6 DEF k
      <4>. QED  BY <3>5, <4>4, <4>5
    <3>7. CASE entry # k
      <4>1. raw # j
        BY <3>1, <3>7
      <4>2. z1 = z
        <5>1. change.to = "root" /\ change.type = "change" /\ change.index # j
          BY <2>5, <4>1
        <5>. HIDE DEF z2, mid, out
        <5>. QED  BY <5>1 DEF Told
      <4>3. z2 = z
        <5>. HIDE DEF z1
        <5>. QED  BY <1>5, <3>7, <4>2, ToldOther
      <4>. HIDE DEF z1, z2
      <4>4. (\E u \in 1..t + 1 : conn[u] = entry) <=> (\E u \in 1..t : conn[u] = entry)
        BY <1>8, <3>7 DEF k
      <4>5. IsClass(meta, j) => e.host.held = s.host.held
        <5>1. IsClass(meta, j) => ~IsClass(meta, raw)
          BY <2>1, <4>1 DEF Agree, PropertiesAgree, IsClass
        <5>. QED  BY <2>2, <2>4, <5>1
      <4>6. Current(api, meta, vals, kid, s.host, j, z) => Current(api, meta, vals, kid, e.host, j, z)
        BY <1>1, <2>4, <4>5 DEF Current
      <4>. QED  BY <3>2, <3>5, <4>3, <4>4, <4>5, <4>6
    <3>. QED  BY <3>6, <3>7
  <2>. QED  BY <2>4, <2>7, <2>9, <2>10 DEF Informed
<1>. QED  BY <1>9, <1>10 DEF e, k

(* All the entries are, so whoever watches a property of the signal is told.  *)
Informative(m, vals, e) ==
  /\ e.host.attached = host.attached /\ e.host.index = host.index
  /\ IsSeq(e.out) /\ AllFit(meta, host.index, e.out)
  /\ \A j \in DOMAIN meta.props : Watched(object, api, j) => \A y : \E z :
       /\ Leads(meta, j, Entry(object, api, meta, j), e.out, y, z)
       /\ IF NoteOf(object, api, j) = object.methods[m].name
          THEN Current(api, meta, vals, kid, e.host, j, z)
          ELSE z = y /\ (IsClass(meta, j) => e.host.held = host.held)

LEMMA EmissionInforms ==
  ASSUME Agree(design, object, api, meta), Announced(design, object, api, meta),
         KidsOK(kid), HostOK(host),
         NEW m \in DOMAIN object.methods, object.methods[m].sort = "signal",
         ~object.methods[m].cloned, m > MethodOffset(design),
         NEW vals, ValuesOK(object, vals), NEW args
  PROVE  Informative(m, vals, EmissionOf([host |-> host, out |-> <<>>], Connected(m), vals, args))
<1>. DEFINE base == [host |-> host, out |-> <<>>]
            conn == Connected(m)
            arg == [vals |-> vals, args |-> args]
            e == EmissionOf(base, conn, vals, args)
<1>1. PICK n \in Nat \ {0} :
        /\ DOMAIN conn = 1..n
        /\ \A t \in 1..n : conn[t] \in DOMAIN api.signals /\ api.signals[conn[t]] = m
        /\ \A k \in DOMAIN api.signals : api.signals[k] = m => \E t \in 1..n : conn[t] = k
  <2>1. \E n \in Nat \ {0} :
          /\ DOMAIN conn = 1..n
          /\ \A t \in 1..n : /\ conn[t] \in DOMAIN api.signals /\ api.signals[conn[t]] = m
                             /\ \A u \in 1..t - 1 : conn[u] < conn[t]
          /\ \A k \in DOMAIN api.signals : api.signals[k] = m => \E t \in 1..n : conn[t] = k
    BY ConnectedTo
  <2>. HIDE DEF conn
  <2>. QED  BY <2>1
<1>. HIDE DEF conn
<1>2. PICK g : Folds("emission", g, base, conn, arg, n) /\ e = g[1..n]
  BY <1>1, EmissionFolds
<1>. HIDE DEF base, e
<1>3. /\ g[1..0] = base
      /\ \A t \in 0..n - 1 : g[1..t + 1] = Turn("emission", g[1..t], conn[t + 1], arg)
  BY <1>1, <1>2, FoldStep
<1>4. ASSUME NEW t \in 0..n - 1
      PROVE  g[1..t + 1] = HandleMetaCall(g[1..t], conn[t + 1], vals, args)
  <2>1. arg.vals = vals /\ arg.args = args
    OBVIOUS
  <2>. HIDE DEF arg
  <2>. QED  BY <1>3, <2>1 DEF Turn
<1>. HIDE DEF arg
<1>. DEFINE T == {t \in Nat : t <= n => Informed(vals, conn, t, g[1..t])}
<1>5. 0 \in T
  <2>1. base.host = host /\ base.out = <<>>
    BY DEF base
  <2>2. Hosted(host)
    BY DEF HostOK, Hosted
  <2>3. ASSUME NEW j  PROVE Informs(vals, conn, 0, base, j)
    <3>1. \A u \in 1..0 : FALSE
      OBVIOUS
    <3>. QED  BY <2>1, <3>1, LeadsNowhere DEF Informs
  <2>4. Informed(vals, conn, 0, base)
    BY <2>1, <2>2, <2>3, NoSeq DEF Informed, AllFit
  <2>. QED  BY <1>3, <2>4
<1>6. ASSUME NEW t \in Nat, t \in T  PROVE t + 1 \in T
  <2>. SUFFICES ASSUME t + 1 <= n  PROVE Informed(vals, conn, t + 1, g[1..t + 1])
    OBVIOUS
  <2>1. t \in 0..n - 1 /\ t + 1 \in 1..n /\ t <= n
    BY <1>1
  <2>2. Informed(vals, conn, t, g[1..t])
    BY <1>6, <2>1
  <2>3. conn[t + 1] \in DOMAIN api.signals
    BY <1>1, <2>1
  <2>4. Informed(vals, conn, t + 1, HandleMetaCall(g[1..t], conn[t + 1], vals, args))
    BY <2>2, <2>3, InformTurn
  <2>. QED  BY <1>4, <2>1, <2>4
<1>. HIDE DEF T
<1>7. n \in T
  BY <1>1, <1>5, <1>6, SetInduction
<1>8. Informed(vals, conn, n, e)
  BY <1>1, <1>2, <1>7 DEF T
<1>9. ASSUME NEW j \in DOMAIN meta.props, Watched(object, api, j), NEW y
      PROVE  \E z : /\ Leads(meta, j, Entry(object, api, meta, j), e.out, y, z)
                    /\ IF NoteOf(object, api, j) = object.methods[m].name
                       THEN Current(api, meta, vals, kid, e.host, j, z)
                       ELSE z = y /\ (IsClass(meta, j) => e.host.held = host.held)
  <2>. DEFINE entry == Entry(object, api, meta, j)
  <2>1. /\ entry \in DOMAIN api.signals
        /\ NoteOf(object, api, j) = object.methods[api.signals[entry]].name
    BY <1>9, EntryIs DEF NameOf
  <2>2. api.signals[entry] \in DOMAIN object.methods /\ Distinct(object.methods)
    BY <2>1, PlainIs DEF Agree, SignalsAgree
  <2>. HIDE DEF entry
  <2>3. NoteOf(object, api, j) = object.methods[m].name <=> \E u \in 1..n : conn[u] = entry
    <3>1. NoteOf(object, api, j) = object.methods[m].name <=> api.signals[entry] = m
      BY <2>1, <2>2 DEF Distinct
    <3>. QED  BY <1>1, <2>1, <3>1
  <2>4. Informs(vals, conn, n, e, j)
    BY <1>8, <1>9 DEF Informed
  <2>. QED  BY <2>3, <2>4 DEF Informs, entry
<1>10. Informative(m, vals, e)
  BY <1>8, <1>9 DEF Informed, Informative
<1>. QED  BY <1>10 DEF e, base, conn

(* What an emission says keeps what is on its way leading there. *)
Unnoticed(m, vals) ==
  \A j \in DOMAIN meta.props :
    NoteOf(object, api, j) \notin {None, object.methods[m].name} =>
      vals[api.properties[j]] = value[api.properties[j]]

LEMMA EmissionViewed ==
  ASSUME IInv, ViewInv,
         NEW m \in DOMAIN object.methods, object.methods[m].sort = "signal",
         ~object.methods[m].cloned, m > MethodOffset(design),
         NEW args, ValuesOK(object, value'), Unnoticed(m, value'), Emits(m, value', args),
         UNCHANGED <<design, object, kid, api, meta, replica, seenKid>>
  PROVE  ViewInv'
<1>1. /\ Agree(design, object, api, meta) /\ KidsOK(kid) /\ HostOK(host)
      /\ Connecting(design, host, replica, down) /\ PacketsOK(api, meta, down)
  BY Holds DEF Sent
<1>2. /\ Announced(design, object, api, meta)
      /\ replica.valid => DOMAIN seen = DOMAIN meta.props
      /\ Named(design, replica, host.index) /\ AllFit(meta, host.index, down)
      /\ host.attached => InSight(replica, seen, seenKid, host, value, kid, down)
      /\ Follows(replica, seen, value)
  BY DEF ViewInv
<1>3. CASE design.acq = "inprocess"
  <2>1. seen' = Relayed(m, value') /\ UNCHANGED <<host, down, due>>
    BY <1>3 DEF Emits
  <2>2. DOMAIN seen' = DOMAIN seen
    BY <2>1 DEF Relayed
  <2>3. ~host.attached
    BY <1>1, <1>3 DEF Connecting
  <2>4. Follows(replica, seen', value')
    <3>. SUFFICES ASSUME replica.valid, ~design.base,
                         NEW j \in DOMAIN meta.props, NoteOf(object, api, j) # None
                  PROVE  seen'[j] = Shown(value'[api.properties[j]])
      BY DEF Follows
    <3>1. api.properties[j] = j /\ meta.props[j].notify = NoteOf(object, api, j)
      BY <1>2, <1>3 DEF Announced, NotesAgree
    <3>2. seen'[j] = IF NoteOf(object, api, j) = object.methods[m].name
                     THEN Shown(value'[j]) ELSE seen[j]
      BY <1>2, <2>1, <3>1 DEF Relayed, InProcessProperty
    <3>3. seen[j] = Shown(value[api.properties[j]])
      BY <1>2, <1>3 DEF Follows
    <3>4. NoteOf(object, api, j) # object.methods[m].name =>
            value'[api.properties[j]] = value[api.properties[j]]
      BY DEF Unnoticed
    <3>. QED  BY <3>1, <3>2, <3>3, <3>4
  <2>. QED  BY <1>2, <2>1, <2>2, <2>3, <2>4 DEF ViewInv, Follows
<1>4. CASE design.acq # "inprocess"
  <2>. DEFINE e == EmissionOf([host |-> host, out |-> <<>>], Connected(m), value', args)
  <2>1. /\ host' = IF design.crowd \/ host.attached THEN e.host ELSE host
        /\ down' = IF host.attached THEN down \o e.out ELSE down
        /\ UNCHANGED seen
    BY <1>4 DEF Emits, EmissionOf
  <2>2. Informative(m, value', e)
    BY <1>1, <1>2, EmissionInforms
  <2>. HIDE DEF e
  <2>3. /\ e.host.attached = host.attached /\ e.host.index = host.index
        /\ IsSeq(e.out) /\ AllFit(meta, host.index, e.out)
        /\ \A j \in DOMAIN meta.props : Watched(object, api, j) => \A y : \E z :
             /\ Leads(meta, j, Entry(object, api, meta, j), e.out, y, z)
             /\ IF NoteOf(object, api, j) = object.methods[m].name
                THEN Current(api, meta, value', kid, e.host, j, z)
                ELSE z = y /\ (IsClass(meta, j) => e.host.held = host.held)
    BY <2>2 DEF Informative
  <2>4. IsSeq(down)
    BY <1>1 DEF PacketsOK
  <2>5. host'.index = host.index /\ host'.attached = host.attached
    BY <2>1, <2>3
  <2>6. AllFit(meta, host.index, down')
    <3>1. AllFit(meta, host.index, down \o e.out)
      BY <1>2, <2>3, <2>4, FitsBoth
    <3>. QED  BY <1>2, <2>1, <3>1
  <2>7. ASSUME host.attached  PROVE InSight(replica, seen, seenKid, host', value', kid, down')
    <3>. SUFFICES ASSUME NEW j \in DOMAIN meta.props, Watched(object, api, j)
                  PROVE  \E x, z : /\ Holding(meta, replica, seen, seenKid, j, x)
                                   /\ Leads(meta, j, Entry(object, api, meta, j), down', x, z)
                                   /\ Current(api, meta, value', kid, host', j, z)
      BY DEF InSight
    <3>. DEFINE entry == Entry(object, api, meta, j)
    <3>. HIDE DEF entry
    <3>1. PICK x, y : /\ Holding(meta, replica, seen, seenKid, j, x)
                      /\ Leads(meta, j, entry, down, x, y)
                      /\ Current(api, meta, value, kid, host, j, y)
      BY <1>2, <2>7 DEF InSight, entry
    <3>2. PICK z : /\ Leads(meta, j, entry, e.out, y, z)
                   /\ IF NoteOf(object, api, j) = object.methods[m].name
                      THEN Current(api, meta, value', kid, e.host, j, z)
                      ELSE z = y /\ (IsClass(meta, j) => e.host.held = host.held)
      BY <2>3 DEF entry
    <3>3. Leads(meta, j, entry, down \o e.out, x, z)
      BY <2>3, <2>4, <3>1, <3>2, LeadsBoth
    <3>4. host' = e.host /\ down' = down \o e.out
      BY <2>1, <2>7
    <3>5. Current(api, meta, value', kid, e.host, j, z)
      <4>1. CASE NoteOf(object, api, j) = object.methods[m].name
        BY <3>2, <4>1
      <4>2. CASE NoteOf(object, api, j) # object.methods[m].name
        <5>1. value'[api.properties[j]] = value[api.properties[j]]
          BY <4>2 DEF Unnoticed, Watched
        <5>. QED  BY <2>3, <3>1, <3>2, <4>2, <5>1 DEF Current
      <4>. QED  BY <4>1, <4>2
    <3>. QED  BY <3>1, <3>3, <3>4, <3>5 DEF entry
  <2>8. Follows(replica, seen, value')
    BY <1>4 DEF Follows
  <2>. QED  BY <1>2, <2>1, <2>5, <2>6, <2>7, <2>8 DEF ViewInv, Follows, InSight
<1>. QED  BY <1>3, <1>4

LEMMA SettingViewed ==
  ASSUME IInv, ViewInv, NEW i \in DOMAIN object.props, NEW v, SetTo(i, v),
         ValuesOK(object, value'),
         UNCHANGED <<design, object, kid, api, meta, replica, seenKid>>
  PROVE  ViewInv'
<1>. DEFINE property == object.props[i]
            m == IndexOf(object.methods, property.notify)
            args == IF object.methods[m].arity = 0 THEN <<>> ELSE <<v>>
<1>1. Agree(design, object, api, meta) /\ PlainClass(object) /\ ValuesOK(object, value)
  BY Holds
<1>2. value' = [value EXCEPT ![i] = v]
  BY DEF SetTo
<1>3. \A l \in DOMAIN object.props : l # i => value'[l] = value[l]
  BY <1>1, <1>2 DEF ValuesOK
<1>4. \/ (v = value[i] \/ m = 0) /\ UNCHANGED <<host, down, due, seen>>
      \/ m # 0 /\ Emits(m, value', args)
  BY DEF SetTo
<1>5. DOMAIN object.methods = 1..Len(object.methods) /\ Len(object.methods) \in Nat
  BY <1>1, PlainIs
<1>6. /\ m \in 0..Len(object.methods)
      /\ m # 0 => m \in DOMAIN object.methods /\ object.methods[m].name = property.notify
      /\ m = 0 => property.notify = None
  <2>1. /\ m \in 0..Len(object.methods)
        /\ m # 0 => object.methods[m].name = property.notify
        /\ m = 0 => \A l \in 1..Len(object.methods) : object.methods[l].name # property.notify
    BY <1>5, IndexOfNone
  <2>. HIDE DEF m
  <2>2. property.notify # None =>
          \E l \in DOMAIN object.methods : object.methods[l].name = property.notify
    BY <1>1 DEF PlainClass
  <2>. QED  BY <1>5, <2>1, <2>2
<1>. HIDE DEF m, args
<1>7. \A j \in DOMAIN meta.props : NoteOf(object, api, j) # property.notify =>
        value'[api.properties[j]] = value[api.properties[j]]
  BY <1>1, <1>3 DEF Agree, PropertiesAgree, NoteOf
<1>8. CASE (v = value[i] \/ m = 0) /\ UNCHANGED <<host, down, due, seen>>
  <2>1. \A j \in DOMAIN meta.props : NoteOf(object, api, j) # None =>
          value'[api.properties[j]] = value[api.properties[j]]
    <3>1. CASE v = value[i]
      BY <1>1, <1>2, <3>1 DEF ValuesOK
    <3>2. CASE m = 0
      BY <1>6, <1>7, <3>2
    <3>. QED  BY <1>8, <3>1, <3>2
  <2>2. host.attached => InSight(replica, seen, seenKid, host, value', kid, down)
    <3>. SUFFICES ASSUME host.attached, NEW j \in DOMAIN meta.props, Watched(object, api, j)
                  PROVE  \E x, y : /\ Holding(meta, replica, seen, seenKid, j, x)
                                   /\ Leads(meta, j, Entry(object, api, meta, j), down, x, y)
                                   /\ Current(api, meta, value', kid, host, j, y)
      BY DEF InSight
    <3>1. PICK x, y : /\ Holding(meta, replica, seen, seenKid, j, x)
                      /\ Leads(meta, j, Entry(object, api, meta, j), down, x, y)
                      /\ Current(api, meta, value, kid, host, j, y)
      BY DEF ViewInv, InSight
    <3>2. Current(api, meta, value', kid, host, j, y)
      BY <2>1, <3>1 DEF Current, Watched
    <3>. QED  BY <3>1, <3>2
  <2>3. Follows(replica, seen, value')
    BY <2>1 DEF ViewInv, Follows
  <2>. QED  BY <1>8, <2>2, <2>3 DEF ViewInv, Follows, InSight
<1>9. CASE m # 0 /\ Emits(m, value', args)
  <2>1. m \in DOMAIN object.methods /\ object.methods[m].name = property.notify
    BY <1>6, <1>9
  <2>2. object.methods[m].sort = "signal" /\ ~object.methods[m].cloned
    BY <1>1, <2>1, NotifierIs
  <2>3. m > MethodOffset(design)
    BY <1>1, <2>1 DEF Agree, NotifiersAreOwn
  <2>4. Unnoticed(m, value')
    BY <1>7, <2>1 DEF Unnoticed
  <2>. QED  BY <1>9, <2>1, <2>2, <2>3, <2>4, EmissionViewed
<1>. QED  BY <1>4, <1>8, <1>9

(* A request sets a property, or nothing. *)
LEMMA PerformingViewed ==
  ASSUME IInv, ViewInv, NEW p, NEW e, Meets(object, api, p, e), Perform(p, e),
         ValuesOK(object, value'),
         UNCHANGED <<design, object, kid, api, meta, replica, seenKid>>
  PROVE  ViewInv'
<1>. DEFINE table == IF p.type = "invoke" THEN api.methods ELSE api.properties
            index == IF p.index \in DOMAIN table THEN table[p.index] ELSE 0
            members == IF p.type = "invoke" THEN object.methods ELSE object.props
            name == NameIn(members, index)
            target == IF p.type = "write" THEN index
                      ELSE IF name[1] = "push"
                      THEN IndexOf(object.props, <<"property", name[2]>>) ELSE 0
            sets == target # 0 /\ object.props[target].write
<1>1. IF sets THEN SetTo(target, p.args[1]) ELSE UNCHANGED <<value, host, down, due, seen>>
  BY DEF Perform
<1>2. DOMAIN object.props = 1..Len(object.props) /\ Len(object.props) \in Nat
  <2>1. PlainClass(object)
    BY Holds
  <2>. QED  BY <2>1, PlainIs
<1>3. target # 0 => target \in DOMAIN object.props
  <2>1. CASE p.type = "write"
    <3>1. /\ p.index \in DOMAIN api.properties
          /\ api.properties[p.index] \in DOMAIN object.props
      BY <2>1 DEF Meets
    <3>2. table = api.properties
      BY <2>1
    <3>3. target = api.properties[p.index]
      BY <2>1, <3>1, <3>2
    <3>. QED  BY <3>1, <3>3
  <2>2. CASE p.type # "write"
    <3>. HIDE DEF name
    <3>1. target = 0 \/ target = IndexOf(object.props, <<"property", name[2]>>)
      BY <2>2
    <3>2. IndexOf(object.props, <<"property", name[2]>>) \in 0..Len(object.props)
      BY <1>2, IndexOfNone
    <3>. HIDE DEF target
    <3>. QED  BY <1>2, <3>1, <3>2
  <2>. QED  BY <2>1, <2>2
<1>. HIDE DEF target
<1>4. CASE sets
  BY <1>1, <1>3, <1>4, SettingViewed
<1>5. CASE ~sets
  BY <1>1, <1>5 DEF ViewInv, Follows, InSight
<1>. QED  BY <1>4, <1>5

LEMMA AskingViewed ==
  ASSUME IInv, ViewInv, NEW p, NEW e, Meets(object, api, p, e), Asks(p, e),
         ValuesOK(object, value'),
         UNCHANGED <<design, object, kid, api, meta, replica, seenKid>>
  PROVE  ViewInv'
<1>1. CASE design.acq = "inprocess"
  <2>1. Perform(p, e)
    BY <1>1 DEF Asks, AsksInProcess
  <2>. QED  BY <2>1, PerformingViewed
<1>2. CASE design.acq # "inprocess"
  <2>1. UNCHANGED <<value, host, down, due, seen>>
    BY <1>2 DEF Asks
  <2>. QED  BY <2>1 DEF ViewInv, Follows, InSight
<1>. QED  BY <1>1, <1>2

(* The steps of the programs. *)
LEMMA ProgramViewed ==
  ASSUME IInv, ViewInv, IInv',
         \/ \E i \in DOMAIN object.props, v \in Values \cup Pointers : SetProperty(i, v)
         \/ \E m \in DOMAIN object.methods : EmitSignal(m)
         \/ \E m \in DOMAIN object.methods, v \in Values : Call(m, v)
         \/ \E j \in DOMAIN meta.props, v \in Values : Write(j, v)
         \/ HostReads
  PROVE  ViewInv'
<1>1. Agree(design, object, api, meta) /\ Asked(up, wanted) /\ PlainClass(object)
  BY Holds
<1>2. UNCHANGED object => ValuesOK(object, value')
  BY DEF IInv, TypeInv
<1>3. ASSUME NEW i \in DOMAIN object.props, NEW v, SetProperty(i, v)  PROVE ViewInv'
  <2>1. SetTo(i, v) /\ UNCHANGED <<design, object, kid, api, meta, replica, seenKid>>
    BY <1>3 DEF SetProperty
  <2>. QED  BY <1>2, <2>1, SettingViewed
<1>4. ASSUME NEW m \in DOMAIN object.methods, EmitSignal(m)  PROVE ViewInv'
  <2>. DEFINE args == [i \in 1..object.methods[m].arity |-> "argument"]
  <2>1. /\ object.methods[m].sort = "signal" /\ ~object.methods[m].cloned
        /\ m > MethodOffset(design) /\ Emits(m, value, args)
        /\ UNCHANGED <<design, object, value, kid, api, meta, replica, seenKid>>
    BY <1>4 DEF EmitSignal
  <2>. HIDE DEF args
  <2>2. Emits(m, value', args)
    BY <2>1
  <2>3. Unnoticed(m, value')
    BY <2>1 DEF Unnoticed
  <2>. QED  BY <1>2, <2>1, <2>2, <2>3, EmissionViewed
<1>5. ASSUME NEW m \in DOMAIN object.methods, NEW v \in Values, Call(m, v)  PROVE ViewInv'
  <2>. DEFINE expected == [name |-> object.methods[m].name, args |-> <<v>>]
              index == IndexOf(meta.methods, expected.name)
              p == [type |-> "invoke", index |-> index - NumSignals, args |-> <<v>>]
  <2>1. /\ object.methods[m].sort = "slot" /\ m > MethodOffset(design)
        /\ IF index > NumSignals THEN Asks(p, expected)
           ELSE UNCHANGED <<value, host, down, seen>>
        /\ UNCHANGED <<design, object, kid, api, meta, replica, seenKid>>
    BY <1>5 DEF Call
  <2>2. expected.name = object.methods[m].name
    OBVIOUS
  <2>3. index > NumSignals =>
          index - NumSignals \in DOMAIN api.methods /\ api.methods[index - NumSignals] = m
    BY <1>1, <2>1, Zenon DEF Agree, MethodsAgree, NumSignals, Signals
  <2>. HIDE DEF index
  <2>4. CASE index > NumSignals
    <3>1. Meets(object, api, p, expected)
      <4>1. p.type = "invoke" /\ p.index \in DOMAIN api.methods /\ p.args = <<v>>
        BY <2>3, <2>4
      <4>2. Member(object, api, p) = object.methods[m].name
        BY <2>3, <2>4, <4>1 DEF Member, NameIn
      <4>. QED  BY <4>1, <4>2 DEF Meets
    <3>. HIDE DEF p, expected
    <3>. QED  BY <1>2, <2>1, <2>4, <3>1, AskingViewed
  <2>5. CASE ~(index > NumSignals)
    BY <2>1, <2>5 DEF ViewInv, Follows, InSight
  <2>. QED  BY <2>4, <2>5
<1>6. ASSUME NEW j \in DOMAIN meta.props, NEW v \in Values, Write(j, v)  PROVE ViewInv'
  <2>. DEFINE p == [type |-> "write", index |-> j, args |-> <<v>>]
              expected == [name |-> meta.props[j].name, args |-> <<v>>]
  <2>1. /\ meta.props[j].sort = "value" /\ Asks(p, expected)
        /\ UNCHANGED <<design, object, kid, api, meta, replica, seenKid>>
    BY <1>6 DEF Write
  <2>2. /\ j \in DOMAIN api.properties /\ api.properties[j] \in DOMAIN object.props
        /\ meta.props[j].name = object.props[api.properties[j]].name
        /\ meta.props[j].sort = object.props[api.properties[j]].sort
    BY <1>1 DEF Agree, PropertiesAgree
  <2>3. Meets(object, api, p, expected)
    <3>1. p.type = "write" /\ p.index = j /\ p.args = <<v>>
      OBVIOUS
    <3>2. Member(object, api, p) = meta.props[j].name
      BY <2>2, <3>1 DEF Member, NameIn
    <3>. QED  BY <2>1, <2>2, <3>1, <3>2 DEF Meets
  <2>. HIDE DEF p, expected
  <2>. QED  BY <1>2, <2>1, <2>3, AskingViewed
<1>7. ASSUME HostReads  PROVE ViewInv'
  <2>1. /\ up # <<>> /\ Perform(Head(up), Head(wanted))
        /\ UNCHANGED <<design, object, kid, api, meta, replica, seenKid>>
    BY <1>7 DEF HostReads
  <2>2. /\ IsSeq(up) /\ IsSeq(wanted) /\ Len(up) = Len(wanted)
        /\ \A i \in 1..Len(up) : Meets(object, api, up[i], wanted[i])
    BY <1>1 DEF Asked, RequestsMeet
  <2>3. Len(up) \in Nat \ {0} /\ Head(up) = up[1]
    BY <2>1, <2>2, TailSeq
  <2>4. wanted # <<>>
    BY <2>2, <2>3, NoSeq
  <2>5. Head(wanted) = wanted[1]
    BY <2>2, <2>4, TailSeq
  <2>6. Meets(object, api, Head(up), Head(wanted))
    BY <2>2, <2>3, <2>5
  <2>. QED  BY <1>2, <2>1, <2>6, PerformingViewed
<1>. QED  BY <1>3, <1>4, <1>5, <1>6, <1>7

LEMMA KidViewed ==
  ASSUME IInv, ViewInv, NEW o \in {"t", "u"}, NEW v \in Values, NEW i \in DOMAIN kid[o],
         SetKid(o, i, v)
  PROVE  ViewInv'
<1>. DEFINE change == [type |-> "change", to |-> "child", value |-> v]
            invoke == [type |-> "invoke", to |-> "child"]
            sends == host.attached /\ host.held = o /\ host.index = i
            mid == Append(down, change)
            more == Append(mid, invoke)
<1>1. /\ KidsOK(kid) /\ ValuesOK(object, value) /\ HostOK(host) /\ PacketsOK(api, meta, down)
      /\ Agree(design, object, api, meta)
  BY Holds DEF Sent
<1>2. /\ kid' = [kid EXCEPT ![o][i] = v]
      /\ down' = IF sends THEN down \o <<change, invoke>> ELSE down
      /\ UNCHANGED <<design, object, value, api, host, meta, replica, seen, seenKid>>
  BY DEF SetKid
<1>3. ASSUME NEW w \in {"t", "u"}
      PROVE  KidsValue(kid', w, host.index) =
               IF w = o /\ host.index = i THEN v ELSE KidsValue(kid, w, host.index)
  BY <1>1, <1>2 DEF KidsOK, KidsValue
<1>4. change.to = "child" /\ change.type = "change" /\ change.value = v
      /\ invoke.to = "child" /\ invoke.type = "invoke"
  OBVIOUS
<1>5. IsSeq(down)
  BY <1>1 DEF PacketsOK
<1>. HIDE DEF change, invoke
<1>6. sends => down' = more
  BY <1>2, <1>5 DEF IsSeq
<1>. HIDE DEF sends
<1>7. Fits(meta, host.index, change) /\ Fits(meta, host.index, invoke)
  BY <1>4 DEF Fits, Brings
<1>8. AllFit(meta, host.index, down)
  BY DEF ViewInv
<1>9. IsSeq(mid) /\ AllFit(meta, host.index, mid)
  BY <1>5, <1>7, <1>8, AppendSeq, FitsMore
<1>10. AllFit(meta, host.index, more)
  <2>. HIDE DEF mid
  <2>. QED  BY <1>7, <1>9, FitsMore
<1>11. AllFit(meta, host.index, down')
  BY <1>2, <1>6, <1>8, <1>10
<1>12. ASSUME host.attached  PROVE InSight(replica, seen, seenKid, host, value, kid', down')
  <2>. SUFFICES ASSUME NEW j \in DOMAIN meta.props, Watched(object, api, j)
                PROVE  \E x, z : /\ Holding(meta, replica, seen, seenKid, j, x)
                                 /\ Leads(meta, j, Entry(object, api, meta, j), down', x, z)
                                 /\ Current(api, meta, value, kid', host, j, z)
    BY DEF InSight
  <2>. DEFINE entry == Entry(object, api, meta, j)
              w == value[api.properties[j]]
  <2>. HIDE DEF entry
  <2>1. PICK x, y : /\ Holding(meta, replica, seen, seenKid, j, x)
                    /\ Leads(meta, j, entry, down, x, y)
                    /\ Current(api, meta, value, kid, host, j, y)
    BY <1>12 DEF ViewInv, InSight, entry
  <2>2. IsClass(meta, j) /\ w # "null" => w \in {"t", "u"}
    BY <1>1 DEF Agree, PropertiesAgree, ValuesOK, IsClass, Pointers
  <2>3. /\ y.store = Shown(w) /\ y.read = Shown(w)
        /\ IsClass(meta, j) /\ w # "null" =>
             /\ host.held = w /\ y.child /\ y.fresh
             /\ y.value = KidsValue(kid, w, host.index)
    BY <2>1 DEF Current
  <2>. HIDE DEF w
  <2>4. CASE sends
    <3>. DEFINE z1 == Told(meta, j, entry, change, y)
                z2 == Told(meta, j, entry, invoke, z1)
    <3>1. Leads(meta, j, entry, mid, x, z1)
      BY <1>5, <2>1, LeadsOn
    <3>2. Leads(meta, j, entry, more, x, z2)
      <4>. HIDE DEF mid, z1
      <4>. QED  BY <1>9, <3>1, LeadsOn
    <3>3. /\ z1.store = y.store /\ z1.read = y.read /\ z1.child = y.child /\ z1.value = v
      BY <1>4 DEF Told, Knows
    <3>. HIDE DEF z1, mid, more
    <3>4. /\ z2.store = z1.store /\ z2.read = z1.read /\ z2.child = z1.child
          /\ z2.value = z1.value /\ z2.fresh = TRUE
      BY <1>4 DEF Told, Knows
    <3>. HIDE DEF z2
    <3>5. Leads(meta, j, entry, down', x, z2)
      BY <1>6, <2>4, <3>2
    <3>6. IsClass(meta, j) /\ w # "null" => KidsValue(kid', w, host.index) = v
      BY <1>3, <2>2, <2>3, <2>4 DEF sends
    <3>7. Current(api, meta, value, kid', host, j, z2)
      BY <2>3, <3>3, <3>4, <3>6 DEF Current, w
    <3>. QED  BY <2>1, <3>5, <3>7 DEF entry
  <2>5. CASE ~sends
    <3>1. IsClass(meta, j) /\ w # "null" =>
            KidsValue(kid', w, host.index) = KidsValue(kid, w, host.index)
      BY <1>3, <1>12, <2>2, <2>3, <2>5 DEF sends
    <3>2. Current(api, meta, value, kid', host, j, y)
      BY <2>3, <3>1 DEF Current, w
    <3>. QED  BY <1>2, <2>1, <2>5, <3>2 DEF entry
  <2>. QED  BY <2>4, <2>5
<1>. QED  BY <1>2, <1>11, <1>12 DEF ViewInv, Follows, InSight

(* The values a replica gets when it is acquired, after t of the properties. *)
Faithful(vals, i, v, h) ==
  LET w == vals[api.properties[i]] IN
  /\ Shows(meta, i, v) = Shown(w)
  /\ IsClass(meta, i) =>
       /\ h.held = w /\ v.null = (w = "null")
       /\ w # "null" => v.value = KidsValue(kid, w, h.index)
       /\ v.def \in {NoDefinition} \cup NamesOf(h.index)
Enclosed(h, t, s) ==
  /\ Hosted(s.host) /\ s.host.attached = h.attached /\ s.host.index = h.index
  /\ IsSeq(s.values) /\ Len(s.values) = t
  /\ \A i \in 1..t : Faithful(value, i, s.values[i], s.host)

LEMMA EnclosedMore ==
  ASSUME PropertiesAgree(object, api, meta), KidsOK(kid), ValuesOK(object, value),
         NEW h, NEW t \in Nat, t + 1 \in DOMAIN meta.props, NEW s, Enclosed(h, t, s)
  PROVE  Enclosed(h, t + 1, Added(s, t + 1))
<1>. DEFINE j == t + 1
            p == SerializeProperty(s.host, j, value)
            e == Added(s, j)
            w == value[api.properties[j]]
<1>1. e.host = p.host /\ e.values = Append(s.values, p.value)
  BY DEF Added
<1>2. /\ Hosted(s.host) /\ s.host.attached = h.attached /\ s.host.index = h.index
      /\ IsSeq(s.values) /\ Len(s.values) = t
      /\ \A i \in 1..t : Faithful(value, i, s.values[i], s.host)
  BY DEF Enclosed
<1>3. /\ Hosted(p.host) /\ p.host.attached = s.host.attached /\ p.host.index = s.host.index
      /\ Shows(meta, j, p.value) = Shown(w)
      /\ ~IsClass(meta, j) => p.host.held = s.host.held
      /\ IsClass(meta, j) =>
           /\ p.host.held = w /\ p.value.null = (w = "null")
           /\ w # "null" => p.value.value = KidsValue(kid, w, s.host.index)
           /\ p.value.def \in {NoDefinition} \cup NamesOf(s.host.index)
  BY <1>2, PointerSent
<1>. HIDE DEF p, e
<1>4. /\ IsSeq(e.values) /\ Len(e.values) = t + 1 /\ e.values[t + 1] = p.value
      /\ \A i \in 1..t : e.values[i] = s.values[i]
  BY <1>1, <1>2, AppendSeq
<1>5. \A i \in 1..t + 1 : i \in 1..t \/ i = j
  OBVIOUS
<1>6. \A i \in 1..t : IsClass(meta, i) => p.host.held = s.host.held
  <2>1. ASSUME NEW i \in 1..t, IsClass(meta, i), IsClass(meta, j)  PROVE FALSE
    <3>1. PICK n \in Nat : DOMAIN meta.props = 1..n
      BY DEF PropertiesAgree
    <3>2. i \in DOMAIN meta.props /\ i # j
      BY <3>1
    <3>. QED  BY <2>1, <3>2 DEF PropertiesAgree, IsClass
  <2>. QED  BY <1>3, <2>1
<1>7. ASSUME NEW i \in 1..t  PROVE Faithful(value, i, e.values[i], e.host)
  <2>1. Faithful(value, i, s.values[i], s.host)
    BY <1>2
  <2>. QED  BY <1>1, <1>3, <1>4, <1>6, <2>1 DEF Faithful
<1>8. Faithful(value, j, e.values[j], e.host)
  BY <1>1, <1>3, <1>4 DEF Faithful
<1>. QED  BY <1>1, <1>2, <1>3, <1>4, <1>5, <1>7, <1>8 DEF Enclosed, e, j

LEMMA AllEnclosed ==
  ASSUME PropertiesAgree(object, api, meta), KidsOK(kid), ValuesOK(object, value),
         NEW h, Hosted(h), NEW n \in Nat, DOMAIN meta.props = 1..n
  PROVE  Enclosed(h, n, PackingOf([host |-> h, values |-> <<>>], Indices(api.properties)))
<1>. DEFINE base == [host |-> h, values |-> <<>>]
            seq == Indices(api.properties)
            all == PackingOf(base, seq)
<1>1. DOMAIN api.properties = 1..n
  BY DEF PropertiesAgree
<1>2. DOMAIN seq = 1..n /\ \A i \in 1..n : seq[i] = i
  BY <1>1 DEF Indices
<1>. HIDE DEF seq
<1>3. PICK g : Folds("packing", g, base, seq, 0, n) /\ all = g[1..n]
  BY <1>2, PackingFolds
<1>4. base.host = h /\ base.values = <<>>
  OBVIOUS
<1>. HIDE DEF base, all
<1>5. /\ g[1..0] = base
      /\ \A t \in 0..n - 1 : g[1..t + 1] = Turn("packing", g[1..t], seq[t + 1], 0)
  BY <1>3, FoldStep
<1>6. ASSUME NEW t \in 0..n - 1  PROVE g[1..t + 1] = Added(g[1..t], t + 1)
  <2>1. t + 1 \in 1..n
    OBVIOUS
  <2>. QED  BY <1>2, <1>5, <2>1 DEF Turn
<1>. DEFINE T == {t \in Nat : t <= n => Enclosed(h, t, g[1..t])}
<1>7. 0 \in T
  <2>1. Enclosed(h, 0, base)
    BY <1>4, NoSeq DEF Enclosed
  <2>. QED  BY <1>5, <2>1
<1>8. ASSUME NEW t \in Nat, t \in T  PROVE t + 1 \in T
  <2>. SUFFICES ASSUME t + 1 <= n  PROVE Enclosed(h, t + 1, g[1..t + 1])
    OBVIOUS
  <2>1. t \in 0..n - 1 /\ t + 1 \in DOMAIN meta.props /\ Enclosed(h, t, g[1..t])
    BY <1>8
  <2>2. Enclosed(h, t + 1, Added(g[1..t], t + 1))
    BY <2>1, EnclosedMore
  <2>. QED  BY <1>6, <2>1, <2>2
<1>. HIDE DEF T
<1>9. n \in T
  BY <1>7, <1>8, SetInduction
<1>10. Enclosed(h, n, all)
  BY <1>3, <1>9 DEF T
<1>. QED  BY <1>10 DEF all, base, seq

LEMMA AttachViewed == ASSUME IInv, ViewInv, Attach  PROVE ViewInv'
<1>. DEFINE h == AddListener(host)
            all == PackingOf([host |-> h, values |-> <<>>], Indices(api.properties))
            init == [type |-> "init", to |-> "root", values |-> all.values]
<1>1. /\ Agree(design, object, api, meta) /\ PropertiesAgree(object, api, meta)
      /\ ValuesOK(object, value) /\ KidsOK(kid) /\ HostOK(host)
      /\ Connecting(design, host, replica, down)
  BY Holds DEF Sent, Agree
<1>2. /\ design.acq # "inprocess" /\ ~host.attached
      /\ host' = all.host /\ down' = <<init>>
      /\ UNCHANGED <<design, object, value, kid, api, meta, replica, seen, seenKid>>
  BY DEF Attach, PackingOf
<1>3. Hosted(h) /\ h.index = host.index
  BY <1>1 DEF AddListener, HostOK, Hosted
<1>. HIDE DEF h
<1>4. PICK n \in Nat : DOMAIN meta.props = 1..n
  BY <1>1 DEF PropertiesAgree
<1>5. Enclosed(h, n, all)
  BY <1>1, <1>3, <1>4, AllEnclosed
<1>. HIDE DEF all
<1>6. /\ host'.index = host.index
      /\ \A i \in 1..n : Faithful(value, i, all.values[i], host')
  BY <1>2, <1>3, <1>5 DEF Enclosed
<1>7. init.type = "init" /\ init.to = "root" /\ init.values = all.values
  OBVIOUS
<1>. HIDE DEF init
<1>8. down' = Append(<<>>, init)
  BY <1>2
<1>9. AllFit(meta, host.index, down')
  <2>1. Fits(meta, host.index, init)
    <3>. SUFFICES ASSUME Brings(meta, init)
                  PROVE  Pointer(meta, init).def \in {NoDefinition} \cup NamesOf(host.index)
      BY DEF Fits
    <3>. DEFINE j == CHOOSE j \in DOMAIN meta.props : IsClass(meta, j)
    <3>1. \E i \in DOMAIN meta.props : IsClass(meta, i)
      BY <1>7 DEF Brings
    <3>2. j \in DOMAIN meta.props /\ IsClass(meta, j)
      BY <3>1
    <3>3. Pointer(meta, init) = all.values[j]
      BY <1>7 DEF Pointer
    <3>. HIDE DEF j
    <3>. QED  BY <1>4, <1>6, <3>2, <3>3 DEF Faithful
  <2>2. AllFit(meta, host.index, <<>>)
    BY NoSeq DEF AllFit
  <2>. QED  BY <1>8, <2>1, <2>2, NoSeq, FitsMore
<1>10. InSight(replica, seen, seenKid, host', value, kid, down')
  <2>. SUFFICES ASSUME NEW j \in DOMAIN meta.props, Watched(object, api, j)
                PROVE  \E x, z : /\ Holding(meta, replica, seen, seenKid, j, x)
                                 /\ Leads(meta, j, Entry(object, api, meta, j), down', x, z)
                                 /\ Current(api, meta, value, kid, host', j, z)
    BY DEF InSight
  <2>. DEFINE entry == Entry(object, api, meta, j)
              x == Knows(0, 0, FALSE, 0, FALSE)
              z == Told(meta, j, entry, init, x)
              v == all.values[j]
  <2>. HIDE DEF entry, x
  <2>1. Holding(meta, replica, seen, seenKid, j, x)
    BY <1>1, <1>2 DEF Connecting, Holding
  <2>2. Leads(meta, j, entry, down', x, z)
    BY <1>8, NoSeq, LeadsNowhere, LeadsOn
  <2>3. /\ z.store = Shows(meta, j, v) /\ z.read = Shows(meta, j, v)
        /\ z.child = ~v.null /\ z.value = v.value /\ z.fresh = TRUE
    BY <1>7 DEF Told, Knows
  <2>. HIDE DEF z
  <2>4. Faithful(value, j, v, host')
    BY <1>4, <1>6
  <2>5. Current(api, meta, value, kid, host', j, z)
    BY <2>3, <2>4 DEF Faithful, Current
  <2>. QED  BY <2>1, <2>2, <2>5 DEF entry
<1>11. Follows(replica, seen, value)
  BY <1>2 DEF Follows
<1>. QED  BY <1>2, <1>6, <1>9, <1>10, <1>11 DEF ViewInv, Follows, InSight

LEMMA InProcessViewed == ASSUME IInv, ViewInv, AcquireInProcess  PROVE ViewInv'
<1>1. /\ Connecting(design, host, replica, down) /\ ReplicaOK(design, meta, replica)
  BY Holds DEF Sent
<1>2. /\ design.acq = "inprocess" /\ replica' = [replica EXCEPT !.valid = TRUE]
      /\ seen' = [j \in DOMAIN meta.props |-> Shown(value[j])]
      /\ UNCHANGED <<design, object, value, kid, api, host, down, meta, seenKid>>
  BY DEF AcquireInProcess, InProcessProperty
<1>3. replica'.type = replica.type /\ replica'.child = replica.child
  BY <1>1, <1>2 DEF ReplicaOK
<1>4. ~host.attached
  BY <1>1, <1>2 DEF Connecting
<1>5. Named(design, replica', host.index)
  BY <1>3 DEF ViewInv, Named
<1>6. Follows(replica', seen', value)
  BY <1>2 DEF ViewInv, Announced, Follows
<1>. QED  BY <1>2, <1>4, <1>5, <1>6 DEF ViewInv, Follows, InSight

(* What the replica reads. *)
Whole(r) == r = [valid |-> r.valid, type |-> r.type, store |-> r.store, child |-> r.child]

LEMMA PointerNamed ==
  ASSUME NEW r, Formed(r), NEW v, v.null \in BOOLEAN, NEW i, Named(design, r, i),
         v.def \in {NoDefinition} \cup NamesOf(i), v.null => v.def = NoDefinition,
         design.acq \in {"static", "dynamic"},
         design.acq = "dynamic" /\ ~r.valid => r.child = NoChild
  PROVE  LET h == HandlePointer(r, v) IN
         /\ Whole(h) /\ Named(design, h, i) /\ h.store = r.store /\ (r.valid => h.valid)
         /\ v.null => h.child = NoChild
         /\ ~v.null => h.child # NoChild /\ h.child.value = v.value
<1>. DEFINE fresh == r.child = NoChild \/ r.valid
            name == IF ~fresh THEN r.child.name
                    ELSE IF v.def # NoDefinition THEN v.def ELSE MetaObjectForType(r)
            type == IF fresh /\ v.def # NoDefinition THEN v.def ELSE r.type
            child == [name |-> name, value |-> v.value]
            h == HandlePointer(r, v)
<1>1. r = [valid |-> r.valid, type |-> r.type, store |-> r.store, child |-> r.child]
  BY DEF Formed
<1>2. /\ i = 1 \/ design.acq = "dynamic"
      /\ r.type \in {"unknown"} \cup NamesOf(i)
      /\ r.child # NoChild => r.child.name = IF design.acq = "static" THEN "x" ELSE r.type
  BY DEF Named
<1>3. CASE v.null
  <2>1. h = [r EXCEPT !.child = NoChild]
    BY <1>3 DEF HandlePointer
  <2>2. /\ h.valid = r.valid /\ h.type = r.type /\ h.store = r.store /\ h.child = NoChild
        /\ Whole(h)
    BY <1>1, <2>1 DEF Whole
  <2>. HIDE DEF h
  <2>. QED  BY <1>2, <1>3, <2>2 DEF Named, h
<1>4. CASE ~v.null
  <2>1. h = [r EXCEPT !.child = child, !.type = type]
    BY <1>4 DEF HandlePointer
  <2>2. type \in {"unknown"} \cup NamesOf(i)
    BY <1>2
  <2>3. name = IF design.acq = "static" THEN "x" ELSE type
    <3>1. CASE design.acq = "static"
      <4>1. i = 1 /\ v.def \in {NoDefinition, "x"} /\ MetaObjectForType(r) = "x"
        BY <1>2, <3>1 DEF NamesOf, MetaObjectForType
      <4>2. ~fresh => r.child.name = "x"
        BY <1>2, <3>1
      <4>. HIDE DEF fresh
      <4>. QED  BY <3>1, <4>1, <4>2
    <3>2. CASE design.acq = "dynamic"
      <4>1. fresh /\ MetaObjectForType(r) = r.type
        BY <3>2 DEF MetaObjectForType
      <4>. HIDE DEF fresh
      <4>. QED  BY <3>2, <4>1
    <3>. QED  BY <3>1, <3>2
  <2>4. name # "no replica"
    <3>1. "no replica" \notin {"unknown"} \cup NamesOf(i)
      BY DEF NamesOf
    <3>. HIDE DEF name, type
    <3>. QED  BY <2>2, <2>3, <3>1
  <2>. HIDE DEF name, type
  <2>5. child.name = name /\ child.value = v.value
    OBVIOUS
  <2>. HIDE DEF child
  <2>6. /\ h.valid = r.valid /\ h.type = type /\ h.store = r.store /\ h.child = child
        /\ Whole(h)
    BY <1>1, <2>1 DEF Whole
  <2>. HIDE DEF h
  <2>7. child # NoChild
    <3>1. NoChild.name = "no replica"
      BY DEF NoChild
    <3>. QED  BY <2>4, <2>5, <3>1
  <2>8. Named(design, h, i)
    BY <1>2, <2>2, <2>3, <2>5, <2>6 DEF Named
  <2>. QED  BY <1>4, <2>5, <2>6, <2>7, <2>8 DEF h
<1>. QED  BY <1>3, <1>4

Sees(p) ==
  /\ replica'.valid /\ DOMAIN seen' = DOMAIN meta.props /\ Named(design, replica', host.index)
  /\ \A j \in DOMAIN meta.props : Watched(object, api, j) =>
       \A x : Holding(meta, replica, seen, seenKid, j, x) =>
         Holding(meta, replica', seen', seenKid', j,
                 Told(meta, j, Entry(object, api, meta, j), p, x))

LEMMA ReadingViewed ==
  ASSUME IInv, ViewInv, down # <<>>
  PROVE  /\ Named(design, replica, host.index) /\ Announced(design, object, api, meta)
         /\ down[1].type # "init" => DOMAIN seen = DOMAIN meta.props /\ replica.valid
         /\ Fits(meta, host.index, down[1])
         /\ \A i, j \in DOMAIN meta.props : IsClass(meta, i) /\ IsClass(meta, j) => i = j
<1>1. ~replica.valid => down[1].type = "init"
  BY Reading
<1>2. Agree(design, object, api, meta) /\ IsSeq(down)
  BY Holds DEF Sent, PacketsOK
<1>3. 1 \in 1..Len(down)
  BY <1>2, TailSeq
<1>. QED  BY <1>1, <1>2, <1>3 DEF ViewInv, AllFit, Agree, PropertiesAgree, IsClass

LEMMA ChildViewed ==
  ASSUME IInv, ViewInv, down # <<>>, NEW p, p = down[1], p.to = "child", ReadChild(p)
  PROVE  Sees(p)
<1>1. Formed(replica) /\ PacketOK(api, meta, p)
  BY Reading
<1>2. p.type \in {"change", "invoke"}
  BY <1>1 DEF PacketOK
<1>3. Named(design, replica, host.index) /\ DOMAIN seen = DOMAIN meta.props /\ replica.valid
  BY <1>2, ReadingViewed
<1>4. /\ IF replica.child = NoChild THEN UNCHANGED <<replica, seenKid>>
         ELSE IF p.type = "change"
         THEN replica' = [replica EXCEPT !.child.value = p.value] /\ UNCHANGED seenKid
         ELSE seenKid' = replica.child /\ UNCHANGED replica
      /\ UNCHANGED seen
  BY DEF ReadChild
<1>5. ASSUME replica.child # NoChild, p.type = "change"
      PROVE  /\ replica'.valid = replica.valid /\ replica'.type = replica.type
             /\ replica'.store = replica.store /\ replica'.child # NoChild
             /\ replica'.child.name = replica.child.name /\ replica'.child.value = p.value
  <2>. DEFINE child == [replica.child EXCEPT !.value = p.value]
  <2>1. replica' = [replica EXCEPT !.child = child]
    BY <1>1, <1>4, <1>5 DEF Formed
  <2>2. /\ replica.child \in [name : Definitions, value : {replica.child.value}]
        /\ child.name = replica.child.name /\ child.value = p.value
    BY <1>1, <1>5 DEF Formed
  <2>3. child # NoChild
    BY <2>2 DEF NoChild, Definitions
  <2>. HIDE DEF child
  <2>. QED  BY <1>1, <2>1, <2>2, <2>3 DEF Formed
<1>6. /\ replica'.valid = replica.valid /\ replica'.type = replica.type
      /\ replica'.store = replica.store
      /\ replica.child = NoChild <=> replica'.child = NoChild
      /\ replica.child # NoChild => replica'.child.name = replica.child.name
  BY <1>4, <1>5
<1>7. Named(design, replica', host.index)
  BY <1>3, <1>6 DEF Named
<1>8. ASSUME NEW j \in DOMAIN meta.props, Watched(object, api, j),
             NEW x, Holding(meta, replica, seen, seenKid, j, x)
      PROVE  Holding(meta, replica', seen', seenKid', j,
                     Told(meta, j, Entry(object, api, meta, j), p, x))
  <2>. DEFINE z == Told(meta, j, Entry(object, api, meta, j), p, x)
  <2>1. /\ z.store = x.store /\ z.read = x.read /\ z.child = x.child
        /\ z.value = (IF p.type = "change" THEN p.value ELSE x.value)
        /\ z.fresh = (p.type = "invoke")
    BY DEF Told, Knows
  <2>. HIDE DEF z
  <2>2. /\ x.store = replica.store[j] /\ x.read = seen[j]
        /\ IsClass(meta, j) /\ x.child =>
             replica.child # NoChild /\ replica.child.value = x.value
    BY <1>3, <1>8 DEF Holding
  <2>3. ASSUME IsClass(meta, j), x.child
        PROVE  /\ replica'.child # NoChild /\ replica'.child.value = z.value
               /\ z.fresh => seenKid' = replica'.child
    <3>1. CASE p.type = "change"
      BY <1>5, <2>1, <2>2, <2>3, <3>1
    <3>2. CASE p.type = "invoke"
      <4>1. seenKid' = replica.child /\ replica' = replica
        BY <1>4, <2>2, <2>3, <3>2
      <4>. QED  BY <2>1, <2>2, <2>3, <3>2, <4>1
    <3>. QED  BY <1>2, <3>1, <3>2
  <2>4. Holding(meta, replica', seen', seenKid', j, z)
    BY <1>4, <1>6, <2>1, <2>2, <2>3 DEF Holding
  <2>. QED  BY <2>4 DEF z
<1>. QED  BY <1>3, <1>4, <1>6, <1>7, <1>8 DEF Sees

LEMMA ValuesViewed ==
  ASSUME IInv, ViewInv, down # <<>>, NEW p, p = down[1], p.to = "root", p.type = "init",
         ReadInit(p)
  PROVE  Sees(p)
<1>. DEFINE pointer == SelectInSeq(meta.props, LAMBDA x : x.sort = "class")
            r == IF pointer = 0 THEN replica ELSE HandlePointer(replica, p.values[pointer])
            store == [i \in DOMAIN p.values |-> Stored(i, p.values[i])]
<1>1. /\ PacketOK(api, meta, p) /\ Formed(replica) /\ Agree(design, object, api, meta)
      /\ design.acq \in {"static", "dynamic"}
      /\ design.acq = "dynamic" /\ ~replica.valid => replica.child = NoChild
  BY Reading
<1>2. /\ DOMAIN p.values = DOMAIN meta.props
      /\ \A j \in DOMAIN meta.props : ValueOK(meta, j, p.values[j])
  BY <1>1 DEF PacketOK
<1>3. replica' = [r EXCEPT !.store = store, !.valid = TRUE] /\ seen' = store /\ seenKid' = r.child
  BY DEF ReadInit
<1>4. PICK n \in Nat : DOMAIN meta.props = 1..n
  BY <1>1 DEF Agree, PropertiesAgree
<1>5. /\ pointer \in 0..n
      /\ pointer # 0 => meta.props[pointer].sort = "class"
      /\ pointer = 0 => \A j \in 1..n : meta.props[j].sort # "class"
  BY <1>4, ClassIn
<1>6. DOMAIN store = DOMAIN meta.props
      /\ \A j \in DOMAIN meta.props : store[j] = Shows(meta, j, p.values[j])
  BY <1>2, StoredIs
<1>7. /\ Named(design, replica, host.index) /\ Fits(meta, host.index, p)
      /\ \A i, j \in DOMAIN meta.props : IsClass(meta, i) /\ IsClass(meta, j) => i = j
  BY ReadingViewed
<1>. HIDE DEF pointer, store
<1>8. /\ Named(design, r, host.index)
      /\ Whole(r)
      /\ \A j \in DOMAIN meta.props : IsClass(meta, j) =>
           /\ p.values[j].null => r.child = NoChild
           /\ ~p.values[j].null => r.child # NoChild /\ r.child.value = p.values[j].value
  <2>1. CASE pointer = 0
    <3>1. r = replica /\ \A j \in DOMAIN meta.props : ~IsClass(meta, j)
      BY <1>4, <1>5, <2>1 DEF IsClass
    <3>. HIDE DEF r
    <3>. QED  BY <1>1, <1>7, <3>1 DEF Formed, Whole
  <2>2. CASE pointer # 0
    <3>. DEFINE v == p.values[pointer]
    <3>1. r = HandlePointer(replica, v)
      BY <2>2
    <3>. HIDE DEF r
    <3>2. pointer \in DOMAIN meta.props /\ IsClass(meta, pointer)
      BY <1>4, <1>5, <2>2 DEF IsClass
    <3>3. \A j \in DOMAIN meta.props : IsClass(meta, j) => j = pointer
      BY <1>7, <3>2
    <3>4. Brings(meta, p) /\ Pointer(meta, p) = v
      BY <3>2, <3>3 DEF Brings, Pointer
    <3>5. v.null \in BOOLEAN /\ (v.null => v.def = NoDefinition)
      BY <1>2, <3>2 DEF ValueOK
    <3>6. v.def \in {NoDefinition} \cup NamesOf(host.index)
      <4>. HIDE DEF v
      <4>. QED  BY <1>7, <3>4 DEF Fits
    <3>7. /\ Named(design, r, host.index) /\ Whole(r)
          /\ v.null => r.child = NoChild
          /\ ~v.null => r.child # NoChild /\ r.child.value = v.value
      <4>. HIDE DEF v
      <4>. QED  BY <1>1, <1>7, <3>1, <3>5, <3>6, PointerNamed
    <3>. QED  BY <3>1, <3>3, <3>7
  <2>. QED  BY <2>1, <2>2
<1>. HIDE DEF r
<1>9. /\ replica'.valid /\ replica'.type = r.type /\ replica'.store = store
      /\ replica'.child = r.child
  BY <1>3, <1>8 DEF Whole
<1>10. Named(design, replica', host.index)
  BY <1>8, <1>9 DEF Named
<1>11. ASSUME NEW j \in DOMAIN meta.props, NEW x
       PROVE  Holding(meta, replica', seen', seenKid', j,
                      Told(meta, j, Entry(object, api, meta, j), p, x))
  <2>. DEFINE z == Told(meta, j, Entry(object, api, meta, j), p, x)
              v == p.values[j]
  <2>1. /\ z.store = Shows(meta, j, v) /\ z.read = Shows(meta, j, v)
        /\ z.child = ~v.null /\ z.value = v.value /\ z.fresh = TRUE
    BY DEF Told, Knows
  <2>. HIDE DEF z
  <2>2. IsClass(meta, j) /\ z.child => r.child # NoChild /\ r.child.value = z.value
    BY <1>8, <2>1
  <2>3. Holding(meta, replica', seen', seenKid', j, z)
    BY <1>3, <1>6, <1>9, <2>1, <2>2 DEF Holding
  <2>. QED  BY <2>3 DEF z
<1>. QED  BY <1>3, <1>6, <1>9, <1>10, <1>11 DEF Sees

LEMMA ChangeViewed ==
  ASSUME IInv, ViewInv, down # <<>>, NEW p, p = down[1], p.to = "root", p.type = "change",
         ReadPropertyChange(p)
  PROVE  Sees(p)
<1>. DEFINE i == p.index
            v == p.value
            r == IF meta.props[i].sort = "class" THEN HandlePointer(replica, v) ELSE replica
            store == [r.store EXCEPT ![i] = Stored(i, v)]
<1>1. /\ PacketOK(api, meta, p) /\ Formed(replica) /\ design.acq \in {"static", "dynamic"}
      /\ replica.valid => DOMAIN replica.store = DOMAIN meta.props
      /\ design.acq = "dynamic" /\ ~replica.valid => replica.child = NoChild
  BY Reading
<1>2. i \in DOMAIN meta.props /\ ValueOK(meta, i, v)
  BY <1>1 DEF PacketOK
<1>3. /\ Named(design, replica, host.index) /\ Fits(meta, host.index, p)
      /\ DOMAIN seen = DOMAIN meta.props /\ replica.valid
      /\ \A k, j \in DOMAIN meta.props : IsClass(meta, k) /\ IsClass(meta, j) => k = j
  BY ReadingViewed
<1>4. /\ replica' = [r EXCEPT !.store[i] = Stored(i, v)] /\ UNCHANGED <<seen, seenKid>>
      /\ Stored(i, v) = Shows(meta, i, v)
  BY <1>2, StoredIs DEF ReadPropertyChange
<1>5. /\ Whole(r) /\ Named(design, r, host.index)
      /\ r.store = replica.store /\ r.valid
      /\ IsClass(meta, i) /\ ~v.null => r.child # NoChild /\ r.child.value = v.value
      /\ ~IsClass(meta, i) => r.child = replica.child
  <2>1. CASE ~IsClass(meta, i)
    <3>1. r = replica
      BY <2>1 DEF IsClass
    <3>. HIDE DEF r
    <3>. QED  BY <1>1, <1>3, <2>1, <3>1 DEF Formed, Whole
  <2>2. CASE IsClass(meta, i)
    <3>1. r = HandlePointer(replica, v)
      BY <2>2 DEF IsClass
    <3>. HIDE DEF r
    <3>2. Brings(meta, p) /\ Pointer(meta, p) = v
      BY <2>2 DEF Brings, Pointer
    <3>3. v.null \in BOOLEAN /\ (v.null => v.def = NoDefinition)
      BY <1>2, <2>2 DEF ValueOK
    <3>. HIDE DEF v
    <3>4. v.def \in {NoDefinition} \cup NamesOf(host.index)
      BY <1>3, <3>2 DEF Fits
    <3>. DEFINE h == HandlePointer(replica, v)
    <3>5. /\ Whole(h) /\ Named(design, h, host.index) /\ h.store = replica.store /\ h.valid
          /\ ~v.null => h.child # NoChild /\ h.child.value = v.value
      <4>1. /\ Formed(replica) /\ Named(design, replica, host.index)
            /\ design.acq \in {"static", "dynamic"} /\ replica.valid
        BY <1>1, <1>3
      <4>. QED  BY <3>3, <3>4, <4>1, PointerNamed
    <3>. HIDE DEF h
    <3>6. r = h
      BY <3>1 DEF h
    <3>. QED  BY <2>2, <3>5, <3>6
  <2>. QED  BY <2>1, <2>2
<1>. HIDE DEF r
<1>6. /\ replica'.valid /\ replica'.type = r.type /\ replica'.store = store
      /\ replica'.child = r.child
  BY <1>3, <1>4, <1>5 DEF Whole
<1>7. \A j \in DOMAIN meta.props :
        store[j] = IF j = i THEN Shows(meta, i, v) ELSE replica.store[j]
  BY <1>1, <1>3, <1>4, <1>5
<1>. HIDE DEF store
<1>8. Named(design, replica', host.index)
  BY <1>5, <1>6 DEF Named
<1>9. ASSUME NEW j \in DOMAIN meta.props, NEW x, Holding(meta, replica, seen, seenKid, j, x)
      PROVE  Holding(meta, replica', seen', seenKid', j,
                     Told(meta, j, Entry(object, api, meta, j), p, x))
  <2>. DEFINE z == Told(meta, j, Entry(object, api, meta, j), p, x)
  <2>1. /\ x.store = replica.store[j] /\ x.read = seen[j]
        /\ IsClass(meta, j) /\ x.child => /\ replica.child # NoChild
                                          /\ replica.child.value = x.value
                                          /\ x.fresh => seenKid = replica.child
    BY <1>3, <1>9 DEF Holding
  <2>2. CASE j = i
    <3>1. /\ z.store = Shows(meta, i, v) /\ z.read = x.read
          /\ z.child = ~v.null /\ z.value = v.value /\ z.fresh = FALSE
      BY <2>2 DEF Told, Knows
    <3>. HIDE DEF z
    <3>2. Holding(meta, replica', seen', seenKid', j, z)
      BY <1>4, <1>5, <1>6, <1>7, <2>1, <2>2, <3>1 DEF Holding
    <3>. QED  BY <3>2 DEF z
  <2>3. CASE j # i
    <3>1. z = x
      BY <2>3 DEF Told
    <3>. HIDE DEF z
    <3>2. IsClass(meta, j) => r.child = replica.child
      BY <1>2, <1>3, <1>5, <2>3
    <3>3. Holding(meta, replica', seen', seenKid', j, z)
      BY <1>4, <1>6, <1>7, <2>1, <2>3, <3>1, <3>2 DEF Holding
    <3>. QED  BY <3>3 DEF z
  <2>. QED  BY <2>2, <2>3
<1>. QED  BY <1>3, <1>4, <1>6, <1>8, <1>9 DEF Sees

LEMMA InvokeViewed ==
  ASSUME IInv, ViewInv, down # <<>>, NEW p, p = down[1], p.to = "root", p.type = "invoke",
         ReadInvoke(p)
  PROVE  Sees(p)
<1>. DEFINE notified(j) == IndexOf(meta.methods, meta.props[j].notify) = p.index
<1>1. Agree(design, object, api, meta)
  BY Reading
<1>2. /\ Named(design, replica, host.index) /\ Announced(design, object, api, meta)
      /\ DOMAIN seen = DOMAIN meta.props /\ replica.valid
      /\ \A i, j \in DOMAIN meta.props : IsClass(meta, i) /\ IsClass(meta, j) => i = j
  BY ReadingViewed
<1>3. /\ seen' = [j \in DOMAIN seen |-> IF notified(j) THEN replica.store[j] ELSE seen[j]]
      /\ seenKid' = IF \E j \in DOMAIN seen : notified(j) /\ meta.props[j].sort = "class"
                    THEN replica.child ELSE seenKid
      /\ UNCHANGED replica
  BY DEF ReadInvoke
<1>. HIDE DEF notified
<1>4. ASSUME NEW j \in DOMAIN meta.props, Watched(object, api, j),
             NEW x, Holding(meta, replica, seen, seenKid, j, x)
      PROVE  Holding(meta, replica', seen', seenKid', j,
                     Told(meta, j, Entry(object, api, meta, j), p, x))
  <2>. DEFINE entry == Entry(object, api, meta, j)
              z == Told(meta, j, entry, p, x)
  <2>1. notified(j) <=> p.index = entry
    <3>1. meta.props[j].notify = NoteOf(object, api, j)
      BY <1>1, <1>2, <1>4, EntryIs
    <3>. QED  BY <3>1 DEF notified, Entry
  <2>2. /\ x.store = replica.store[j] /\ x.read = seen[j]
        /\ IsClass(meta, j) /\ x.child => /\ replica.child # NoChild
                                          /\ replica.child.value = x.value
                                          /\ x.fresh => seenKid = replica.child
    BY <1>2, <1>4 DEF Holding
  <2>3. IsClass(meta, j) => seenKid' = IF notified(j) THEN replica.child ELSE seenKid
    BY <1>2, <1>3 DEF IsClass
  <2>4. seen'[j] = IF notified(j) THEN replica.store[j] ELSE seen[j]
    BY <1>2, <1>3
  <2>. HIDE DEF entry
  <2>5. CASE p.index = entry
    <3>1. /\ z.store = x.store /\ z.read = x.store
          /\ z.child = x.child /\ z.value = x.value /\ z.fresh = TRUE
      BY <2>5 DEF Told, Knows
    <3>. HIDE DEF z
    <3>2. Holding(meta, replica', seen', seenKid', j, z)
      BY <1>3, <2>1, <2>2, <2>3, <2>4, <2>5, <3>1 DEF Holding
    <3>. QED  BY <3>2 DEF z, entry
  <2>6. CASE p.index # entry
    <3>1. z = x
      BY <2>6 DEF Told
    <3>. HIDE DEF z
    <3>2. Holding(meta, replica', seen', seenKid', j, z)
      BY <1>3, <2>1, <2>2, <2>3, <2>4, <2>6, <3>1 DEF Holding
    <3>. QED  BY <3>2 DEF z, entry
  <2>. QED  BY <2>5, <2>6
<1>. QED  BY <1>2, <1>3, <1>4 DEF Sees

LEMMA ReadingIsViewed == ASSUME IInv, ViewInv, ClientReads  PROVE ViewInv'
<1>. DEFINE p == Head(down)
<1>1. /\ down # <<>> /\ down' = Tail(down)
      /\ UNCHANGED <<design, object, value, kid, api, host, up, meta, wanted, events>>
  BY DEF ClientReads
<1>2. /\ CASE p.to = "child"                       -> ReadChild(p)
           [] p.type = "init"                      -> ReadInit(p)
           [] p.to = "root" /\ p.type = "change"   -> ReadPropertyChange(p)
           [] p.to = "root" /\ p.type = "invoke"   -> ReadInvoke(p)
  BY DEF ClientReads
<1>3. /\ p = down[1] /\ IsSeq(down) /\ Len(down) \in Nat \ {0} /\ Len(down') = Len(down) - 1
      /\ \A i \in 1..Len(down) - 1 : down'[i] = down[i + 1]
  <2>1. IsSeq(down)
    BY Holds DEF Sent, PacketsOK
  <2>. QED  BY <1>1, <2>1, TailSeq
<1>4. PacketOK(api, meta, p) /\ host.attached /\ design.acq \in {"static", "dynamic"}
  BY <1>1, <1>3, Reading
<1>. HIDE DEF p
<1>5. \/ p.to = "child" /\ p.type \in {"change", "invoke"}
      \/ p.to = "root" /\ p.type \in {"init", "change", "invoke"}
  BY <1>4 DEF PacketOK
<1>6. Sees(p)
  <2>1. CASE p.to = "child"
    <3>1. ReadChild(p)
      BY <1>2, <1>5, <2>1
    <3>. QED  BY <1>1, <1>3, <2>1, <3>1, ChildViewed
  <2>2. CASE p.to = "root" /\ p.type = "init"
    <3>1. ReadInit(p)
      BY <1>2, <2>2
    <3>. QED  BY <1>1, <1>3, <2>2, <3>1, ValuesViewed
  <2>3. CASE p.to = "root" /\ p.type = "change"
    <3>1. ReadPropertyChange(p)
      BY <1>2, <2>3
    <3>. QED  BY <1>1, <1>3, <2>3, <3>1, ChangeViewed
  <2>4. CASE p.to = "root" /\ p.type = "invoke"
    <3>1. ReadInvoke(p)
      BY <1>2, <2>4
    <3>. QED  BY <1>1, <1>3, <2>4, <3>1, InvokeViewed
  <2>. QED  BY <1>5, <2>1, <2>2, <2>3, <2>4
<1>7. /\ replica'.valid /\ DOMAIN seen' = DOMAIN meta.props
      /\ Named(design, replica', host.index)
  BY <1>6 DEF Sees
<1>8. InSight(replica', seen', seenKid', host, value, kid, down')
  <2>. SUFFICES ASSUME NEW j \in DOMAIN meta.props, Watched(object, api, j)
                PROVE  \E x, y : /\ Holding(meta, replica', seen', seenKid', j, x)
                                 /\ Leads(meta, j, Entry(object, api, meta, j), down', x, y)
                                 /\ Current(api, meta, value, kid, host, j, y)
    BY DEF InSight
  <2>. DEFINE entry == Entry(object, api, meta, j)
  <2>1. PICK x, y : /\ Holding(meta, replica, seen, seenKid, j, x)
                    /\ Leads(meta, j, entry, down, x, y)
                    /\ Current(api, meta, value, kid, host, j, y)
    BY <1>4 DEF ViewInv, InSight
  <2>2. Holding(meta, replica', seen', seenKid', j, Told(meta, j, entry, p, x))
    BY <1>6, <2>1 DEF Sees
  <2>3. Leads(meta, j, entry, down', Told(meta, j, entry, p, x), y)
    BY <1>1, <1>3, <2>1, LeadsOnwards
  <2>. QED  BY <2>1, <2>2, <2>3
<1>9. AllFit(meta, host.index, down')
  <2>1. \A i \in 1..Len(down') : i + 1 \in 1..Len(down) /\ down'[i] = down[i + 1]
    BY <1>3
  <2>. QED  BY <2>1 DEF ViewInv, AllFit
<1>10. Follows(replica', seen', value)
  BY <1>4 DEF Follows
<1>. QED  BY <1>1, <1>7, <1>8, <1>9, <1>10 DEF ViewInv, Follows, InSight

LEMMA InitIsViewed == ASSUME Init  PROVE ViewInv
<1>1. /\ design \in Designs /\ object = ObjectOf(design) /\ api = ApiOf(design, object)
      /\ meta = MetaOf(design, object, api) /\ replica = StartOf(design, meta)
      /\ down = <<>>
  BY DEF Init
<1>2. ~host.attached /\ (host.index = 1 \/ design.pub = "plain")
  BY DEF Init
<1>3. design.pub = "plain" => design.acq = "dynamic"
  BY <1>1, DesignsAreClasses
<1>4. Announced(design, object, api, meta)
  BY <1>1, DesignAnnounces, Zenon
<1>5. /\ ~replica.valid /\ replica.type = "unknown"
      /\ replica.child # NoChild => design.acq = "static" /\ replica.child.name = "x"
  BY <1>1 DEF StartOf
<1>6. Named(design, replica, host.index)
  BY <1>2, <1>3, <1>5 DEF Named
<1>7. AllFit(meta, host.index, down)
  BY <1>1, NoSeq DEF AllFit
<1>. QED  BY <1>2, <1>4, <1>5, <1>6, <1>7 DEF ViewInv, Follows

LEMMA NextIsViewed == ASSUME IInv, ViewInv, [Next]_vars  PROVE ViewInv'
<1>1. IInv'
  BY NextHolds
<1>2. CASE Attach
  BY <1>2, AttachViewed
<1>3. CASE AcquireInProcess
  BY <1>3, InProcessViewed
<1>4. ASSUME NEW o \in {"t", "u"}, NEW v \in Values, NEW i \in DOMAIN kid[o], SetKid(o, i, v)
      PROVE  ViewInv'
  BY <1>4, KidViewed
<1>5. CASE ClientReads
  BY <1>5, ReadingIsViewed
<1>6. CASE \/ \E i \in DOMAIN object.props, v \in Values \cup Pointers : SetProperty(i, v)
           \/ \E m \in DOMAIN object.methods : EmitSignal(m)
           \/ \E m \in DOMAIN object.methods, v \in Values : Call(m, v)
           \/ \E j \in DOMAIN meta.props, v \in Values : Write(j, v)
           \/ HostReads
  BY <1>1, <1>6, ProgramViewed
<1>7. CASE UNCHANGED vars
  BY <1>7 DEF ViewInv, Follows, InSight, vars
<1>. QED  BY <1>2, <1>3, <1>4, <1>5, <1>6, <1>7 DEF Next

LEMMA ViewedThroughout == Spec => [](IInv /\ ViewInv)
<1>. QED  BY InitHolds, NextHolds, InitIsViewed, NextIsViewed, PTL DEF Spec

(* Where nothing is on its way, the program has what the object has, *)
LEMMA SeenIsShown ==
  ASSUME IInv, ViewInv, down = <<>>, replica.valid, design.acq # "inprocess",
         NEW j \in DOMAIN meta.props, Watched(object, api, j)
  PROVE  LET v == value[api.properties[j]] IN
         /\ seen[j] = Shown(v)
         /\ IsClass(meta, j) /\ v # "null" =>
              /\ replica.child # NoChild /\ seenKid = replica.child
              /\ replica.child.value = KidsValue(kid, v, host.index)
<1>1. host.attached
  BY Holds DEF Sent, Connecting
<1>2. PICK x, y : /\ Holding(meta, replica, seen, seenKid, j, x)
                  /\ Leads(meta, j, Entry(object, api, meta, j), down, x, y)
                  /\ Current(api, meta, value, kid, host, j, y)
  BY <1>1 DEF ViewInv, InSight
<1>3. x = y
  <2>1. Len(down) = 0
    BY NoSeq
  <2>. QED  BY <1>2, <2>1 DEF Leads
<1>. QED  BY <1>2, <1>3 DEF Holding, Current

(* with the class that the child's tables were made for. *)
LEMMA ChildIsNamed ==
  ASSUME IInv, ViewInv, replica.child # NoChild, NEW v \in {"t", "u"},
         replica.child.value = KidsValue(kid, v, host.index)
  PROVE  \/ replica.child = KidAt(v, host.index)
         \/ host.index = 2 /\ (v = "t" \/ replica.type = "invalid")
<1>1. KidsOK(kid) /\ HostOK(host) /\ ReplicaOK(design, meta, replica)
  BY Holds
<1>2. /\ host.index = 1 \/ design.acq = "dynamic"
      /\ replica.type \in {"unknown"} \cup NamesOf(host.index)
      /\ replica.child.name = IF design.acq = "static" THEN "x" ELSE replica.type
  BY DEF ViewInv, Named
<1>3. replica.child \in [name : Definitions, value : {replica.child.value}]
  BY <1>1 DEF ReplicaOK
<1>4. replica.child = [name |-> replica.child.name, value |-> replica.child.value]
      /\ replica.child.name # "unknown"
  BY <1>3 DEF Definitions
<1>5. host.index \in {1, 2} /\ 1 \in DOMAIN kid[v] /\ 2 \in DOMAIN kid["u"]
  BY <1>1 DEF HostOK, KidsOK
<1>6. <<"x", "y">>[1] = "x" /\ <<"x", "y">>[2] = "y"
  OBVIOUS
<1>7. KidAt(v, host.index).value = KidsValue(kid, v, host.index)
  BY DEF KidAt, KidsValue
<1>8. CASE host.index = 1
  <2>1. replica.child.name = "x"
    BY <1>2, <1>4, <1>8 DEF NamesOf
  <2>2. KidAt(v, host.index).name = "x"
    BY <1>5, <1>6, <1>8 DEF KidAt
  <2>. QED  BY <1>4, <1>7, <2>1, <2>2 DEF KidAt
<1>9. CASE host.index = 2 /\ v = "u" /\ replica.type # "invalid"
  <2>1. replica.child.name = "y"
    BY <1>2, <1>4, <1>9 DEF NamesOf
  <2>2. KidAt(v, host.index).name = "y"
    BY <1>5, <1>6, <1>9 DEF KidAt
  <2>. QED  BY <1>4, <1>7, <2>1, <2>2 DEF KidAt
<1>. QED  BY <1>5, <1>8, <1>9

(* Whatever is published and however it is acquired, a program that reads a    *)
(* property when the replica is initialized and whenever its signal comes has  *)
(* the source's value when nothing is on its way, and that of the child        *)
(* replica, with the exceptions that Observed names: handleMetaCall sends a    *)
(* change before the signal that notifies of it, by the indices that the       *)
(* replica has for both, and what is sent last is what the object has.         *)
THEOREM ReadersSee == Spec => []Observed
<1>1. ASSUME IInv, ViewInv  PROVE Observed
  <2>. SUFFICES ASSUME Quiet, replica.valid, NEW j \in DOMAIN meta.props,
                       Notified(j) # None, \A i \in 1..(j - 1) : Notified(i) # Notified(j)
                PROVE  LET v == value[SourceIndex(j)] IN
                       /\ \/ seen[j] = Shown(v)
                          \/ design.acq = "inprocess" /\ design.base
                       /\ meta.props[j].sort = "class" /\ v # "null" /\ design.acq # "inprocess" =>
                            \/ seenKid = KidAt(v, host.index)
                            \/ host.index = 2 /\ (v = "t" \/ replica.type = "invalid")
    BY DEF Observed
  <2>1. /\ PropertiesAgree(object, api, meta) /\ PlainClass(object) /\ ValuesOK(object, value)
        /\ design \in Designs
    BY <1>1, Holds DEF Agree
  <2>2. PICK n \in Nat : DOMAIN meta.props = 1..n
    BY <2>1 DEF PropertiesAgree
  <2>3. ASSUME NEW i \in DOMAIN meta.props
        PROVE  SourceIndex(i) = api.properties[i] /\ Notified(i) = NoteOf(object, api, i)
    <3>1. /\ api.properties[i] \in DOMAIN object.props
          /\ meta.props[i].name = object.props[api.properties[i]].name
      BY <2>1 DEF PropertiesAgree
    <3>2. IndexOf(object.props, object.props[api.properties[i]].name) = api.properties[i]
      BY <2>1, <3>1, PlainIs, IndexOfDistinct
    <3>. QED  BY <3>1, <3>2 DEF SourceIndex, Notified, NoteOf
  <2>4. Watched(object, api, j)
    <3>1. \A i \in 1..j - 1 : i \in DOMAIN meta.props
      BY <2>2
    <3>. QED  BY <2>3, <3>1 DEF Watched
  <2>. DEFINE v == value[api.properties[j]]
  <2>5. value[SourceIndex(j)] = v
    BY <2>3
  <2>6. IsClass(meta, j) /\ v # "null" => v \in {"t", "u"}
    BY <2>1 DEF PropertiesAgree, ValuesOK, IsClass, Pointers
  <2>7. CASE design.acq = "inprocess"
    <3>1. design.base \/ seen[j] = Shown(v)
      <4>1. NoteOf(object, api, j) # None
        BY <2>4 DEF Watched
      <4>. QED  BY <1>1, <2>7, <4>1 DEF ViewInv, Follows
    <3>. HIDE DEF v
    <3>. QED  BY <2>5, <2>7, <3>1
  <2>8. CASE design.acq # "inprocess"
    <3>1. down = <<>>
      BY DEF Quiet
    <3>2. /\ seen[j] = Shown(v)
          /\ IsClass(meta, j) /\ v # "null" =>
               /\ replica.child # NoChild /\ seenKid = replica.child
               /\ replica.child.value = KidsValue(kid, v, host.index)
      BY <1>1, <2>4, <2>8, <3>1, SeenIsShown
    <3>. HIDE DEF v
    <3>3. IsClass(meta, j) /\ v # "null" =>
            \/ seenKid = KidAt(v, host.index)
            \/ host.index = 2 /\ (v = "t" \/ replica.type = "invalid")
      BY <1>1, <2>6, <3>2, ChildIsNamed
    <3>. QED  BY <2>5, <3>2, <3>3 DEF IsClass
  <2>. QED  BY <2>7, <2>8
<1>. QED  BY <1>1, ViewedThroughout, PTL

=============================================================================
