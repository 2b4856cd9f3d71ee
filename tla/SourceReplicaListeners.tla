----------------------- MODULE SourceReplicaListeners -----------------------
(***************************************************************************)
(* A client that acquires a name but once is listed at most once and       *)
(* initialized at most once per listing: a source and its replica share    *)
(* one token, which is in turn a request for the source, an entry of       *)
(* m_listeners and a RemoveObject on its way back.                         *)
(***************************************************************************)
EXTENDS SourceReplicaProofs

-----------------------------------------------------------------------------
(* Where a sequence has a message of a set *)

At(s, M) == {i \in DOMAIN s : s[i] \in M}
AtMostOne(S) == \A i, j \in S : i = j

(* The places of two sequences in a row. *)
LEMMA AtConcat ==
  ASSUME NEW S, NEW s \in Seq(S), NEW t \in Seq(S), NEW M
  PROVE  /\ Len(s) \in Nat /\ At(s, M) \subseteq 1..Len(s)
         /\ \A i \in At(s, M) : i \in At(s \o t, M) /\ (s \o t)[i] = s[i]
         /\ \A i \in At(t, M) :
              /\ i \in Nat /\ i >= 1
              /\ Len(s) + i \in At(s \o t, M) /\ (s \o t)[Len(s) + i] = t[i]
         /\ \A i \in At(s \o t, M) :
              \/ i \in At(s, M)
              \/ /\ i > Len(s) /\ i - Len(s) \in At(t, M)
                 /\ (s \o t)[i] = t[i - Len(s)]
<1>1. /\ s \o t \in Seq(S) /\ Len(s \o t) = Len(s) + Len(t)
      /\ \A i \in 1..Len(s) + Len(t) :
           (s \o t)[i] = IF i <= Len(s) THEN s[i] ELSE t[i - Len(s)]
  BY ConcatProperties
<1>2. /\ DOMAIN s = 1..Len(s) /\ Len(s) \in Nat
      /\ DOMAIN t = 1..Len(t) /\ Len(t) \in Nat
      /\ DOMAIN (s \o t) = 1..Len(s) + Len(t)
  BY <1>1, LenProperties
<1>. DEFINE u == s \o t
<1>3. /\ DOMAIN u = 1..Len(s) + Len(t)
      /\ \A i \in 1..Len(s) + Len(t) :
           u[i] = IF i <= Len(s) THEN s[i] ELSE t[i - Len(s)]
  BY <1>1, <1>2
<1>. HIDE DEF u
<1>4. \A i \in At(s, M) : i \in At(u, M) /\ u[i] = s[i]
  BY <1>2, <1>3 DEF At
<1>5. \A i \in At(t, M) : /\ i \in Nat /\ i >= 1
                          /\ Len(s) + i \in At(u, M) /\ u[Len(s) + i] = t[i]
  <2>1. SUFFICES ASSUME NEW i \in At(t, M)
                 PROVE  /\ i \in Nat /\ i >= 1
                        /\ Len(s) + i \in At(u, M) /\ u[Len(s) + i] = t[i]
    OBVIOUS
  <2>2. i \in 1..Len(t) /\ t[i] \in M
    BY <1>2 DEF At
  <2>3. /\ Len(s) + i \in 1..Len(s) + Len(t) /\ ~ (Len(s) + i <= Len(s))
        /\ (Len(s) + i) - Len(s) = i
    BY <1>2, <2>2
  <2>. QED  BY <1>3, <2>2, <2>3 DEF At
<1>6. \A i \in At(u, M) :
        \/ i \in At(s, M)
        \/ i > Len(s) /\ i - Len(s) \in At(t, M) /\ u[i] = t[i - Len(s)]
  <2>1. SUFFICES ASSUME NEW i \in At(u, M), ~ (i <= Len(s))
                 PROVE  i > Len(s) /\ i - Len(s) \in At(t, M) /\ u[i] = t[i - Len(s)]
    BY <1>2, <1>3 DEF At
  <2>2. i \in 1..Len(s) + Len(t) /\ u[i] \in M
    BY <1>3 DEF At
  <2>3. i - Len(s) \in 1..Len(t) /\ i > Len(s)
    BY <1>2, <2>1, <2>2
  <2>. QED  BY <1>2, <1>3, <2>1, <2>2, <2>3 DEF At
<1>. QED  BY <1>2, <1>4, <1>5, <1>6 DEF At, u

(* The places of the first part stay. *)
LEMMA AtFirst ==
  ASSUME NEW S, NEW s \in Seq(S), NEW t \in Seq(S), NEW M, NEW i \in At(s, M)
  PROVE  i \in At(s \o t, M) /\ (s \o t)[i] = s[i]
BY AtConcat

(* A place of the whole is one of the first part or of the second. *)
LEMMA AtEither ==
  ASSUME NEW S, NEW s \in Seq(S), NEW t \in Seq(S), NEW M, NEW i \in At(s \o t, M)
  PROVE  /\ i \in Nat
         /\ \/ i \in At(s, M)
            \/ i > Len(s) /\ i - Len(s) \in At(t, M) /\ (s \o t)[i] = t[i - Len(s)]
<1>1. s \o t \in Seq(S)
  BY ConcatProperties
<1>2. i \in Nat
  BY <1>1, LenProperties DEF At
<1>. QED  BY <1>2, AtConcat

(* What holds no message of the set adds no place. *)
LEMMA AtQuiet ==
  ASSUME NEW S, NEW s \in Seq(S), NEW t \in Seq(S), NEW M, At(t, M) = {}
  PROVE  /\ At(s \o t, M) = At(s, M)
         /\ \A i \in At(s, M) : (s \o t)[i] = s[i] /\ i \in 1..Len(s)
<1>. DEFINE u == s \o t
<1>1. /\ At(s, M) \subseteq 1..Len(s)
      /\ \A i \in At(s, M) : i \in At(u, M) /\ u[i] = s[i]
      /\ \A i \in At(u, M) : i \in At(s, M) \/ (i > Len(s) /\ i - Len(s) \in At(t, M))
  BY AtConcat
<1>. HIDE DEF u
<1>2. At(u, M) = At(s, M)
  BY <1>1
<1>. QED  BY <1>1, <1>2 DEF u

(* What remains when the first message is taken was one further on. *)
LEMMA AtShift ==
  ASSUME NEW S, NEW s \in Seq(S), s # <<>>, NEW M, NEW i \in At(Tail(s), M)
  PROVE  i \in Nat /\ i >= 1 /\ i + 1 \in At(s, M) /\ Tail(s)[i] = s[i + 1]
<1>1. /\ Len(s) \in Nat \ {0} /\ DOMAIN s = 1..Len(s)
      /\ Tail(s) \in Seq(S) /\ Len(Tail(s)) = Len(s) - 1
      /\ \A k \in 1..Len(Tail(s)) : Tail(s)[k] = s[k + 1]
  BY HeadTailProperties, EmptySeq, LenProperties
<1>2. DOMAIN Tail(s) = 1..Len(s) - 1
  BY <1>1, LenProperties
<1>. QED  BY <1>1, <1>2 DEF At

(* The places of what remains when the first message is taken. *)
LEMMA AtTail ==
  ASSUME NEW S, NEW s \in Seq(S), s # <<>>, NEW M
  PROVE  /\ Tail(s) \in Seq(S) /\ Head(s) = s[1]
         /\ At(s, M) \subseteq Nat \ {0}
         /\ Head(s) \in M <=> 1 \in At(s, M)
         /\ \A i \in At(Tail(s), M) : /\ i \in Nat /\ i >= 1
                                      /\ i + 1 \in At(s, M) /\ Tail(s)[i] = s[i + 1]
         /\ \A i \in At(s, M) : i # 1 => i - 1 \in At(Tail(s), M)
<1>1. /\ Len(s) \in Nat \ {0} /\ Head(s) = s[1] /\ DOMAIN s = 1..Len(s)
      /\ Tail(s) \in Seq(S) /\ Len(Tail(s)) = Len(s) - 1
      /\ \A i \in 1..Len(Tail(s)) : Tail(s)[i] = s[i + 1]
  BY HeadTailProperties, EmptySeq, LenProperties
<1>. DEFINE t == Tail(s)
<1>2. DOMAIN t = 1..Len(s) - 1 /\ \A i \in 1..Len(s) - 1 : t[i] = s[i + 1]
  BY <1>1, LenProperties
<1>. HIDE DEF t
<1>3. \A i \in At(t, M) : /\ i \in Nat /\ i >= 1
                          /\ i + 1 \in At(s, M) /\ t[i] = s[i + 1]
  BY <1>1, <1>2 DEF At
<1>4. \A i \in At(s, M) : i # 1 => i - 1 \in At(t, M)
  BY <1>1, <1>2 DEF At
<1>. QED  BY <1>1, <1>3, <1>4 DEF At, t

(* A sequence without a message of the set. *)
LEMMA AtEmpty ==
  ASSUME NEW M  PROVE At(<<>>, M) = {}
BY DEF At

-----------------------------------------------------------------------------
(* The token *)

(* The requests that list a connection and those that take it off the      *)
(* list; a packet that withdraws the source has the form of the latter.    *)
Adds(n) == {m \in Requests : m.type = "AddObject" /\ m.name = n}
Removes(n) == {m \in RemovePackets : m.name = n}
Firsts(n) == {m \in ValuePackets : m.type \in {"Init", "InitDynamic"} /\ m.name = n}

(* A connection of a client that acquired n acq times is in the list L     *)
(* times, with the requests q on their way.                                *)
Listed(acq, L, q, n) ==
  acq <= 1 =>
    /\ L <= 1
    /\ AtMostOne(At(q, Adds(n)))
    /\ L > 0 => At(q, Adds(n)) = {}
    /\ acq = 0 => L = 0 /\ At(q, Adds(n)) = {}

(* On the connection that the client uses, with the packets s to be read,  *)
(* where R are its replicas and A those attached: who is listed, or asks   *)
(* to be, is attached or has said that it is no longer; and is not told of *)
(* the withdrawal of the source before that happens.                       *)
Told(acq, L, q, s, R, A, n) ==
  acq <= 1 =>
    /\ L > 0 => n \in A \/ (n \notin R /\ At(q, Removes(n)) # {})
    /\ \A i \in At(q, Adds(n)) :
         n \in A \/ (n \notin R /\ \E j \in At(q, Removes(n)) : i < j)
    /\ L > 0 \/ At(q, Adds(n)) # {} => At(s, Removes(n)) = {}
    /\ AtMostOne(At(s, Removes(n)))
    /\ At(s, Removes(n)) # {} => acq # 0 /\ (n \in R => n \in A)

(* And the first values it asks for, or has not read, are its first ones   *)
(* of this listing, of the kind that its metaobject (H) calls for.         *)
First(acq, q, s, R, A, st, H, n) ==
  acq <= 1 =>
    /\ acq = 0 => At(s, Firsts(n)) = {}
    /\ n \in R =>
         /\ At(q, Adds(n)) # {} => At(s, Firsts(n)) = {}
         /\ At(s, Firsts(n)) # {} => n \in A
         /\ At(q, Adds(n)) # {} \/ At(s, Firsts(n)) # {} => st # Valid
         /\ \A i \in At(q, Adds(n)) : q[i].dynamic = (n \notin H)
         /\ AtMostOne(At(s, Firsts(n)))
         /\ \A i \in At(s, Firsts(n)) :
              /\ (s[i].type = "InitDynamic") = (n \notin H)
              /\ \A j \in At(s, Removes(n)) : i < j

(* What is sent that is neither of these leaves the token where it is. *)
LEMMA SentMore ==
  ASSUME NEW acq \in Nat, NEW L \in Nat, NEW q, NEW s \in Seq(Packets),
         NEW t \in Seq(Packets), NEW R, NEW A, NEW st, NEW H, NEW n,
         At(t, Removes(n)) = {}, At(t, Firsts(n)) = {},
         Told(acq, L, q, s, R, A, n), First(acq, q, s, R, A, st, H, n)
  PROVE  Told(acq, L, q, s \o t, R, A, n) /\ First(acq, q, s \o t, R, A, st, H, n)
<1>. DEFINE u == s \o t
<1>1. At(u, Removes(n)) = At(s, Removes(n))
  BY AtQuiet
<1>2. At(u, Firsts(n)) = At(s, Firsts(n)) /\ \A i \in At(s, Firsts(n)) : u[i] = s[i]
  BY AtQuiet
<1>. HIDE DEF u
<1>3. Told(acq, L, q, u, R, A, n)
  BY <1>1 DEF Told
<1>4. First(acq, q, u, R, A, st, H, n)
  BY <1>1, <1>2 DEF First
<1>. QED  BY <1>3, <1>4 DEF u

(* A withdrawal takes the token from the list. *)
LEMMA SentWithdrawal ==
  ASSUME NEW acq \in Nat, NEW L \in Nat, NEW q, NEW s \in Seq(Packets),
         NEW t \in Seq(Packets), NEW R, NEW A, NEW st, NEW H, NEW n,
         L > 0, acq <= 1 => AtMostOne(At(t, Removes(n))), At(t, Firsts(n)) = {},
         Listed(acq, L, q, n),
         Told(acq, L, q, s, R, A, n), First(acq, q, s, R, A, st, H, n)
  PROVE  Told(acq, 0, q, s \o t, R, A, n) /\ First(acq, q, s \o t, R, A, st, H, n)
<1>. SUFFICES ASSUME acq <= 1
              PROVE  Told(acq, 0, q, s \o t, R, A, n) /\ First(acq, q, s \o t, R, A, st, H, n)
  BY DEF Told, First
<1>. DEFINE u == s \o t
<1>1. At(q, Adds(n)) = {} /\ acq # 0
  BY DEF Listed
<1>2. At(s, Removes(n)) = {} /\ (n \in R => n \in A)
  BY DEF Told
<1>3. AtMostOne(At(u, Removes(n))) /\ \A j \in At(u, Removes(n)) : j > Len(s)
  <2>1. \A j \in At(u, Removes(n)) :
          j > Len(s) /\ j - Len(s) \in At(t, Removes(n))
    BY <1>2, AtConcat
  <2>2. \A i, j \in At(u, Removes(n)) : i - Len(s) = j - Len(s)
    BY <2>1 DEF AtMostOne
  <2>3. \A j \in At(u, Removes(n)) : j \in Nat
    BY <1>2, AtConcat, ConcatProperties, LenProperties DEF At
  <2>4. Len(s) \in Nat
    BY LenProperties
  <2>. HIDE DEF u
  <2>5. \A i, j \in At(u, Removes(n)) : i = j
    BY <2>2, <2>3, <2>4
  <2>. QED  BY <2>1, <2>5 DEF AtMostOne
<1>4. /\ At(u, Firsts(n)) = At(s, Firsts(n))
      /\ \A i \in At(s, Firsts(n)) : u[i] = s[i] /\ i \in 1..Len(s)
  BY AtQuiet
<1>5. Len(s) \in Nat /\ \A j \in At(u, Removes(n)) : j \in Nat
  <2>1. u \in Seq(Packets)
    BY ConcatProperties
  <2>. HIDE DEF u
  <2>. QED  BY <2>1, LenProperties DEF At
<1>. HIDE DEF u
<1>6. Told(acq, 0, q, u, R, A, n)
  BY <1>1, <1>2, <1>3 DEF Told
<1>7. \A i \in At(u, Firsts(n)), j \in At(u, Removes(n)) : i < j
  BY <1>3, <1>4, <1>5
<1>8. First(acq, q, u, R, A, st, H, n)
  BY <1>1, <1>4, <1>7 DEF First
<1>. QED  BY <1>6, <1>8 DEF u

(* A request that is read takes no token with it unless it removes it. *)
LEMMA RequestGone ==
  ASSUME NEW acq \in Nat, NEW L \in Nat, NEW M \in {0, L}, NEW q \in Seq(Requests),
         q # <<>>, NEW s, NEW R, NEW A, NEW st, NEW H, NEW n,
         M = 0 \/ Head(q) \notin Removes(n),
         Told(acq, L, q, s, R, A, n), First(acq, q, s, R, A, st, H, n)
  PROVE  Told(acq, M, Tail(q), s, R, A, n) /\ First(acq, Tail(q), s, R, A, st, H, n)
<1>. DEFINE u == Tail(q)
<1>1. /\ \A i \in At(u, Adds(n)) : /\ i \in Nat /\ i >= 1
                                   /\ i + 1 \in At(q, Adds(n)) /\ u[i] = q[i + 1]
      /\ \A i \in At(q, Removes(n)) : i # 1 => i - 1 \in At(u, Removes(n))
      /\ Head(q) \in Removes(n) <=> 1 \in At(q, Removes(n))
      /\ At(q, Removes(n)) \subseteq Nat \ {0}
  BY AtTail
<1>. HIDE DEF u
<1>2. At(u, Adds(n)) # {} => At(q, Adds(n)) # {}
  BY <1>1
<1>3. ASSUME acq <= 1, NEW i \in At(u, Adds(n)), n \notin A
      PROVE  n \notin R /\ \E j \in At(u, Removes(n)) : i < j
  <2>1. i \in Nat /\ i >= 1 /\ i + 1 \in At(q, Adds(n))
    BY <1>1
  <2>2. n \notin R
    BY <1>3, <2>1 DEF Told
  <2>3. PICK j \in At(q, Removes(n)) : i + 1 < j
    BY <1>3, <2>1 DEF Told
  <2>4. j \in Nat /\ j # 1 /\ j - 1 \in At(u, Removes(n)) /\ i < j - 1
    BY <1>1, <2>1, <2>3
  <2>. QED  BY <2>2, <2>4
<1>4. ASSUME acq <= 1, M > 0, n \notin A
      PROVE  n \notin R /\ At(u, Removes(n)) # {}
  <2>1. L > 0 /\ M = L /\ Head(q) \notin Removes(n)
    BY <1>4
  <2>2. n \notin R /\ At(q, Removes(n)) # {}
    BY <1>4, <2>1 DEF Told
  <2>. QED  BY <1>1, <2>1, <2>2
<1>5. M > 0 => L > 0
  OBVIOUS
<1>6. Told(acq, M, u, s, R, A, n)
  BY <1>2, <1>3, <1>4, <1>5 DEF Told
<1>7. First(acq, u, s, R, A, st, H, n)
  BY <1>1, <1>2 DEF First
<1>. QED  BY <1>6, <1>7 DEF u

(* With the connection's requests and entries its token is gone. *)
LEMMA ConnectionGone ==
  ASSUME NEW acq \in Nat, NEW L \in Nat, NEW q, NEW s, NEW R, NEW A, NEW st, NEW H, NEW n,
         Told(acq, L, q, s, R, A, n), First(acq, q, s, R, A, st, H, n)
  PROVE  Told(acq, 0, <<>>, s, R, A, n) /\ First(acq, <<>>, s, R, A, st, H, n)
BY AtEmpty DEF Told, First

(* addListener turns the request into an entry, and sends first values.    *)
LEMMA RequestAnswered ==
  ASSUME NEW acq \in Nat, NEW L \in Nat, NEW q \in Seq(Requests),
         q # <<>>, NEW s \in Seq(Packets), NEW t \in Seq(Packets),
         NEW R, NEW A, NEW st, NEW H, NEW n,
         Head(q) \in Adds(n), At(t, Removes(n)) = {}, AtMostOne(At(t, Firsts(n))),
         At(t, {f \in Firsts(n) : (f.type = "InitDynamic") # Head(q).dynamic}) = {},
         Listed(acq, L, q, n),
         Told(acq, L, q, s, R, A, n), First(acq, q, s, R, A, st, H, n)
  PROVE  /\ Told(acq, L + 1, Tail(q), s \o t, R, A, n)
         /\ First(acq, Tail(q), s \o t, R, A, st, H, n)
<1>. SUFFICES ASSUME acq <= 1
              PROVE  /\ Told(acq, L + 1, Tail(q), s \o t, R, A, n)
                     /\ First(acq, Tail(q), s \o t, R, A, st, H, n)
  BY DEF Told, First
<1>. DEFINE u == s \o t
            v == Tail(q)
<1>1. /\ 1 \in At(q, Adds(n)) /\ Head(q) = q[1]
      /\ \A i \in At(v, Adds(n)) : i \in Nat /\ i >= 1 /\ i + 1 \in At(q, Adds(n))
      /\ \A i \in At(q, Removes(n)) : i # 1 => i - 1 \in At(v, Removes(n))
  BY AtTail
<1>2. At(u, Removes(n)) = At(s, Removes(n))
  BY AtQuiet
<1>3. /\ Len(s) \in Nat
      /\ \A i \in At(u, Firsts(n)) :
           i \in At(s, Firsts(n)) \/ (i > Len(s) /\ i - Len(s) \in At(t, Firsts(n)))
  BY AtConcat
<1>4. \A i \in At(u, Firsts(n)) : i \in Nat
  <2>1. u \in Seq(Packets)
    BY ConcatProperties
  <2>. HIDE DEF u
  <2>. QED  BY <2>1, LenProperties DEF At
<1>. HIDE DEF u, v
<1>5. acq # 0 /\ At(v, Adds(n)) = {}
  <2>1. acq # 0
    BY <1>1 DEF Listed
  <2>2. ASSUME NEW i \in At(v, Adds(n))  PROVE FALSE
    <3>1. i \in Nat /\ i >= 1 /\ i + 1 = 1
      BY <1>1 DEF Listed, AtMostOne
    <3>. QED  BY <3>1
  <2>. QED  BY <2>1, <2>2
<1>6. At(s, Removes(n)) = {}
  BY <1>1 DEF Told
<1>7. n \in A \/ (n \notin R /\ At(v, Removes(n)) # {})
  <2>1. n \in A \/ (n \notin R /\ \E j \in At(q, Removes(n)) : 1 < j)
    BY <1>1 DEF Told
  <2>. QED  BY <1>1, <2>1
<1>8. Told(acq, L + 1, v, u, R, A, n)
  BY <1>2, <1>5, <1>6, <1>7 DEF Told, AtMostOne
<1>9. ASSUME n \in R
      PROVE  /\ n \in A /\ st # Valid
             /\ AtMostOne(At(u, Firsts(n)))
             /\ \A i \in At(u, Firsts(n)) : (u[i].type = "InitDynamic") = (n \notin H)
  <2>1. At(s, Firsts(n)) = {} /\ st # Valid /\ Head(q).dynamic = (n \notin H)
    BY <1>1, <1>9 DEF First
  <2>2. \A i \in At(u, Firsts(n)) : i \in Nat /\ i - Len(s) \in At(t, Firsts(n))
    BY <1>3, <1>4, <2>1
  <2>3. \A i, j \in At(u, Firsts(n)) : i - Len(s) = j - Len(s)
    BY <2>2 DEF AtMostOne
  <2>4. AtMostOne(At(u, Firsts(n)))
    BY <1>3, <2>2, <2>3 DEF AtMostOne
  <2>. DEFINE M == {f \in Firsts(n) : (f.type = "InitDynamic") # Head(q).dynamic}
  <2>5. At(s, M) = {} /\ At(t, M) = {}
    BY <2>1 DEF At
  <2>. HIDE DEF M
  <2>6. At(u, M) = {}
    BY <2>5, AtQuiet DEF u
  <2>7. \A i \in At(u, Firsts(n)) : (u[i].type = "InitDynamic") = Head(q).dynamic
    BY <2>6 DEF At, M
  <2>. QED  BY <1>7, <1>9, <2>1, <2>4, <2>7
<1>10. First(acq, v, u, R, A, st, H, n)
  BY <1>2, <1>5, <1>6, <1>9 DEF First
<1>. QED  BY <1>8, <1>10 DEF u, v

(* A packet that is read leaves the token where it is: other packets than  *)
(* first values do not make the replica Valid, or give it a metaobject.    *)
LEMMA PacketGone ==
  ASSUME NEW acq \in Nat, NEW L \in Nat, NEW q, NEW s \in Seq(Packets), s # <<>>,
         NEW R, NEW A, NEW st, NEW st2, NEW H, NEW H2, NEW n,
         \/ Head(s) \in Firsts(n)
         \/ (st # Valid => st2 # Valid) /\ (n \in H2 <=> n \in H),
         Told(acq, L, q, s, R, A, n), First(acq, q, s, R, A, st, H, n)
  PROVE  /\ Told(acq, L, q, Tail(s), R, A, n)
         /\ First(acq, q, Tail(s), R, A, st2, H2, n)
<1>. DEFINE u == Tail(s)
<1>0. s \in Seq(Packets) /\ s # <<>>
  OBVIOUS
<1>1. \A i \in At(u, Firsts(n)) : /\ i \in Nat /\ i >= 1
                                  /\ i + 1 \in At(s, Firsts(n)) /\ u[i] = s[i + 1]
  BY ONLY <1>0, AtShift
<1>2. \A i \in At(u, Removes(n)) : i \in Nat /\ i >= 1 /\ i + 1 \in At(s, Removes(n))
  BY ONLY <1>0, AtShift
<1>3. Head(s) \in Firsts(n) => 1 \in At(s, Firsts(n))
  BY AtTail
<1>. HIDE DEF u
<1>4. /\ At(s, Removes(n)) = {} => At(u, Removes(n)) = {}
      /\ At(s, Firsts(n)) = {} => At(u, Firsts(n)) = {}
  BY <1>1, <1>2
<1>5. AtMostOne(At(s, Removes(n))) => AtMostOne(At(u, Removes(n)))
  BY <1>2 DEF AtMostOne
<1>6. AtMostOne(At(s, Firsts(n))) => AtMostOne(At(u, Firsts(n)))
  BY <1>1 DEF AtMostOne
<1>7. Told(acq, L, q, u, R, A, n)
  BY <1>4, <1>5 DEF Told
<1>8. First(acq, q, u, R, A, st2, H2, n)
  <2>1. CASE acq <= 1 /\ n \in R /\ Head(s) \in Firsts(n)
    <3>1. At(q, Adds(n)) = {} /\ AtMostOne(At(s, Firsts(n)))
      BY <1>3, <2>1 DEF First
    <3>2. ASSUME NEW i \in At(u, Firsts(n))  PROVE FALSE
      <4>1. i \in Nat /\ i >= 1 /\ i + 1 = 1
        BY <1>1, <1>3, <2>1, <3>1 DEF AtMostOne
      <4>. QED  BY <4>1
    <3>3. At(u, Firsts(n)) = {}
      BY <3>2
    <3>. QED  BY <3>1, <3>3 DEF First, AtMostOne
  <2>2. CASE acq <= 1 /\ n \in R /\ Head(s) \notin Firsts(n)
    <3>1. (st # Valid => st2 # Valid) /\ (n \in H2 <=> n \in H)
      BY <2>2
    <3>2. /\ At(q, Adds(n)) # {} => At(u, Firsts(n)) = {}
          /\ At(u, Firsts(n)) # {} => n \in A
          /\ At(q, Adds(n)) # {} \/ At(u, Firsts(n)) # {} => st2 # Valid
          /\ acq = 0 => At(u, Firsts(n)) = {}
      BY <1>4, <2>2, <3>1 DEF First
    <3>3. AtMostOne(At(u, Firsts(n)))
      BY <1>6, <2>2 DEF First
    <3>4. \A i \in At(q, Adds(n)) : q[i].dynamic = (n \notin H2)
      BY <2>2, <3>1 DEF First
    <3>5. ASSUME NEW i \in At(u, Firsts(n))
          PROVE  /\ (u[i].type = "InitDynamic") = (n \notin H2)
                 /\ \A j \in At(u, Removes(n)) : i < j
      <4>1. /\ i \in Nat /\ i + 1 \in At(s, Firsts(n)) /\ u[i] = s[i + 1]
            /\ \A j \in At(u, Removes(n)) : j \in Nat /\ j + 1 \in At(s, Removes(n))
        BY <1>1, <1>2
      <4>2. /\ (s[i + 1].type = "InitDynamic") = (n \notin H)
            /\ \A j \in At(s, Removes(n)) : i + 1 < j
        BY <2>2, <4>1 DEF First
      <4>3. \A j \in At(u, Removes(n)) : i + 1 < j + 1
        BY <4>1, <4>2
      <4>. QED  BY <3>1, <4>1, <4>2, <4>3
    <3>. QED  BY <3>2, <3>3, <3>4, <3>5 DEF First
  <2>3. acq <= 1 /\ acq = 0 => At(u, Firsts(n)) = {}
    BY <1>4 DEF First
  <2>. QED  BY <2>1, <2>2, <2>3 DEF First
<1>. QED  BY <1>7, <1>8 DEF u

(* The withdrawal that is read is the token, so that the replica that it   *)
(* detaches is free to ask again.                                          *)
LEMMA WithdrawalRead ==
  ASSUME NEW acq \in Nat, NEW L \in Nat, NEW q, NEW s \in Seq(Packets), s # <<>>,
         NEW R, NEW A, NEW B, NEW st, NEW st2, NEW H, NEW n,
         Head(s) \in Removes(n),
         Told(acq, L, q, s, R, A, n), First(acq, q, s, R, A, st, H, n)
  PROVE  /\ Told(acq, L, q, Tail(s), R, B, n)
         /\ First(acq, q, Tail(s), R, B, st2, H, n)
<1>. SUFFICES ASSUME acq <= 1
              PROVE  /\ Told(acq, L, q, Tail(s), R, B, n)
                     /\ First(acq, q, Tail(s), R, B, st2, H, n)
  BY DEF Told, First
<1>. DEFINE u == Tail(s)
<1>1. /\ \A i \in At(u, Firsts(n)) : /\ i \in Nat /\ i >= 1
                                     /\ i + 1 \in At(s, Firsts(n))
      /\ \A i \in At(u, Removes(n)) : /\ i \in Nat /\ i >= 1
                                      /\ i + 1 \in At(s, Removes(n))
      /\ 1 \in At(s, Removes(n))
  BY AtTail
<1>. HIDE DEF u
<1>2. ~ (L > 0) /\ At(q, Adds(n)) = {} /\ AtMostOne(At(s, Removes(n)))
  BY <1>1 DEF Told
<1>3. At(u, Removes(n)) = {}
  <2>1. ASSUME NEW i \in At(u, Removes(n))  PROVE FALSE
    <3>1. i \in Nat /\ i >= 1 /\ i + 1 = 1
      BY <1>1, <1>2 DEF AtMostOne
    <3>. QED  BY <3>1
  <2>. QED  BY <2>1
<1>4. Told(acq, L, q, u, R, B, n)
  BY <1>2, <1>3 DEF Told, AtMostOne
<1>5. ASSUME n \in R \/ acq = 0  PROVE At(u, Firsts(n)) = {}
  <2>1. ASSUME NEW i \in At(u, Firsts(n))  PROVE FALSE
    <3>1. i \in Nat /\ i >= 1 /\ i + 1 \in At(s, Firsts(n))
      BY <1>1
    <3>2. i + 1 < 1
      BY <1>1, <1>5, <3>1 DEF First
    <3>. QED  BY <3>1, <3>2
  <2>. QED  BY <2>1
<1>6. First(acq, q, u, R, B, st2, H, n)
  BY <1>2, <1>5 DEF First, AtMostOne
<1>. QED  BY <1>4, <1>6 DEF u

(* Requests for other names leave the token where it is. *)
LEMMA RequestMore ==
  ASSUME NEW acq \in Nat, NEW L \in Nat, NEW q \in Seq(Requests),
         NEW t \in Seq(Requests), NEW s, NEW R, NEW A, NEW st, NEW H, NEW n,
         At(t, Adds(n)) = {},
         Told(acq, L, q, s, R, A, n), First(acq, q, s, R, A, st, H, n)
  PROVE  Told(acq, L, q \o t, s, R, A, n) /\ First(acq, q \o t, s, R, A, st, H, n)
<1>. DEFINE u == q \o t
<1>1. At(u, Adds(n)) = At(q, Adds(n)) /\ \A i \in At(q, Adds(n)) : u[i] = q[i]
  BY AtQuiet
<1>2. \A j \in At(q, Removes(n)) : j \in At(u, Removes(n))
  BY AtFirst
<1>. HIDE DEF u
<1>3. Told(acq, L, u, s, R, A, n)
  BY <1>1, <1>2 DEF Told
<1>4. First(acq, u, s, R, A, st, H, n)
  BY <1>1 DEF First
<1>. QED  BY <1>3, <1>4 DEF u

(* What the token depends on of a client's tables is what they say of n. *)
LEMMA SameMembers ==
  ASSUME NEW acq, NEW L, NEW q, NEW s, NEW R, NEW A, NEW st, NEW H, NEW n,
         NEW R2, NEW A2, NEW H2, n \in R2 <=> n \in R, n \in A2 <=> n \in A,
         n \in H2 <=> n \in H,
         Told(acq, L, q, s, R, A, n), First(acq, q, s, R, A, st, H, n)
  PROVE  Told(acq, L, q, s, R2, A2, n) /\ First(acq, q, s, R2, A2, st, H2, n)
<1>1. Told(acq, L, q, s, R2, A2, n)
  BY DEF Told
<1>2. (n \notin H2) = (n \notin H)
  OBVIOUS
<1>3. First(acq, q, s, R2, A2, st, H2, n)
  BY <1>2 DEF First
<1>. QED  BY <1>1, <1>3

(* A replica without a token takes one when it asks for its source. *)
LEMMA Asked ==
  ASSUME NEW acq \in Nat, acq # 0, NEW q \in Seq(Requests), NEW t \in Seq(Requests),
         NEW s, NEW R, NEW A, NEW st, NEW H, NEW n,
         At(q, Adds(n)) = {}, At(s, Removes(n)) = {}, At(s, Firsts(n)) = {},
         n \in A, st # Valid,
         At(t, {m \in Adds(n) : m.dynamic # (n \notin H)}) = {}
  PROVE  Told(acq, 0, q \o t, s, R, A, n) /\ First(acq, q \o t, s, R, A, st, H, n)
<1>. DEFINE u == q \o t
            M == {m \in Adds(n) : m.dynamic # (n \notin H)}
<1>1. At(t, M) = {} /\ At(q, M) = {}
  BY DEF At
<1>. HIDE DEF M
<1>2. At(u, M) = {}
  BY <1>1, AtQuiet
<1>. HIDE DEF u
<1>3. \A i \in At(u, Adds(n)) : u[i].dynamic = (n \notin H)
  BY <1>2 DEF At, M
<1>4. Told(acq, 0, u, s, R, A, n)
  BY DEF Told, AtMostOne
<1>5. First(acq, u, s, R, A, st, H, n)
  BY <1>3 DEF First, AtMostOne
<1>. QED  BY <1>4, <1>5 DEF u

(* Before a replica's first life, and while it is detached, there is none. *)
LEMMA NoToken ==
  ASSUME NEW acq \in Nat, acq <= 1, NEW L \in Nat, NEW q, NEW s, NEW R, NEW A, NEW st,
         NEW H, NEW n, acq = 0 \/ (n \in R /\ n \notin A), Listed(acq, L, q, n),
         Told(acq, L, q, s, R, A, n), First(acq, q, s, R, A, st, H, n)
  PROVE  /\ L = 0 /\ At(q, Adds(n)) = {}
         /\ At(s, Removes(n)) = {} /\ At(s, Firsts(n)) = {}
BY DEF Listed, Told, First

(* A replica that is destroyed says so behind what it has asked for, if it *)
(* is attached and the host can still hear it.                             *)
LEMMA LeftBehind ==
  ASSUME NEW acq \in Nat, acq # 0, NEW L \in Nat, NEW q \in Seq(Requests),
         NEW u, NEW s, NEW R, NEW A, NEW B, NEW B2, NEW st, NEW st2, NEW H, NEW H2, NEW n,
         n \in R, n \notin B,
         \/ u = q \o <<RemoveObject(n)>> /\ n \in Names
         \/ u = q /\ n \notin A
         \/ u = <<>> /\ L = 0,
         Told(acq, L, q, s, R, A, n), First(acq, q, s, R, A, st, H, n)
  PROVE  Told(acq, L, u, s, B, B2, n) /\ First(acq, u, s, B, B2, st2, H2, n)
<1>1. First(acq, u, s, B, B2, st2, H2, n)
  BY DEF First
<1>2. CASE u = q \o <<RemoveObject(n)>> /\ n \in Names
  <2>0. PICK t : t = <<RemoveObject(n)>>
    OBVIOUS
  <2>1. /\ t \in Seq(Requests) /\ Len(t) = 1 /\ t[1] = RemoveObject(n)
        /\ u = q \o t
    BY <1>2, <2>0 DEF RemoveObject, Requests, RemovePackets
  <2>2. RemoveObject(n) \in Removes(n) /\ RemoveObject(n) \notin Adds(n)
    BY <1>2 DEF RemoveObject, Removes, Adds, RemovePackets
  <2>3. DOMAIN t = {1}
    BY <2>1
  <2>4. At(t, Adds(n)) = {} /\ 1 \in At(t, Removes(n))
    BY <2>1, <2>2, <2>3 DEF At
  <2>5. /\ At(u, Adds(n)) = At(q, Adds(n))
        /\ \A i \in At(q, Adds(n)) : i \in 1..Len(q)
    BY <2>1, <2>4, AtQuiet
  <2>6. Len(q) \in Nat /\ Len(q) + 1 \in At(u, Removes(n))
    BY <2>1, <2>4, AtConcat
  <2>7. \A i \in At(u, Adds(n)) : i < Len(q) + 1
    BY <2>5, <2>6
  <2>. QED  BY <1>1, <2>5, <2>6, <2>7 DEF Told
<1>3. CASE u = q /\ n \notin A
  BY <1>1, <1>3 DEF Told
<1>4. CASE u = <<>> /\ L = 0
  BY <1>1, <1>4, AtEmpty DEF Told
<1>. QED  BY <1>2, <1>3, <1>4

(* What is not about n, or takes entries and requests away, lists no more. *)
LEMMA ListedLess ==
  ASSUME NEW acq \in Nat, NEW acq2 \in Nat, acq <= acq2, NEW L \in Nat,
         NEW M \in {0, L}, NEW q \in Seq(Requests), NEW u, NEW n,
         \/ u = q \/ u = <<>>
         \/ q # <<>> /\ u = Tail(q)
         \/ \E t \in Seq(Requests) : At(t, Adds(n)) = {} /\ u = q \o t,
         Listed(acq, L, q, n)
  PROVE  Listed(acq2, M, u, n)
<1>1. CASE u = q
  BY <1>1 DEF Listed
<1>2. CASE u = <<>>
  BY <1>2, AtEmpty DEF Listed, AtMostOne
<1>3. CASE q # <<>> /\ u = Tail(q)
  <2>1. \A i \in At(u, Adds(n)) : i \in Nat /\ i + 1 \in At(q, Adds(n))
    BY <1>3, AtShift
  <2>2. At(q, Adds(n)) = {} => At(u, Adds(n)) = {}
    BY <2>1
  <2>3. AtMostOne(At(q, Adds(n))) => AtMostOne(At(u, Adds(n)))
    BY <2>1 DEF AtMostOne
  <2>. QED  BY <2>2, <2>3 DEF Listed
<1>4. ASSUME NEW t \in Seq(Requests), At(t, Adds(n)) = {}, u = q \o t
      PROVE  Listed(acq2, M, u, n)
  <2>1. At(u, Adds(n)) = At(q, Adds(n))
    BY <1>4, AtQuiet
  <2>. QED  BY <2>1 DEF Listed
<1>. QED  BY <1>1, <1>2, <1>3, <1>4

(* The entry that addListener makes takes the place of the request. *)
LEMMA ListedAnswered ==
  ASSUME NEW acq \in Nat, NEW L \in Nat, NEW q \in Seq(Requests), q # <<>>, NEW n,
         Head(q) \in Adds(n), Listed(acq, L, q, n)
  PROVE  Listed(acq, L + 1, Tail(q), n)
<1>. DEFINE u == Tail(q)
<1>1. \A i \in At(u, Adds(n)) : i \in Nat /\ i >= 1 /\ i + 1 \in At(q, Adds(n))
  BY AtShift
<1>2. 1 \in At(q, Adds(n))
  BY AtTail
<1>. HIDE DEF u
<1>3. ASSUME acq <= 1, NEW i \in At(u, Adds(n))  PROVE FALSE
  <2>1. i \in Nat /\ i >= 1 /\ i + 1 = 1
    BY <1>1, <1>2, <1>3 DEF Listed, AtMostOne
  <2>. QED  BY <2>1
<1>4. acq <= 1 => At(u, Adds(n)) = {} /\ acq # 0 /\ ~ (L > 0)
  BY <1>2, <1>3 DEF Listed
<1>5. Listed(acq, L + 1, u, n)
  BY <1>4 DEF Listed, AtMostOne
<1>. QED  BY <1>5 DEF u

(* Who has no token may make one request. *)
LEMMA ListedAsked ==
  ASSUME NEW acq \in Nat, acq # 0, NEW q \in Seq(Requests), NEW t \in Seq(Requests),
         NEW n, At(q, Adds(n)) = {}, AtMostOne(At(t, Adds(n)))
  PROVE  Listed(acq, 0, q \o t, n)
<1>. DEFINE u == q \o t
<1>1. Len(q) \in Nat
  BY LenProperties
<1>2. \A i \in At(u, Adds(n)) : i \in Nat /\ i - Len(q) \in At(t, Adds(n))
  BY AtEither
<1>. HIDE DEF u
<1>3. \A i, j \in At(u, Adds(n)) : i - Len(q) = j - Len(q)
  BY <1>2 DEF AtMostOne
<1>4. AtMostOne(At(u, Adds(n)))
  BY <1>1, <1>2, <1>3 DEF AtMostOne
<1>5. Listed(acq, 0, u, n)
  BY <1>4 DEF Listed
<1>. QED  BY <1>5 DEF u

-----------------------------------------------------------------------------
(* The invariant *)

(* Nobody hears what a client sends on a connection whose other end is     *)
(* gone, and a living replica has been acquired.                           *)
HostHears == \A cc \in Conns : toHost[cc] # <<>> => cc \in backlog \cup connections

AcquiredFirst == \A c \in Clients : \A n \in replicas[c] : acquires[c][n] # 0

ListedOK(cc, n) == Listed(acquires[cc[1]][n], listeners[n][cc], toHost[cc], n)

ToldOK(c, n) ==
  Told(acquires[c][n], listeners[n][Current(c)], toHost[Current(c)], toClient[c],
       replicas[c], attached[c], n)

FirstOK(c, n) ==
  First(acquires[c][n], toHost[Current(c)], toClient[c], replicas[c], attached[c],
        state[c][n], hasMeta[c], n)

TokenOK(c, n) == ToldOK(c, n) /\ FirstOK(c, n)

EachListed == \A cc \in Conns, n \in Names : ListedOK(cc, n)
EachToken == \A c \in linked, n \in Names : TokenOK(c, n)

ListingInv == HostHears /\ AcquiredFirst /\ EachListed /\ EachToken

(* The types of what these compare. *)
LEMMA TokenTypes ==
  ASSUME TypeOK
  PROVE  /\ \A c \in linked : /\ c \in Clients /\ Current(c) \in Conns
                              /\ Current(c)[1] = c /\ toClient[c] \in Seq(Packets)
         /\ \A cc \in Conns : cc[1] \in Clients /\ toHost[cc] \in Seq(Requests)
         /\ \A cc \in Conns, n \in Names : listeners[n][cc] \in Nat
         /\ \A c \in Clients, n \in Names : acquires[c][n] \in Nat
BY BoundsAreNaturals
   DEF TypeOK, HostTypeOK, WireTypeOK, ClientTypeOK, Current, Conns

-----------------------------------------------------------------------------
(* The host's steps *)

(* What Send adds to the packets of a linked client: copies of m. *)
LEMMA SentTo ==
  ASSUME TypeOK, NEW times \in [Conns -> Nat], NEW m \in Packets,
         toClient' = Send(times, m), NEW c \in linked
  PROVE  \E t \in Seq(Packets) :
           /\ toClient'[c] = toClient[c] \o t
           /\ \A M : m \notin M \/ times[Current(c)] = 0 => At(t, M) = {}
           /\ times[Current(c)] <= 1 => \A M : AtMostOne(At(t, M))
<1>1. c \in Clients /\ times[Current(c)] \in Nat
  BY TokenTypes
<1>. DEFINE t == [i \in 1..times[Current(c)] |-> m]
<1>2. t \in Seq(Packets) /\ DOMAIN t = 1..times[Current(c)] /\ \A i \in DOMAIN t : t[i] = m
  BY <1>1
<1>3. toClient'[c] = toClient[c] \o t
  BY <1>1 DEF Send
<1>. HIDE DEF t
<1>4. \A M : m \notin M \/ times[Current(c)] = 0 => At(t, M) = {}
  BY <1>1, <1>2 DEF At
<1>5. times[Current(c)] <= 1 => \A M : AtMostOne(At(t, M))
  BY <1>1, <1>2 DEF At, AtMostOne
<1>. QED  BY <1>2, <1>3, <1>4, <1>5

(* A packet that neither initializes nor withdraws n, or that is sent to   *)
(* others, leaves the token of n where it is.                              *)
LEMMA SendQuiet ==
  ASSUME TypeOK, NEW times \in [Conns -> Nat], NEW m \in Packets,
         toClient' = Send(times, m), UNCHANGED <<clientVars, acquires>>,
         NEW c \in linked, NEW n \in Names,
         times[Current(c)] = 0 \/ (m \notin Removes(n) /\ m \notin Firsts(n)),
         TokenOK(c, n), listeners'[n][Current(c)] = listeners[n][Current(c)],
         toHost'[Current(c)] = toHost[Current(c)]
  PROVE  TokenOK(c, n)'
<1>1. PICK t \in Seq(Packets) :
        /\ toClient'[c] = toClient[c] \o t
        /\ \A M : m \notin M \/ times[Current(c)] = 0 => At(t, M) = {}
        /\ times[Current(c)] <= 1 => \A M : AtMostOne(At(t, M))
  BY SentTo, Zenon
<1>2. At(t, Removes(n)) = {} /\ At(t, Firsts(n)) = {}
  BY <1>1
<1>3. /\ acquires[c][n] \in Nat /\ listeners[n][Current(c)] \in Nat
      /\ toClient[c] \in Seq(Packets)
  BY TokenTypes
<1>4. /\ Told(acquires[c][n], listeners[n][Current(c)], toHost[Current(c)],
              toClient[c] \o t, replicas[c], attached[c], n)
      /\ First(acquires[c][n], toHost[Current(c)], toClient[c] \o t, replicas[c],
               attached[c], state[c][n], hasMeta[c], n)
  BY <1>2, <1>3, SentMore DEF TokenOK, ToldOK, FirstOK
<1>5. /\ Current(c)' = Current(c)
      /\ UNCHANGED <<acquires, replicas, attached, state, hasMeta>>
  BY DEF Current, clientVars, replicaVars
<1>. QED  BY <1>1, <1>4, <1>5 DEF TokenOK, ToldOK, FirstOK

(* What the host does leaves each connection listed as it should be. *)
LEMMA ListedHost ==
  ASSUME TypeOK, EachListed, HostNext  PROVE EachListed'
<1>. SUFFICES ASSUME NEW cc \in Conns, NEW n \in Names  PROVE ListedOK(cc, n)'
  BY DEF EachListed
<1>0. /\ toHost \in [Conns -> Seq(Requests)] /\ listeners \in [Names -> [Conns -> Nat]]
      /\ acquires[cc[1]][n] \in Nat /\ listeners[n][cc] \in Nat
      /\ toHost[cc] \in Seq(Requests) /\ acquires' = acquires
  BY TokenTypes
  DEF TypeOK, HostTypeOK, WireTypeOK, HostNext, OnServerRead, EnableRemoting,
      DisableRemoting, SetProperty, NewConnection, OnServerDisconnect,
      ServerReadAddObject, ServerDropAddObject, ServerReadRemoveObject, boundVars
<1>. DEFINE q == toHost[cc]
            L == listeners[n][cc]
            acq == acquires[cc[1]][n]
<1>1. Listed(acq, L, q, n)
  BY DEF EachListed, ListedOK
<1>2. SUFFICES Listed(acq, listeners'[n][cc], toHost'[cc], n)
  BY <1>0 DEF ListedOK
<1>3. ASSUME listeners'[n][cc] \in {0, L},
             toHost'[cc] \in {q, <<>>} \/ (q # <<>> /\ toHost'[cc] = Tail(q))
      PROVE  Listed(acq, listeners'[n][cc], toHost'[cc], n)
  <2>. HIDE DEF q, L, acq
  <2>1. q \in Seq(Requests) /\ L \in Nat /\ acq \in Nat /\ acq <= acq
    BY <1>0 DEF q, L, acq
  <2>. QED  BY <1>1, <1>3, <2>1, ListedLess
<1>4. CASE \E k \in Names :
             \/ \E sig \in SourceSignatures : EnableRemoting(k, sig)
             \/ DisableRemoting(k) \/ SetProperty(k)
  <2>1. /\ toHost' = toHost
        /\ \/ listeners' = listeners
           \/ \E k \in Names : listeners' = [listeners EXCEPT ![k] = NoListeners]
    BY <1>4 DEF EnableRemoting, DisableRemoting, SetProperty
  <2>2. listeners'[n][cc] \in {0, L}
    BY <1>0, <2>1 DEF NoListeners
  <2>. QED  BY <1>3, <2>1, <2>2
<1>5. ASSUME NEW d \in Conns, NewConnection(d)
      PROVE  Listed(acq, listeners'[n][cc], toHost'[cc], n)
  BY <1>3, <1>5 DEF NewConnection
<1>6. ASSUME NEW d \in Conns, OnServerDisconnect(d)
      PROVE  Listed(acq, listeners'[n][cc], toHost'[cc], n)
  <2>1. listeners'[n][cc] \in {0, L} /\ toHost'[cc] \in {q, <<>>}
    BY <1>0, <1>6 DEF OnServerDisconnect
  <2>. QED  BY <1>3, <2>1
<1>7. ASSUME NEW d \in Conns, ServerReadAddObject(d)
      PROVE  Listed(acq, listeners'[n][cc], toHost'[cc], n)
  <2>. DEFINE m == Head(toHost[d])
  <2>1. /\ toHost[d] # <<>> /\ m.type = "AddObject"
        /\ toHost' = [toHost EXCEPT ![d] = Tail(@)]
        /\ listeners' = [listeners EXCEPT ![m.name][d] = @ + 1]
    BY <1>7 DEF ServerReadAddObject, ServerReads
  <2>2. m \in Requests
    BY <2>1, ServerReadsType
  <2>. HIDE DEF m
  <2>3. CASE cc = d /\ n = m.name
    <3>1. listeners'[n][cc] = L + 1 /\ toHost'[cc] = Tail(q) /\ q # <<>>
      BY <1>0, <2>1, <2>3
    <3>2. Head(q) \in Adds(n)
      BY <2>1, <2>2, <2>3 DEF Adds, m
    <3>. HIDE DEF q, L, acq
    <3>3. q \in Seq(Requests) /\ L \in Nat /\ acq \in Nat
      BY <1>0 DEF q, L, acq
    <3>. QED  BY <1>1, <3>1, <3>2, <3>3, ListedAnswered
  <2>4. CASE ~ (cc = d /\ n = m.name)
    <3>1. listeners'[n][cc] = L
      BY <1>0, <2>1, <2>4
    <3>2. toHost'[cc] = q \/ (q # <<>> /\ toHost'[cc] = Tail(q))
      BY <1>0, <2>1
    <3>. QED  BY <1>3, <3>1, <3>2
  <2>. QED  BY <2>3, <2>4
<1>8. ASSUME NEW d \in Conns, ServerDropAddObject(d)
      PROVE  Listed(acq, listeners'[n][cc], toHost'[cc], n)
  <2>1. toHost[d] # <<>> /\ toHost' = [toHost EXCEPT ![d] = Tail(@)] /\ listeners' = listeners
    BY <1>8 DEF ServerDropAddObject, ServerReads, hostVars
  <2>2. toHost'[cc] = q \/ (q # <<>> /\ toHost'[cc] = Tail(q))
    BY <1>0, <2>1
  <2>. QED  BY <1>3, <2>1, <2>2
<1>9. ASSUME NEW d \in Conns, ServerReadRemoveObject(d)
      PROVE  Listed(acq, listeners'[n][cc], toHost'[cc], n)
  <2>1. /\ toHost[d] # <<>> /\ toHost' = [toHost EXCEPT ![d] = Tail(@)]
        /\ \E k : listeners' \in {listeners, [listeners EXCEPT ![k][d] = 0]}
    BY <1>9 DEF ServerReadRemoveObject, ServerReads
  <2>2. toHost'[cc] = q \/ (q # <<>> /\ toHost'[cc] = Tail(q))
    BY <1>0, <2>1
  <2>3. PICK k : listeners' \in {listeners, [listeners EXCEPT ![k][d] = 0]}
    BY <2>1
  <2>4. listeners'[n][cc] \in {0, L}
    BY <1>0, <2>3
  <2>. QED  BY <1>3, <2>2, <2>4
<1>. QED  BY <1>4, <1>5, <1>6, <1>7, <1>8, <1>9 DEF HostNext, OnServerRead

(* What the host does without sending a packet to the client leaves its    *)
(* token where it is, or takes it away.                                    *)
LEMMA QuietHost ==
  ASSUME TypeOK, NEW c \in linked, NEW n \in Names, TokenOK(c, n),
         UNCHANGED <<clientVars, acquires>>, toClient'[c] = toClient[c],
         \/ listeners'[n][Current(c)] = 0 /\ toHost'[Current(c)] = <<>>
         \/ /\ listeners'[n][Current(c)] \in {0, listeners[n][Current(c)]}
            /\ toHost[Current(c)] # <<>>
            /\ toHost'[Current(c)] = Tail(toHost[Current(c)])
            /\ \/ listeners'[n][Current(c)] = 0
               \/ Head(toHost[Current(c)]) \notin Removes(n)
  PROVE  TokenOK(c, n)'
<1>1. /\ Current(c)' = Current(c)
      /\ UNCHANGED <<acquires, replicas, attached, state, hasMeta>>
  BY DEF Current, clientVars, replicaVars
<1>. DEFINE q == toHost[Current(c)]
            u == toHost'[Current(c)]
            L == listeners[n][Current(c)]
            M == listeners'[n][Current(c)]
            acq == acquires[c][n]
<1>2. q \in Seq(Requests) /\ L \in Nat /\ acq \in Nat
  BY TokenTypes
<1>3. /\ Told(acq, L, q, toClient[c], replicas[c], attached[c], n)
      /\ First(acq, q, toClient[c], replicas[c], attached[c], state[c][n], hasMeta[c], n)
  BY DEF TokenOK, ToldOK, FirstOK
<1>4. \/ M = 0 /\ u = <<>>
      \/ /\ M \in {0, L} /\ q # <<>> /\ u = Tail(q)
         /\ M = 0 \/ Head(q) \notin Removes(n)
  OBVIOUS
<1>5. SUFFICES /\ Told(acq, M, u, toClient[c], replicas[c], attached[c], n)
               /\ First(acq, u, toClient[c], replicas[c], attached[c], state[c][n],
                        hasMeta[c], n)
  BY <1>1 DEF TokenOK, ToldOK, FirstOK
<1>. HIDE DEF q, u, L, M, acq
<1>6. CASE M = 0 /\ u = <<>>
  BY <1>2, <1>3, <1>6, ConnectionGone
<1>7. CASE /\ M \in {0, L} /\ q # <<>> /\ u = Tail(q)
           /\ M = 0 \/ Head(q) \notin Removes(n)
  BY <1>2, <1>3, <1>7, RequestGone
<1>. QED  BY <1>4, <1>6, <1>7

(* Withdrawing a source turns its entries into packets. *)
LEMMA TokenDisable ==
  ASSUME TypeOK, EachListed, EachToken, NEW k \in Names, DisableRemoting(k),
         NEW c \in linked, NEW n \in Names
  PROVE  TokenOK(c, n)'
<1>. DEFINE cc == Current(c)
            m == RemoveObject(k)
<1>0. /\ listeners \in [Names -> [Conns -> Nat]] /\ c \in Clients /\ cc \in Conns
      /\ cc[1] = c /\ toClient[c] \in Seq(Packets) /\ acquires[c][n] \in Nat
      /\ listeners[n][cc] \in Nat
  BY TokenTypes DEF TypeOK, HostTypeOK
<1>1. /\ listeners' = [listeners EXCEPT ![k] = NoListeners]
      /\ toClient' = Send(listeners[k], m) /\ toHost' = toHost
      /\ UNCHANGED <<clientVars, acquires>>
  BY DEF DisableRemoting, boundVars
<1>2. /\ listeners[k] \in [Conns -> Nat] /\ m \in Packets
      /\ m.name = k /\ m.type = "RemoveObject"
  BY <1>0 DEF RemoveObject, Packets, RemovePackets
<1>. HIDE DEF cc, m
<1>3. TokenOK(c, n) /\ ListedOK(cc, n)
  BY <1>0 DEF EachListed, EachToken
<1>4. m \notin Firsts(n) /\ (n # k => m \notin Removes(n))
  BY <1>2 DEF Firsts, Removes
<1>5. CASE n # k \/ listeners[n][cc] = 0
  <2>1. listeners'[n][cc] = listeners[n][cc]
    BY <1>0, <1>1, <1>5 DEF NoListeners
  <2>2. listeners[k][cc] = 0 \/ (m \notin Removes(n) /\ m \notin Firsts(n))
    BY <1>4, <1>5
  <2>. QED  BY <1>1, <1>2, <1>3, <2>1, <2>2, SendQuiet DEF cc
<1>6. CASE n = k /\ listeners[n][cc] > 0
  <2>1. PICK t \in Seq(Packets) :
          /\ toClient'[c] = toClient[c] \o t
          /\ \A M : m \notin M \/ listeners[k][cc] = 0 => At(t, M) = {}
          /\ listeners[k][cc] <= 1 => \A M : AtMostOne(At(t, M))
    BY <1>1, <1>2, SentTo DEF cc
  <2>2. listeners'[n][cc] = 0
    BY <1>0, <1>1, <1>6 DEF NoListeners
  <2>3. At(t, Firsts(n)) = {}
    BY <1>4, <2>1
  <2>4. acquires[c][n] <= 1 => AtMostOne(At(t, Removes(n)))
    BY <1>0, <1>3, <1>6, <2>1 DEF ListedOK, Listed
  <2>5. /\ Listed(acquires[c][n], listeners[n][cc], toHost[cc], n)
        /\ Told(acquires[c][n], listeners[n][cc], toHost[cc], toClient[c],
                replicas[c], attached[c], n)
        /\ First(acquires[c][n], toHost[cc], toClient[c], replicas[c], attached[c],
                 state[c][n], hasMeta[c], n)
    BY <1>0, <1>3 DEF ListedOK, TokenOK, ToldOK, FirstOK, cc
  <2>6. /\ Told(acquires[c][n], 0, toHost[cc], toClient[c] \o t, replicas[c],
                attached[c], n)
        /\ First(acquires[c][n], toHost[cc], toClient[c] \o t, replicas[c], attached[c],
                 state[c][n], hasMeta[c], n)
    BY <1>0, <1>6, <2>3, <2>4, <2>5, SentWithdrawal
  <2>7. Current(c)' = cc /\ UNCHANGED <<acquires, replicas, attached, state, hasMeta>>
    BY <1>1 DEF Current, clientVars, replicaVars, cc
  <2>. QED  BY <1>1, <2>1, <2>2, <2>6, <2>7 DEF TokenOK, ToldOK, FirstOK
<1>. QED  BY <1>0, <1>5, <1>6

(* addListener makes a request an entry; the answer initializes. *)
LEMMA TokenAdd ==
  ASSUME TypeOK, EachListed, EachToken, NEW d \in Conns, ServerReadAddObject(d),
         NEW c \in linked, NEW n \in Names
  PROVE  TokenOK(c, n)'
<1>. DEFINE cc == Current(c)
            m == Head(toHost[d])
            p == ValuePacket(IF m.dynamic THEN "InitDynamic" ELSE "Init", m.name,
                             value[m.name])
<1>0. /\ listeners \in [Names -> [Conns -> Nat]] /\ c \in Clients /\ cc \in Conns
      /\ cc[1] = c /\ toClient[c] \in Seq(Packets) /\ acquires[c][n] \in Nat
      /\ listeners[n][cc] \in Nat /\ toHost \in [Conns -> Seq(Requests)]
      /\ value \in [Names -> Nat] /\ toHost[cc] \in Seq(Requests)
  BY TokenTypes DEF TypeOK, HostTypeOK, WireTypeOK
<1>1. /\ toHost[d] # <<>> /\ m.type = "AddObject"
      /\ toHost' = [toHost EXCEPT ![d] = Tail(@)]
      /\ listeners' = [listeners EXCEPT ![m.name][d] = @ + 1]
      /\ toClient' = Send(Once({d}), p)
      /\ UNCHANGED <<clientVars, acquires>>
  BY DEF ServerReadAddObject, ServerReads, boundVars
<1>2. m \in Requests
  BY <1>1, ServerReadsType
<1>3. m \in AddPackets
  BY <1>1, <1>2 DEF Requests, RemovePackets
<1>4. m.name \in Names /\ m.dynamic \in BOOLEAN
  BY <1>3 DEF AddPackets
<1>5. /\ p \in ValuePackets /\ p.name = m.name
      /\ p.type = IF m.dynamic THEN "InitDynamic" ELSE "Init"
  BY <1>0, <1>4 DEF ValuePacket, ValuePackets
<1>6. /\ Once({d}) \in [Conns -> Nat] /\ Once({d})[cc] <= 1
      /\ cc # d => Once({d})[cc] = 0
  BY <1>0 DEF Once
<1>. HIDE DEF cc, m, p
<1>7. TokenOK(c, n) /\ ListedOK(cc, n)
  BY <1>0 DEF EachListed, EachToken
<1>8. p \in Packets /\ p \notin Removes(n) /\ (n # m.name => p \notin Firsts(n))
  BY <1>5 DEF Packets, Removes, RemovePackets, Firsts
<1>9. /\ Listed(acquires[c][n], listeners[n][cc], toHost[cc], n)
      /\ Told(acquires[c][n], listeners[n][cc], toHost[cc], toClient[c],
              replicas[c], attached[c], n)
      /\ First(acquires[c][n], toHost[cc], toClient[c], replicas[c], attached[c],
               state[c][n], hasMeta[c], n)
  BY <1>0, <1>7 DEF ListedOK, TokenOK, ToldOK, FirstOK, cc
<1>10. Current(c)' = cc /\ UNCHANGED <<acquires, replicas, attached, state, hasMeta>>
  BY <1>1 DEF Current, clientVars, replicaVars, cc
<1>11. CASE cc # d
  <2>1. listeners'[n][cc] = listeners[n][cc] /\ toHost'[cc] = toHost[cc]
    BY <1>0, <1>1, <1>11
  <2>. QED  BY <1>1, <1>6, <1>7, <1>8, <1>11, <2>1, SendQuiet DEF cc
<1>12. PICK t \in Seq(Packets) :
         /\ toClient'[c] = toClient[c] \o t
         /\ \A M : p \notin M \/ Once({d})[cc] = 0 => At(t, M) = {}
         /\ Once({d})[cc] <= 1 => \A M : AtMostOne(At(t, M))
  BY <1>1, <1>6, <1>8, SentTo DEF cc
<1>13. At(t, Removes(n)) = {} /\ AtMostOne(At(t, Firsts(n)))
  BY <1>6, <1>8, <1>12
<1>14. CASE cc = d /\ n = m.name
  <2>. DEFINE q == toHost[cc]
  <2>1. /\ q # <<>> /\ toHost'[cc] = Tail(q) /\ Head(q) = m
        /\ listeners'[n][cc] = listeners[n][cc] + 1 /\ q \in Seq(Requests)
    BY <1>0, <1>1, <1>4, <1>14 DEF m
  <2>2. m \in Adds(n)
    BY <1>1, <1>2, <1>14 DEF Adds
  <2>3. (p.type = "InitDynamic") = m.dynamic
    BY <1>4, <1>5
  <2>4. p \notin {f \in Firsts(n) : (f.type = "InitDynamic") # m.dynamic}
    BY <2>3
  <2>5. At(t, {f \in Firsts(n) : (f.type = "InitDynamic") # m.dynamic}) = {}
    BY <1>12, <2>4
  <2>. HIDE DEF q
  <2>6. Head(q) \in Adds(n)
    BY <2>1, <2>2
  <2>7. At(t, {f \in Firsts(n) : (f.type = "InitDynamic") # Head(q).dynamic}) = {}
    BY <2>1, <2>5
  <2>8. /\ Listed(acquires[c][n], listeners[n][cc], q, n)
        /\ Told(acquires[c][n], listeners[n][cc], q, toClient[c], replicas[c],
                attached[c], n)
        /\ First(acquires[c][n], q, toClient[c], replicas[c], attached[c],
                 state[c][n], hasMeta[c], n)
    BY <1>9 DEF q
  <2>9. /\ Told(acquires[c][n], listeners[n][cc] + 1, Tail(q), toClient[c] \o t,
                replicas[c], attached[c], n)
        /\ First(acquires[c][n], Tail(q), toClient[c] \o t, replicas[c], attached[c],
                 state[c][n], hasMeta[c], n)
    BY <1>0, <1>13, <2>1, <2>6, <2>7, <2>8, RequestAnswered
  <2>. QED  BY <1>10, <1>12, <2>1, <2>9 DEF TokenOK, ToldOK, FirstOK
<1>15. CASE cc = d /\ n # m.name
  <2>. DEFINE q == toHost[cc]
  <2>1. /\ q # <<>> /\ toHost'[cc] = Tail(q) /\ Head(q) = m
        /\ listeners'[n][cc] = listeners[n][cc] /\ q \in Seq(Requests)
    BY <1>0, <1>1, <1>4, <1>15 DEF m
  <2>2. Head(q) \notin Removes(n)
    BY <1>1, <2>1 DEF Removes, RemovePackets
  <2>3. At(t, Firsts(n)) = {}
    BY <1>8, <1>12, <1>15
  <2>. HIDE DEF q
  <2>4. /\ Told(acquires[c][n], listeners[n][cc], q, toClient[c], replicas[c],
                attached[c], n)
        /\ First(acquires[c][n], q, toClient[c], replicas[c], attached[c],
                 state[c][n], hasMeta[c], n)
    BY <1>9 DEF q
  <2>5. /\ Told(acquires[c][n], listeners[n][cc], Tail(q), toClient[c], replicas[c],
                attached[c], n)
        /\ First(acquires[c][n], Tail(q), toClient[c], replicas[c], attached[c],
                 state[c][n], hasMeta[c], n)
    BY <1>0, <2>1, <2>2, <2>4, RequestGone
  <2>6. /\ Told(acquires[c][n], listeners[n][cc], Tail(q), toClient[c] \o t,
                replicas[c], attached[c], n)
        /\ First(acquires[c][n], Tail(q), toClient[c] \o t, replicas[c], attached[c],
                 state[c][n], hasMeta[c], n)
    BY <1>0, <1>13, <2>3, <2>5, SentMore
  <2>. QED  BY <1>10, <1>12, <2>1, <2>6 DEF TokenOK, ToldOK, FirstOK
<1>. QED  BY <1>11, <1>14, <1>15

(* Every step of the host keeps the tokens. *)
LEMMA TokenHost ==
  ASSUME TypeOK, NoDanglingListener, EachListed, EachToken, HostNext
  PROVE  EachToken'
<1>1. linked' = linked
  BY DEF HostNext, OnServerRead, EnableRemoting, DisableRemoting, SetProperty,
         NewConnection, OnServerDisconnect, ServerReadAddObject,
         ServerDropAddObject, ServerReadRemoveObject, clientVars
<1>2. SUFFICES ASSUME NEW c \in linked, NEW n \in Names  PROVE TokenOK(c, n)'
  BY <1>1 DEF EachToken
<1>. DEFINE cc == Current(c)
<1>0. /\ listeners \in [Names -> [Conns -> Nat]] /\ c \in Clients /\ cc \in Conns
      /\ toHost \in [Conns -> Seq(Requests)] /\ connections \subseteq Conns
      /\ TokenOK(c, n)
  BY TokenTypes DEF TypeOK, HostTypeOK, WireTypeOK, EachToken
<1>3. ASSUME NEW k \in Names, NEW sig \in SourceSignatures, EnableRemoting(k, sig)
      PROVE  TokenOK(c, n)'
  <2>1. PICK m : m = ObjectList([EmptyTable EXCEPT ![k] = sig])
    OBVIOUS
  <2>2. m \in Packets /\ m \notin Removes(n) /\ m \notin Firsts(n)
    BY <2>1 DEF ObjectList, EmptyTable, ObjectTable, Packets, ListPackets, Removes,
                RemovePackets, Firsts, ValuePackets
  <2>3. /\ toClient' = Send(Once(connections), m)
        /\ UNCHANGED <<clientVars, acquires, listeners, toHost>>
    BY <1>3, <2>1 DEF EnableRemoting
  <2>. QED  BY <1>0, <2>2, <2>3, OnceType, SendQuiet
<1>4. ASSUME NEW k \in Names, DisableRemoting(k)  PROVE TokenOK(c, n)'
  BY <1>4, TokenDisable
<1>5. ASSUME NEW k \in Names, SetProperty(k)  PROVE TokenOK(c, n)'
  <2>1. PICK m : m = ValuePacket("PropertyChange", k, value[k] + 1)
    OBVIOUS
  <2>2. m \in Packets /\ m \notin Removes(n) /\ m \notin Firsts(n)
    BY <2>1 DEF ValuePacket, TypeOK, HostTypeOK, Packets, ValuePackets, Removes,
                RemovePackets, Firsts
  <2>3. /\ toClient' = Send(listeners[k], m) /\ listeners[k] \in [Conns -> Nat]
        /\ UNCHANGED <<clientVars, acquires, listeners, toHost>>
    BY <1>0, <1>5, <2>1 DEF SetProperty, boundVars
  <2>. QED  BY <1>0, <2>2, <2>3, SendQuiet
<1>6. ASSUME NEW d \in Conns, NewConnection(d)  PROVE TokenOK(c, n)'
  <2>1. PICK m : m = ObjectList(sourceRoots)
    OBVIOUS
  <2>2. m \in Packets /\ m \notin Removes(n) /\ m \notin Firsts(n)
    BY <2>1 DEF ObjectList, TypeOK, HostTypeOK, Packets, ListPackets, Removes,
                RemovePackets, Firsts, ValuePackets
  <2>3. /\ toClient' = Send(Once({d}), m)
        /\ UNCHANGED <<clientVars, acquires, listeners, toHost>>
    BY <1>6, <2>1 DEF NewConnection, boundVars
  <2>. QED  BY <1>0, <2>2, <2>3, OnceType, SendQuiet
<1>7. ASSUME UNCHANGED <<clientVars, acquires, toClient>>,
             listeners'[n][cc] = listeners[n][cc], toHost'[cc] = toHost[cc]
      PROVE  TokenOK(c, n)'
  <2>1. Current(c)' = cc /\ UNCHANGED <<replicas, attached, state, hasMeta>>
    BY <1>7 DEF Current, clientVars, replicaVars
  <2>. HIDE DEF cc
  <2>2. TokenOK(c, n) /\ cc = Current(c)
    BY <1>0 DEF cc
  <2>. QED  BY <1>7, <2>1, <2>2 DEF TokenOK, ToldOK, FirstOK
<1>8. ASSUME NEW d \in Conns, OnServerDisconnect(d)  PROVE TokenOK(c, n)'
  <2>1. /\ UNCHANGED <<clientVars, acquires, toClient>>
        /\ toHost' = [toHost EXCEPT ![d] = <<>>]
        /\ listeners' = [k \in Names |-> [listeners[k] EXCEPT ![d] = 0]]
    BY <1>8 DEF OnServerDisconnect, boundVars
  <2>2. CASE d = cc
    <3>1. listeners'[n][cc] = 0 /\ toHost'[cc] = <<>>
      BY <1>0, <2>1, <2>2
    <3>. QED  BY <1>0, <2>1, <3>1, QuietHost
  <2>3. CASE d # cc
    <3>1. listeners'[n][cc] = listeners[n][cc] /\ toHost'[cc] = toHost[cc]
      BY <1>0, <2>1, <2>3
    <3>. QED  BY <1>7, <2>1, <3>1
  <2>. QED  BY <2>2, <2>3
<1>9. ASSUME NEW d \in Conns, ServerReadAddObject(d)  PROVE TokenOK(c, n)'
  BY <1>9, TokenAdd
<1>10. ASSUME NEW d \in Conns, ServerDropAddObject(d) \/ ServerReadRemoveObject(d)
       PROVE  TokenOK(c, n)'
  <2>. DEFINE m == Head(toHost[d])
  <2>1. /\ UNCHANGED <<clientVars, acquires, toClient, sourceRoots>>
        /\ toHost[d] # <<>> /\ toHost' = [toHost EXCEPT ![d] = Tail(@)]
        /\ \/ m.type = "AddObject" /\ listeners' = listeners
           \/ /\ m.type = "RemoveObject"
              /\ listeners' = IF sourceRoots[m.name] # NoSource
                              THEN [listeners EXCEPT ![m.name][d] = 0] ELSE listeners
    BY <1>10 DEF ServerDropAddObject, ServerReadRemoveObject, ServerReads, hostVars,
                 boundVars
  <2>2. m \in Requests
    BY <2>1, ServerReadsType
  <2>3. m.name \in Names
    BY <2>2 DEF Requests, AddPackets, RemovePackets
  <2>. HIDE DEF m
  <2>4. CASE d # cc
    <3>1. listeners' \in {listeners, [listeners EXCEPT ![m.name][d] = 0]}
      BY <2>1
    <3>2. listeners'[n][cc] = listeners[n][cc]
      BY <1>0, <2>3, <2>4, <3>1
    <3>3. toHost'[cc] = toHost[cc]
      BY <1>0, <2>1, <2>4
    <3>. QED  BY <1>7, <2>1, <3>2, <3>3
  <2>5. CASE d = cc
    <3>1. toHost[cc] # <<>> /\ toHost'[cc] = Tail(toHost[cc]) /\ Head(toHost[cc]) = m
      BY <1>0, <2>1, <2>5 DEF m
    <3>2. listeners'[n][cc] \in {0, listeners[n][cc]}
      BY <1>0, <2>1, <2>3, <2>5
    <3>3. listeners'[n][cc] = 0 \/ m \notin Removes(n)
      <4>1. CASE m.name # n \/ m.type = "AddObject"
        BY <4>1 DEF Removes, RemovePackets
      <4>2. CASE m.name = n /\ m.type # "AddObject"
        <5>1. CASE sourceRoots[n] # NoSource
          BY <1>0, <2>1, <2>5, <4>2, <5>1
        <5>2. CASE sourceRoots[n] = NoSource
          <6>1. listeners'[n][cc] = listeners[n][cc] /\ listeners[n][cc] \in Nat
            BY <1>0, <2>1, <4>2, <5>2
          <6>2. ~ (listeners[n][cc] > 0)
            BY <1>0, <5>2 DEF NoDanglingListener
          <6>. QED  BY <6>1, <6>2
        <5>. QED  BY <5>1, <5>2
      <4>. QED  BY <4>1, <4>2
    <3>. QED  BY <1>0, <2>1, <3>1, <3>2, <3>3, QuietHost
  <2>. QED  BY <2>4, <2>5
<1>. QED  BY <1>3, <1>4, <1>5, <1>6, <1>8, <1>9, <1>10 DEF HostNext, OnServerRead

(* The host hears no more than before. *)
LEMMA HearsHost ==
  ASSUME TypeOK, HostHears, AcquiredFirst, HostNext  PROVE HostHears' /\ AcquiredFirst'
<1>0. toHost \in [Conns -> Seq(Requests)]
  BY DEF TypeOK, WireTypeOK
<1>1. UNCHANGED <<clientVars, acquires>>
  BY DEF HostNext, OnServerRead, EnableRemoting, DisableRemoting, SetProperty,
         NewConnection, OnServerDisconnect, ServerReadAddObject,
         ServerDropAddObject, ServerReadRemoveObject, boundVars
<1>2. AcquiredFirst'
  BY <1>1 DEF AcquiredFirst, clientVars, replicaVars
<1>3. ASSUME UNCHANGED <<backlog, connections, toHost>>  PROVE HostHears'
  BY <1>3 DEF HostHears
<1>4. ASSUME NEW k \in Names, \/ \E sig \in SourceSignatures : EnableRemoting(k, sig)
                              \/ DisableRemoting(k) \/ SetProperty(k)
      PROVE  HostHears'
  BY <1>3, <1>4 DEF EnableRemoting, DisableRemoting, SetProperty
<1>5. ASSUME NEW d \in Conns, NewConnection(d)  PROVE HostHears'
  BY <1>5 DEF NewConnection, HostHears
<1>6. ASSUME NEW d \in Conns, OnServerDisconnect(d)  PROVE HostHears'
  BY <1>0, <1>6 DEF OnServerDisconnect, HostHears
<1>7. ASSUME NEW d \in Conns, OnServerRead(d)  PROVE HostHears'
  <2>1. /\ d \in connections /\ toHost' = [toHost EXCEPT ![d] = Tail(@)]
        /\ UNCHANGED <<backlog, connections>>
    BY <1>7 DEF OnServerRead, ServerReadAddObject, ServerDropAddObject,
                ServerReadRemoveObject, ServerReads, hostVars
  <2>. QED  BY <1>0, <2>1 DEF HostHears
<1>. QED  BY <1>2, <1>4, <1>5, <1>6, <1>7 DEF HostNext

-----------------------------------------------------------------------------
(* The steps of a client *)

(* What a client writes reaches the host, or nobody. *)
LEMMA RequestTo ==
  ASSUME TypeOK, NEW c \in linked, NEW reqs \in Seq(Requests),
         toHost' = Request(c, reqs)
  PROVE  \E t \in Seq(Requests) :
           /\ toHost'[Current(c)] = toHost[Current(c)] \o t
           /\ \A M : At(reqs, M) = {} => At(t, M) = {}
           /\ \A M : AtMostOne(At(reqs, M)) => AtMostOne(At(t, M))
<1>1. /\ Current(c) \in Conns /\ toHost \in [Conns -> Seq(Requests)]
      /\ toHost[Current(c)] \in Seq(Requests)
  BY TokenTypes DEF TypeOK, WireTypeOK
<1>2. CASE Current(c) \in backlog \cup connections
  <2>1. toHost'[Current(c)] = toHost[Current(c)] \o reqs
    BY <1>1, <1>2 DEF Request
  <2>. QED  BY <2>1
<1>3. CASE Current(c) \notin backlog \cup connections
  <2>1. toHost'[Current(c)] = toHost[Current(c)] \o <<>>
    BY <1>1, <1>3, ConcatEmptySeq DEF Request
  <2>2. <<>> \in Seq(Requests) /\ \A M : At(<<>>, M) = {}
    BY EmptySeq, AtEmpty
  <2>3. \A M : AtMostOne(At(<<>>, M))
    BY <2>2 DEF AtMostOne
  <2>. QED  BY <2>1, <2>2, <2>3
<1>. QED  BY <1>2, <1>3

(* The token of n on the connection that c is using, after a step of c. *)
Kept(c, n) ==
  /\ Listed(acquires'[c][n], listeners[n][Current(c)], toHost'[Current(c)], n)
  /\ Told(acquires'[c][n], listeners[n][Current(c)], toHost'[Current(c)], toClient'[c],
          replicas'[c], attached'[c], n)
  /\ First(acquires'[c][n], toHost'[Current(c)], toClient'[c], replicas'[c],
           attached'[c], state'[c][n], hasMeta'[c], n)

(* Requests and acquisitions of other names. *)
LEMMA KeptOther ==
  ASSUME TypeOK, NEW c \in linked, NEW n \in Names, ListedOK(Current(c), n),
         TokenOK(c, n), acquires'[c][n] = acquires[c][n],
         \/ toHost'[Current(c)] = toHost[Current(c)]
         \/ \E t \in Seq(Requests) :
              At(t, Adds(n)) = {} /\ toHost'[Current(c)] = toHost[Current(c)] \o t,
         toClient'[c] = toClient[c], state'[c][n] = state[c][n],
         n \in replicas'[c] <=> n \in replicas[c],
         n \in attached'[c] <=> n \in attached[c],
         n \in hasMeta'[c] <=> n \in hasMeta[c]
  PROVE  Kept(c, n)
<1>. DEFINE cc == Current(c)
            q == toHost[cc]
            u == toHost'[cc]
            L == listeners[n][cc]
            acq == acquires[c][n]
            s == toClient[c]
            st == state[c][n]
<1>1. /\ q \in Seq(Requests) /\ L \in Nat /\ acq \in Nat /\ acq <= acq /\ L \in {0, L}
      /\ cc[1] = c
  BY TokenTypes
<1>2. /\ Listed(acq, L, q, n) /\ Told(acq, L, q, s, replicas[c], attached[c], n)
      /\ First(acq, q, s, replicas[c], attached[c], st, hasMeta[c], n)
  BY <1>1 DEF ListedOK, TokenOK, ToldOK, FirstOK
<1>3. u = q \/ \E t \in Seq(Requests) : At(t, Adds(n)) = {} /\ u = q \o t
  OBVIOUS
<1>4. SUFFICES /\ Listed(acq, L, u, n)
               /\ Told(acq, L, u, s, replicas'[c], attached'[c], n)
               /\ First(acq, u, s, replicas'[c], attached'[c], st, hasMeta'[c], n)
  BY DEF Kept
<1>. HIDE DEF cc, q, u, L, acq, s, st
<1>5. Listed(acq, L, u, n)
  BY <1>1, <1>2, <1>3, ListedLess
<1>6. /\ Told(acq, L, q, s, replicas'[c], attached'[c], n)
      /\ First(acq, q, s, replicas'[c], attached'[c], st, hasMeta'[c], n)
  BY <1>2, SameMembers
<1>7. /\ Told(acq, L, u, s, replicas'[c], attached'[c], n)
      /\ First(acq, u, s, replicas'[c], attached'[c], st, hasMeta'[c], n)
  <2>1. CASE u = q
    BY <1>6, <2>1
  <2>2. ASSUME NEW t \in Seq(Requests), At(t, Adds(n)) = {}, u = q \o t
        PROVE  /\ Told(acq, L, u, s, replicas'[c], attached'[c], n)
               /\ First(acq, u, s, replicas'[c], attached'[c], st, hasMeta'[c], n)
    BY <1>1, <1>6, <2>2, RequestMore
  <2>. QED  BY <1>3, <2>1, <2>2
<1>. QED  BY <1>5, <1>7

(* What reading a packet does to the token, before any request is made.    *)
LEMMA KeptRead ==
  ASSUME TypeOK, NEW c \in linked, NEW n \in Names, TokenOK(c, n), toClient[c] # <<>>,
         NEW R, NEW A, NEW st, NEW H,
         n \in R <=> n \in replicas[c], n \in A <=> n \in attached[c],
         \/ Head(toClient[c]) \in Firsts(n)
         \/ (state[c][n] # Valid => st # Valid) /\ (n \in H <=> n \in hasMeta[c])
  PROVE  /\ Told(acquires[c][n], listeners[n][Current(c)], toHost[Current(c)],
                 Tail(toClient[c]), R, A, n)
         /\ First(acquires[c][n], toHost[Current(c)], Tail(toClient[c]), R, A, st, H, n)
<1>. DEFINE q == toHost[Current(c)]
            L == listeners[n][Current(c)]
            acq == acquires[c][n]
            s == toClient[c]
            H0 == hasMeta[c]
            st0 == state[c][n]
<1>1. L \in Nat /\ acq \in Nat /\ s \in Seq(Packets) /\ s # <<>>
  BY TokenTypes
<1>2. /\ Told(acq, L, q, s, replicas[c], attached[c], n)
      /\ First(acq, q, s, replicas[c], attached[c], st0, H0, n)
  BY DEF TokenOK, ToldOK, FirstOK
<1>3. \/ Head(s) \in Firsts(n)
      \/ (st0 # Valid => st # Valid) /\ (n \in H <=> n \in H0)
  OBVIOUS
<1>. HIDE DEF q, L, acq, s, H0, st0
<1>4. Told(acq, L, q, s, R, A, n) /\ First(acq, q, s, R, A, st0, H0, n)
  BY <1>2, SameMembers
<1>5. Told(acq, L, q, Tail(s), R, A, n) /\ First(acq, q, Tail(s), R, A, st, H, n)
  BY <1>1, <1>3, <1>4, PacketGone
<1>. QED  BY <1>5 DEF q, L, acq, s

(* A new replica asks at most once, and only if its client never had one.  *)
LEMMA KeptAcquire ==
  ASSUME TypeOK, AcquiredFirst, NEW c \in linked, NEW k \in Names,
         NEW sig \in ReplicaSignatures, Acquire(c, k, sig), NEW n \in Names,
         ListedOK(Current(c), n), TokenOK(c, n)
  PROVE  Kept(c, n)
<1>. DEFINE known == connectedSources[c][k] # NoSource
            matches == CheckSignatures(sig, connectedSources[c][k])
            initial == IF sig = NoSignature THEN Uninitialized ELSE Default
            dynamic == sig = NoSignature
            m == AddObject(k, dynamic)
<1>0. /\ replicas \in [Clients -> SUBSET Names] /\ attached \in [Clients -> SUBSET Names]
      /\ hasMeta \in [Clients -> SUBSET Names]
      /\ attached[c] \subseteq replicas[c] /\ hasMeta[c] \subseteq replicas[c]
      /\ state \in [Clients -> [Names -> Uninitialized..SignatureMismatch]]
      /\ acquires \in [Clients -> [Names -> 0..MaxAcquires]]
      /\ c \in Clients /\ Current(c)[1] = c /\ Current(c) \in Conns
      /\ toHost[Current(c)] \in Seq(Requests) /\ acquires[c][n] \in Nat
      /\ listeners[n][Current(c)] \in Nat
  BY TokenTypes DEF TypeOK, ClientTypeOK, ReplicaSetsOK
<1>1. /\ k \notin replicas[c]
      /\ acquires' = [acquires EXCEPT ![c][k] = @ + 1]
      /\ replicas' = [replicas EXCEPT ![c] = @ \cup {k}]
      /\ hasMeta' = [hasMeta EXCEPT ![c] = IF dynamic THEN @ ELSE @ \cup {k}]
      /\ state' = [state EXCEPT ![c][k] =
                     IF known /\ ~matches THEN SetState(initial, SignatureMismatch)
                     ELSE initial]
      /\ attached' = [attached EXCEPT ![c] = IF known /\ matches THEN @ \cup {k} ELSE @]
      /\ toHost' = IF known /\ matches THEN Request(c, <<m>>) ELSE toHost
      /\ toClient' = toClient
  BY DEF Acquire
<1>2. initial # Valid /\ m \in Requests
  BY DEF Uninitialized, Default, Valid, AddObject, Requests, AddPackets
<1>3. m.name = k /\ m.dynamic = dynamic /\ dynamic \in BOOLEAN
  BY DEF AddObject
<1>. HIDE DEF known, matches, initial, dynamic, m
<1>4. <<m>> \in Seq(Requests) /\ \A M : AtMostOne(At(<<m>>, M)) /\ (m \notin M => At(<<m>>, M) = {})
  BY <1>2 DEF At, AtMostOne
<1>5. \E t \in Seq(Requests) :
        /\ toHost'[Current(c)] = toHost[Current(c)] \o t
        /\ \A M : AtMostOne(At(t, M)) /\ (m \notin M => At(t, M) = {})
        /\ ~ (known /\ matches) => t = <<>>
  <2>1. CASE known /\ matches
    <3>1. toHost' = Request(c, <<m>>)
      BY <1>1, <2>1
    <3>2. PICK t \in Seq(Requests) :
            /\ toHost'[Current(c)] = toHost[Current(c)] \o t
            /\ \A M : At(<<m>>, M) = {} => At(t, M) = {}
            /\ \A M : AtMostOne(At(<<m>>, M)) => AtMostOne(At(t, M))
      BY <1>4, <3>1, RequestTo
    <3>. QED  BY <1>4, <2>1, <3>2
  <2>2. CASE ~ (known /\ matches)
    <3>1. toHost'[Current(c)] = toHost[Current(c)] \o <<>>
      BY <1>0, <1>1, <2>2, ConcatEmptySeq
    <3>2. <<>> \in Seq(Requests) /\ \A M : At(<<>>, M) = {}
      BY EmptySeq, AtEmpty
    <3>3. \A M : AtMostOne(At(<<>>, M))
      BY <3>2 DEF AtMostOne
    <3>. QED  BY <3>1, <3>2, <3>3
  <2>. QED  BY <2>1, <2>2
<1>6. PICK t \in Seq(Requests) :
        /\ toHost'[Current(c)] = toHost[Current(c)] \o t
        /\ \A M : AtMostOne(At(t, M)) /\ (m \notin M => At(t, M) = {})
        /\ ~ (known /\ matches) => t = <<>>
  BY <1>5
<1>7. CASE n # k
  <2>1. At(t, Adds(n)) = {}
    BY <1>3, <1>6, <1>7 DEF Adds
  <2>2. /\ acquires'[c][n] = acquires[c][n] /\ state'[c][n] = state[c][n]
        /\ n \in replicas'[c] <=> n \in replicas[c]
        /\ n \in attached'[c] <=> n \in attached[c]
        /\ n \in hasMeta'[c] <=> n \in hasMeta[c]
    BY <1>0, <1>1, <1>7
  <2>. QED  BY <1>1, <1>6, <2>1, <2>2, KeptOther
<1>8. CASE n = k /\ acquires[c][n] # 0
  <2>1. acquires'[c][n] = acquires[c][n] + 1
    BY <1>0, <1>1, <1>8
  <2>2. ~ (acquires'[c][n] <= 1)
    BY <1>0, <1>8, <2>1
  <2>. QED  BY <2>2 DEF Kept, Listed, Told, First
<1>9. CASE n = k /\ acquires[c][n] = 0
  <2>. DEFINE q == toHost[Current(c)]
              u == toHost'[Current(c)]
              L == listeners[n][Current(c)]
              s == toClient[c]
  <2>1. /\ Listed(0, L, q, n) /\ Told(0, L, q, s, replicas[c], attached[c], n)
        /\ First(0, q, s, replicas[c], attached[c], state[c][n], hasMeta[c], n)
    BY <1>0, <1>9 DEF ListedOK, TokenOK, ToldOK, FirstOK
  <2>2. acquires'[c][n] = 1 /\ n \in replicas'[c]
    BY <1>0, <1>1, <1>9
  <2>3. (n \notin hasMeta'[c]) = dynamic
    <3>1. n \notin hasMeta[c]
      BY <1>0, <1>1, <1>9
    <3>2. CASE dynamic
      BY <1>0, <1>1, <1>3, <3>1, <3>2
    <3>3. CASE ~ dynamic
      <4>1. n \in hasMeta'[c]
        BY <1>0, <1>1, <1>9, <3>3
      <4>. QED  BY <1>3, <3>3, <4>1
    <3>. QED  BY <3>2, <3>3
  <2>4. q \in Seq(Requests) /\ L \in Nat /\ u = q \o t
    BY <1>0, <1>6
  <2>5. SUFFICES /\ Listed(1, L, u, n)
                 /\ Told(1, L, u, s, replicas'[c], attached'[c], n)
                 /\ First(1, u, s, replicas'[c], attached'[c], state'[c][n],
                          hasMeta'[c], n)
    BY <1>1, <2>2 DEF Kept
  <2>. HIDE DEF q, u, L, s
  <2>6. /\ L = 0 /\ At(q, Adds(n)) = {}
        /\ At(s, Removes(n)) = {} /\ At(s, Firsts(n)) = {}
    BY <2>1, <2>4 DEF Listed, Told, First
  <2>7. AtMostOne(At(t, Adds(n)))
    BY <1>6
  <2>8. Listed(1, L, u, n)
    BY <2>4, <2>6, <2>7, ListedAsked
  <2>9. CASE known /\ matches
    <3>1. n \in attached'[c] /\ state'[c][n] # Valid
      BY <1>0, <1>1, <1>2, <1>9, <2>9
    <3>2. At(t, {p \in Adds(n) : p.dynamic # (n \notin hasMeta'[c])}) = {}
      BY <1>3, <1>6, <2>3
    <3>. DEFINE R == replicas'[c]
                A == attached'[c]
                H == hasMeta'[c]
                st == state'[c][n]
    <3>3. 1 \in Nat /\ 1 # 0
      OBVIOUS
    <3>. HIDE DEF R, A, H, st
    <3>4. Told(1, 0, q \o t, s, R, A, n) /\ First(1, q \o t, s, R, A, st, H, n)
      <4>1. n \in A /\ st # Valid
        BY <3>1 DEF A, st
      <4>2. At(t, {p \in Adds(n) : p.dynamic # (n \notin H)}) = {}
        BY <3>2 DEF H
      <4>. QED  BY <2>4, <2>6, <3>3, <4>1, <4>2, Asked
    <3>. QED  BY <2>4, <2>6, <2>8, <3>4 DEF R, A, H, st
  <2>10. CASE ~ (known /\ matches)
    <3>1. u = q
      BY <1>6, <2>4, <2>10, ConcatEmptySeq
    <3>. QED  BY <2>6, <2>8, <3>1 DEF Told, First, AtMostOne
  <2>. QED  BY <2>9, <2>10
<1>. QED  BY <1>7, <1>8, <1>9

(* A replica that goes says so behind its request, if anybody can hear it. *)
LEMMA KeptDestroy ==
  ASSUME TypeOK, HostHears, AcquiredFirst, NoDanglingListener, NEW c \in linked,
         NEW k \in Names, DestroyReplica(c, k), NEW n \in Names,
         ListedOK(Current(c), n), TokenOK(c, n)
  PROVE  Kept(c, n)
<1>. DEFINE m == RemoveObject(k)
            cc == Current(c)
            q == toHost[cc]
            u == toHost'[cc]
            L == listeners[n][cc]
            acq == acquires[c][n]
            s == toClient[c]
<1>0. /\ replicas \in [Clients -> SUBSET Names] /\ attached \in [Clients -> SUBSET Names]
      /\ hasMeta \in [Clients -> SUBSET Names] /\ toHost \in [Conns -> Seq(Requests)]
      /\ state \in [Clients -> [Names -> Uninitialized..SignatureMismatch]]
      /\ c \in Clients /\ cc[1] = c /\ cc \in Conns
      /\ q \in Seq(Requests) /\ acq \in Nat /\ L \in Nat
  BY TokenTypes DEF TypeOK, ClientTypeOK, ReplicaSetsOK, WireTypeOK
<1>1. /\ k \in replicas[c] /\ UNCHANGED <<acquires, toClient>>
      /\ replicas' = [replicas EXCEPT ![c] = @ \ {k}]
      /\ hasMeta' = [hasMeta EXCEPT ![c] = @ \ {k}]
      /\ state' = [state EXCEPT ![c][k] = Uninitialized]
      /\ attached' = [attached EXCEPT ![c] = @ \ {k}]
      /\ toHost' = IF k \in attached[c] THEN Request(c, <<m>>) ELSE toHost
  BY DEF DestroyReplica, boundVars
<1>2. /\ <<m>> \in Seq(Requests) /\ DOMAIN <<m>> = {1} /\ <<m>>[1] = m
      /\ \A p \in Names : m \notin Adds(p)
  BY DEF RemoveObject, Requests, RemovePackets, Adds
<1>. HIDE DEF m
<1>3. \A p \in Names : At(<<m>>, Adds(p)) = {}
  BY <1>2 DEF At
<1>4. CASE n # k
  <2>1. /\ acquires'[c][n] = acq /\ state'[c][n] = state[c][n]
        /\ n \in replicas'[c] <=> n \in replicas[c]
        /\ n \in attached'[c] <=> n \in attached[c]
        /\ n \in hasMeta'[c] <=> n \in hasMeta[c]
    BY <1>0, <1>1, <1>4
  <2>2. CASE k \notin attached[c]
    <3>1. u = q
      BY <1>1, <2>2
    <3>. QED  BY <1>1, <2>1, <3>1, KeptOther
  <2>3. CASE k \in attached[c]
    <3>1. toHost' = Request(c, <<m>>)
      BY <1>1, <2>3
    <3>2. PICK t \in Seq(Requests) :
            /\ u = q \o t
            /\ \A M : At(<<m>>, M) = {} => At(t, M) = {}
      BY <1>2, <3>1, RequestTo
    <3>3. At(t, Adds(n)) = {}
      BY <1>3, <3>2
    <3>. QED  BY <1>1, <2>1, <3>2, <3>3, KeptOther
  <2>. QED  BY <2>2, <2>3
<1>5. CASE n = k
  <2>1. /\ n \in replicas[c] /\ n \notin replicas'[c] /\ acq # 0
        /\ acquires'[c][n] = acq /\ toClient'[c] = s
    BY <1>0, <1>1, <1>5 DEF AcquiredFirst
  <2>2. \/ u = q \o <<RemoveObject(n)>> /\ n \in Names
        \/ u = q /\ n \notin attached[c]
        \/ u = <<>> /\ L = 0 /\ u = q
    <3>1. CASE n \notin attached[c]
      BY <1>1, <1>5, <3>1
    <3>2. CASE n \in attached[c] /\ cc \in backlog \cup connections
      <4>1. toHost' = [toHost EXCEPT ![cc] = @ \o <<m>>]
        BY <1>1, <1>5, <3>2 DEF Request
      <4>. QED  BY <1>0, <1>5, <4>1 DEF m
    <3>3. CASE n \in attached[c] /\ cc \notin backlog \cup connections
      <4>1. u = q
        BY <1>1, <1>5, <3>3 DEF Request
      <4>2. q = <<>> /\ L = 0
        BY <1>0, <3>3 DEF HostHears, NoDanglingListener
      <4>. QED  BY <4>1, <4>2
    <3>. QED  BY <3>1, <3>2, <3>3
  <2>3. /\ Listed(acq, L, q, n)
        /\ Told(acq, L, q, s, replicas[c], attached[c], n)
        /\ First(acq, q, s, replicas[c], attached[c], state[c][n], hasMeta[c], n)
    BY <1>0 DEF ListedOK, TokenOK, ToldOK, FirstOK
  <2>4. SUFFICES /\ Listed(acq, L, u, n)
                 /\ Told(acq, L, u, s, replicas'[c], attached'[c], n)
                 /\ First(acq, u, s, replicas'[c], attached'[c], state'[c][n],
                          hasMeta'[c], n)
    BY <2>1 DEF Kept
  <2>5. \/ u = q
        \/ \E t \in Seq(Requests) : At(t, Adds(n)) = {} /\ u = q \o t
    BY <1>2, <1>3, <1>5, <2>2 DEF m
  <2>. HIDE DEF cc, q, u, L, acq, s
  <2>6. Listed(acq, L, u, n)
    <3>1. acq <= acq /\ L \in {0, L}
      BY <1>0
    <3>. QED  BY <1>0, <2>3, <2>5, <3>1, ListedLess
  <2>7. /\ Told(acq, L, u, s, replicas'[c], attached'[c], n)
        /\ First(acq, u, s, replicas'[c], attached'[c], state'[c][n],
                 hasMeta'[c], n)
    <3>. DEFINE R == replicas[c]
                A == attached[c]
                st == state[c][n]
                H == hasMeta[c]
                B == replicas'[c]
                B2 == attached'[c]
                st2 == state'[c][n]
                H2 == hasMeta'[c]
    <3>1. n \in R /\ n \notin B /\ acq # 0
      BY <2>1
    <3>2. Told(acq, L, q, s, R, A, n) /\ First(acq, q, s, R, A, st, H, n)
      BY <2>3
    <3>3. \/ u = q \o <<RemoveObject(n)>> /\ n \in Names
          \/ u = q /\ n \notin A
          \/ u = <<>> /\ L = 0
      BY <2>2
    <3>. HIDE DEF R, A, st, H, B, B2, st2, H2
    <3>4. Told(acq, L, u, s, B, B2, n) /\ First(acq, u, s, B, B2, st2, H2, n)
      BY <1>0, <3>1, <3>2, <3>3, LeftBehind
    <3>. QED  BY <3>4 DEF B, B2, st2, H2
  <2>. QED  BY <2>6, <2>7
<1>. QED  BY <1>4, <1>5

(* Who is on the list of names to ask for is asked for once, and told what *)
(* kind of values it needs.                                                *)
LEMMA RequestsInOrder ==
  ASSUME NEW S \in SUBSET Names, NEW order \in SetToSeqs(S), NEW H, NEW n \in Names,
         NEW reqs, reqs = [i \in DOMAIN order |->
                             AddObject(order[i], order[i] \notin H)]
  PROVE  /\ n \notin S => At(reqs, Adds(n)) = {}
         /\ AtMostOne(At(reqs, Adds(n)))
         /\ At(reqs, {m \in Adds(n) : m.dynamic # (n \notin H)}) = {}
<1>1. /\ order \in [1..Cardinality(S) -> S]
      /\ \A i, j \in 1..Cardinality(S) : i # j => order[i] # order[j]
  BY DEF SetToSeqs
<1>2. \A i \in DOMAIN reqs : /\ i \in DOMAIN order
                             /\ reqs[i].name = order[i]
                             /\ reqs[i].dynamic = (order[i] \notin H)
  BY DEF AddObject
<1>3. \A i \in At(reqs, Adds(n)) : i \in 1..Cardinality(S) /\ order[i] = n
  BY <1>1, <1>2 DEF At, Adds
<1>4. n \notin S => At(reqs, Adds(n)) = {}
  BY <1>1, <1>3
<1>5. AtMostOne(At(reqs, Adds(n)))
  BY <1>1, <1>3 DEF AtMostOne
<1>6. At(reqs, {m \in Adds(n) : m.dynamic # (n \notin H)}) = {}
  BY <1>1, <1>2 DEF At, Adds
<1>. QED  BY <1>4, <1>5, <1>6

(* A replica that the object list attaches had no token, and now asks for  *)
(* one; the other replicas keep theirs.                                    *)
LEMMA KeptList ==
  ASSUME TypeOK, AcquiredFirst, ValidIsAttached, NEW c \in linked, ReadObjectList(c),
         NEW n \in Names, ListedOK(Current(c), n), TokenOK(c, n)
  PROVE  Kept(c, n)
<1>. DEFINE q == toHost[Current(c)]
            L == listeners[n][Current(c)]
            acq == acquires[c][n]
            s == toClient[c]
            st == state[c][n]
            st2 == state'[c][n]
            R == replicas[c]
            A == attached[c]
            A2 == attached'[c]
            H == hasMeta[c]
            listed == Head(s).objects
            known == [p \in Names |-> IF connectedSources[c][p] = NoSource
                                      THEN listed[p] ELSE connectedSources[c][p]]
            waiting == Waiting(c, listed)
            matching == {p \in waiting : CheckSignatures(signature[c][p], known[p])}
<1>0. /\ replicas \in [Clients -> SUBSET Names] /\ attached \in [Clients -> SUBSET Names]
      /\ state \in [Clients -> [Names -> Uninitialized..SignatureMismatch]]
      /\ c \in Clients /\ Current(c)[1] = c /\ toClient \in [Clients -> Seq(Packets)]
      /\ q \in Seq(Requests) /\ acq \in Nat /\ L \in Nat
  BY TokenTypes DEF TypeOK, ClientTypeOK, ReplicaSetsOK, WireTypeOK
<1>1. /\ s # <<>> /\ toClient'[c] = Tail(s)
      /\ UNCHANGED <<acquires, replicas, hasMeta>>
      /\ attached' = [attached EXCEPT ![c] = @ \cup matching]
      /\ state' = [state EXCEPT ![c] = [p \in Names |->
                     IF p \in waiting \ matching
                     THEN SetState(@[p], SignatureMismatch) ELSE @[p]]]
  BY <1>0 DEF ReadObjectList, ClientReads, boundVars
<1>2. PICK order \in SetToSeqs(matching) :
        toHost' = Request(c, [i \in DOMAIN order |->
                                AddObject(order[i], order[i] \notin hasMeta[c])])
  BY DEF ReadObjectList
<1>3. matching \subseteq R \ A /\ R \subseteq Names
  BY <1>0 DEF Waiting
<1>. HIDE DEF matching, waiting, known, listed
<1>. DEFINE reqs == [i \in DOMAIN order |-> AddObject(order[i], order[i] \notin H)]
<1>4. reqs \in Seq(Requests)
  BY <1>3, OrderType
<1>5. /\ n \notin matching => At(reqs, Adds(n)) = {}
      /\ AtMostOne(At(reqs, Adds(n)))
      /\ At(reqs, {m \in Adds(n) : m.dynamic # (n \notin H)}) = {}
  BY <1>3, RequestsInOrder
<1>6. A2 = A \cup matching
  BY <1>0, <1>1 DEF matching, waiting, known, listed
<1>7. /\ n \in matching => st2 = st
      /\ st2 \in {st, SetState(st, SignatureMismatch)}
  BY <1>0, <1>1
<1>8. toHost' = Request(c, reqs)
  BY <1>2 DEF matching, waiting, known, listed
<1>. HIDE DEF reqs
<1>9. PICK t \in Seq(Requests) :
        /\ toHost'[Current(c)] = q \o t
        /\ \A M : At(reqs, M) = {} => At(t, M) = {}
        /\ \A M : AtMostOne(At(reqs, M)) => AtMostOne(At(t, M))
  BY <1>4, <1>8, RequestTo
<1>10. SUFFICES /\ Listed(acq, L, q \o t, n)
                /\ Told(acq, L, q \o t, Tail(s), R, A2, n)
                /\ First(acq, q \o t, Tail(s), R, A2, st2, H, n)
  <2>1. /\ acquires'[c][n] = acq /\ replicas'[c] = R /\ hasMeta'[c] = H
        /\ toHost'[Current(c)] = q \o t /\ toClient'[c] = Tail(s)
    BY <1>1, <1>9
  <2>. QED  BY <2>1 DEF Kept
<1>11. Listed(acq, L, q, n) /\ L \in {0, L} /\ acq <= acq
  BY <1>0 DEF ListedOK
<1>12. CASE n \notin matching
  <2>1. At(t, Adds(n)) = {}
    BY <1>5, <1>9, <1>12
  <2>2. (n \in A2 <=> n \in A) /\ (st # Valid => st2 # Valid)
    BY <1>6, <1>7, <1>12 DEF SetState, Valid, SignatureMismatch
  <2>3. /\ Told(acq, L, q, Tail(s), R, A2, n)
        /\ First(acq, q, Tail(s), R, A2, st2, H, n)
    BY <1>1, <2>2, KeptRead
  <2>. HIDE DEF q, L, acq, s, st, st2, R, A, A2, H
  <2>4. Listed(acq, L, q \o t, n)
    BY <1>0, <1>11, <2>1, ListedLess
  <2>. QED  BY <1>0, <2>1, <2>3, <2>4, RequestMore
<1>13. CASE n \in matching /\ ~ (acq <= 1)
  BY <1>13 DEF Listed, Told, First
<1>14. CASE n \in matching /\ acq <= 1
  <2>1. n \in R /\ n \notin A /\ n \in A2 /\ st2 = st /\ st # Valid /\ acq # 0
    BY <1>0, <1>3, <1>6, <1>7, <1>14 DEF ValidIsAttached, AcquiredFirst
  <2>2. /\ Told(acq, L, q, Tail(s), R, A, n)
        /\ First(acq, q, Tail(s), R, A, st2, H, n)
    BY <1>1, <2>1, KeptRead
  <2>. HIDE DEF q, L, acq, s, st, st2, R, A, A2, H
  <2>3. /\ L = 0 /\ At(q, Adds(n)) = {}
        /\ At(Tail(s), Removes(n)) = {} /\ At(Tail(s), Firsts(n)) = {}
    BY <1>0, <1>11, <1>14, <2>1, <2>2, NoToken
  <2>4. /\ AtMostOne(At(t, Adds(n)))
        /\ At(t, {m \in Adds(n) : m.dynamic # (n \notin H)}) = {}
    BY <1>5, <1>9
  <2>5. Listed(acq, 0, q \o t, n)
    BY <1>0, <2>1, <2>3, <2>4, ListedAsked
  <2>6. /\ Told(acq, 0, q \o t, Tail(s), R, A2, n)
        /\ First(acq, q \o t, Tail(s), R, A2, st2, H, n)
    BY <1>0, <2>1, <2>3, <2>4, Asked
  <2>. QED  BY <2>3, <2>5, <2>6
<1>. QED  BY <1>12, <1>13, <1>14

(* Values are read: first values by the replica that waits for them. *)
LEMMA KeptValues ==
  ASSUME TypeOK, NEW c \in linked, c \in linked',
         ReadInit(c) \/ ReadInitDynamic(c) \/ ReadPropertyChange(c),
         NEW n \in Names, ListedOK(Current(c), n), TokenOK(c, n)
  PROVE  Kept(c, n)
<1>. DEFINE m == Head(toClient[c])
<1>0. /\ toClient \in [Clients -> Seq(Packets)] /\ c \in Clients
      /\ state \in [Clients -> [Names -> Uninitialized..SignatureMismatch]]
      /\ hasMeta \in [Clients -> SUBSET Names]
  BY TokenTypes DEF TypeOK, ClientTypeOK, ReplicaSetsOK, WireTypeOK
<1>1. /\ toClient[c] # <<>> /\ toClient'[c] = Tail(toClient[c])
      /\ UNCHANGED <<acquires, toHost, replicas, attached>>
      /\ \/ m.type \in {"Init", "InitDynamic"} /\ m.name = n
         \/ state'[c][n] = state[c][n] /\ (n \in hasMeta'[c] <=> n \in hasMeta[c])
  <2>1. CASE ReadInit(c)
    BY <1>0, <2>1
       DEF ReadInit, ClientDies, ClientReads, Initialize, boundVars, replicaVars
  <2>2. CASE ReadInitDynamic(c)
    BY <1>0, <2>2 DEF ReadInitDynamic, ClientReads, Initialize, boundVars, replicaVars
  <2>3. CASE ReadPropertyChange(c)
    BY <1>0, <2>3
       DEF ReadPropertyChange, ClientDies, ClientReads, boundVars, replicaVars
  <2>. QED  BY <2>1, <2>2, <2>3
<1>2. m.type \in {"Init", "InitDynamic"} /\ m.name = n => m \in Firsts(n)
  <2>1. m \in Packets
    BY <1>1, ClientReadsType
  <2>. QED  BY <2>1 DEF Packets, ListPackets, RemovePackets, Firsts
<1>3. /\ Told(acquires[c][n], listeners[n][Current(c)], toHost[Current(c)],
              Tail(toClient[c]), replicas[c], attached[c], n)
      /\ First(acquires[c][n], toHost[Current(c)], Tail(toClient[c]), replicas[c],
               attached[c], state'[c][n], hasMeta'[c], n)
  BY <1>1, <1>2, KeptRead
<1>4. Listed(acquires[c][n], listeners[n][Current(c)], toHost[Current(c)], n)
  BY <1>0, TokenTypes DEF ListedOK
<1>. QED  BY <1>1, <1>3, <1>4 DEF Kept

(* The withdrawal is read: the token is gone, and its replica detached. *)
LEMMA KeptRemove ==
  ASSUME TypeOK, NEW c \in linked, ReadRemoveObject(c),
         NEW n \in Names, ListedOK(Current(c), n), TokenOK(c, n)
  PROVE  Kept(c, n)
<1>. DEFINE m == Head(toClient[c])
            q == toHost[Current(c)]
            L == listeners[n][Current(c)]
            acq == acquires[c][n]
            s == toClient[c]
            st == state[c][n]
            st2 == state'[c][n]
            R == replicas[c]
            A == attached[c]
            A2 == attached'[c]
            H == hasMeta[c]
<1>0. /\ toClient \in [Clients -> Seq(Packets)] /\ c \in Clients
      /\ state \in [Clients -> [Names -> Uninitialized..SignatureMismatch]]
      /\ attached \in [Clients -> SUBSET Names]
      /\ L \in Nat /\ acq \in Nat /\ s \in Seq(Packets)
  BY TokenTypes DEF TypeOK, ClientTypeOK, ReplicaSetsOK, WireTypeOK
<1>1. /\ s # <<>> /\ toClient'[c] = Tail(s) /\ m.type = "RemoveObject"
      /\ UNCHANGED <<acquires, toHost, replicas, hasMeta>>
      /\ A2 = A \ {m.name}
      /\ m.name # n => st2 = st
  BY <1>0 DEF ReadRemoveObject, ClientReads, boundVars
<1>2. m.name = n => m \in Removes(n)
  <2>1. m \in Packets
    BY <1>1, ClientReadsType
  <2>. QED  BY <1>1, <2>1 DEF Packets, ListPackets, ValuePackets, Removes
<1>3. /\ Listed(acq, L, q, n)
      /\ Told(acq, L, q, s, R, A, n) /\ First(acq, q, s, R, A, st, H, n)
  BY <1>0, TokenTypes DEF ListedOK, TokenOK, ToldOK, FirstOK
<1>4. /\ Told(acq, L, q, Tail(s), R, A2, n)
      /\ First(acq, q, Tail(s), R, A2, st2, H, n)
  <2>1. CASE m.name = n
    <3>1. Head(s) \in Removes(n)
      BY <1>2, <2>1
    <3>. HIDE DEF q, L, acq, s, st, st2, R, A, A2, H, m
    <3>. QED  BY <1>0, <1>1, <1>3, <3>1, WithdrawalRead
  <2>2. CASE m.name # n
    <3>1. (n \in A2 <=> n \in A) /\ st2 = st
      BY <1>1, <2>2
    <3>. QED  BY <1>1, <3>1, KeptRead
  <2>. QED  BY <2>1, <2>2
<1>. QED  BY <1>1, <1>3, <1>4 DEF Kept

(* A client that keeps its connection keeps its tokens in order. *)
LEMMA KeptClient ==
  ASSUME TypeOK, NoDanglingListener, ValidIsAttached, ListingInv,
         NEW c \in linked, c \in linked', ClientNext(c), NEW n \in Names
  PROVE  Kept(c, n)
<1>0. /\ ListedOK(Current(c), n) /\ TokenOK(c, n) /\ HostHears /\ AcquiredFirst
      /\ c \in Clients
  BY TokenTypes DEF ListingInv, EachListed, EachToken
<1>1. /\ ~ ConnectToServer(c) /\ ~ OnShouldReconnect(c) /\ ~ ClientCrash(c)
  BY DEF ConnectToServer, OnShouldReconnect, ClientCrash, ClientDies
<1>2. ASSUME NEW k \in Names, NEW sig \in ReplicaSignatures, Acquire(c, k, sig)
      PROVE  Kept(c, n)
  BY <1>0, <1>2, KeptAcquire
<1>3. ASSUME NEW k \in Names, DestroyReplica(c, k)  PROVE Kept(c, n)
  BY <1>0, <1>3, KeptDestroy
<1>4. CASE ReadObjectList(c)
  BY <1>0, <1>4, KeptList
<1>5. CASE ReadInit(c) \/ ReadInitDynamic(c) \/ ReadPropertyChange(c)
  BY <1>0, <1>5, KeptValues
<1>6. CASE ReadRemoveObject(c)
  BY <1>0, <1>6, KeptRemove
<1>. QED  BY <1>1, <1>2, <1>3, <1>4, <1>5, <1>6 DEF ClientNext, OnClientRead

(* A client writes to its own connection, and to no other; it forgets no   *)
(* acquisition.                                                            *)
LEMMA ClientWrites ==
  ASSUME TypeOK, NEW c \in Clients, ClientNext(c)
  PROVE  /\ toHost' = toHost \/ (c \in linked /\ \E reqs : toHost' = Request(c, reqs))
         /\ c \notin linked \/ c \notin linked' => toHost' = toHost
         /\ \A d \in Clients \ {c} : d \in linked' <=> d \in linked
         /\ backlog \subseteq backlog'
         /\ \A d \in Clients, n \in Names : acquires[d][n] <= acquires'[d][n]
<1>0. /\ c \in Clients /\ acquires \in [Clients -> [Names -> 0..MaxAcquires]]
      /\ \A d \in Clients, n \in Names : acquires[d][n] \in Nat
  BY TokenTypes DEF TypeOK, ClientTypeOK
<1>1. CASE ConnectToServer(c)
  BY <1>0, <1>1 DEF ConnectToServer, boundVars
<1>2. CASE OnShouldReconnect(c)
  BY <1>0, <1>2 DEF OnShouldReconnect, boundVars
<1>d. ASSUME ClientDies(c)
      PROVE  /\ UNCHANGED <<acquires, backlog, toHost>> /\ linked' = linked \ {c}
  BY <1>d DEF ClientDies, boundVars
<1>3. CASE ClientCrash(c)
  BY <1>0, <1>3, <1>d DEF ClientCrash
<1>4. ASSUME NEW k \in Names, NEW sig \in ReplicaSignatures, Acquire(c, k, sig)
      PROVE  /\ toHost' = toHost \/ (c \in linked /\ \E reqs : toHost' = Request(c, reqs))
             /\ c \notin linked \/ c \notin linked' => toHost' = toHost
             /\ linked' = linked /\ backlog' = backlog
             /\ \A d \in Clients, n \in Names : acquires[d][n] <= acquires'[d][n]
  <2>1. linked' = linked /\ backlog' = backlog
    BY <1>4 DEF Acquire
  <2>2. \/ toHost' = toHost
        \/ toHost' = Request(c, <<AddObject(k, sig = NoSignature)>>)
    BY <1>4 DEF Acquire
  <2>3. acquires' = [acquires EXCEPT ![c][k] = @ + 1]
    BY <1>4 DEF Acquire
  <2>4. \A d \in Clients, n \in Names : acquires'[d][n] \in {acquires[d][n], acquires[d][n] + 1}
    BY <1>0, <2>3
  <2>5. \A d \in Clients, n \in Names : acquires[d][n] <= acquires'[d][n]
    BY <1>0, <2>4
  <2>. QED  BY <2>1, <2>2, <2>5 DEF Request
<1>5. ASSUME NEW k \in Names, DestroyReplica(c, k)
      PROVE  /\ toHost' = toHost \/ (c \in linked /\ \E reqs : toHost' = Request(c, reqs))
             /\ c \notin linked \/ c \notin linked' => toHost' = toHost
             /\ linked' = linked /\ backlog' = backlog /\ acquires' = acquires
  BY <1>5 DEF DestroyReplica, Request, boundVars
<1>6. CASE ReadObjectList(c)
  <2>1. c \in linked /\ linked' = linked /\ backlog' = backlog /\ acquires' = acquires
    BY <1>6 DEF ReadObjectList, ClientReads, boundVars
  <2>2. \E reqs : toHost' = Request(c, reqs)
    BY <1>6 DEF ReadObjectList
  <2>. QED  BY <1>0, <2>1, <2>2
<1>7. ASSUME ReadInit(c) \/ ReadInitDynamic(c) \/ ReadPropertyChange(c) \/ ReadRemoveObject(c)
      PROVE  /\ UNCHANGED <<acquires, backlog, toHost>>
             /\ linked' \in {linked, linked \ {c}}
  BY <1>7, <1>d DEF ReadInit, ReadInitDynamic, ReadPropertyChange, ReadRemoveObject, boundVars
<1>. QED
  BY <1>0, <1>1, <1>2, <1>3, <1>4, <1>5, <1>6, <1>7 DEF ClientNext, OnClientRead

(* What belongs to the other clients stays, and so do the epochs of those  *)
(* that are connected.                                                     *)
LEMMA OtherTokens ==
  ASSUME TypeOK, NEW c \in Clients, ClientNext(c)
  PROVE  /\ \A d \in Clients \ {c} :
              /\ epoch'[d] = epoch[d] /\ toClient'[d] = toClient[d]
              /\ hasMeta'[d] = hasMeta[d] /\ acquires'[d] = acquires[d]
         /\ c \in linked => epoch' = epoch
         /\ epoch' = epoch \/ ConnectToServer(c)
<1>0. /\ epoch \in [Clients -> 0..MaxEpochs] /\ toClient \in [Clients -> Seq(Packets)]
      /\ hasMeta \in [Clients -> SUBSET Names]
      /\ acquires \in [Clients -> [Names -> 0..MaxAcquires]]
  BY DEF TypeOK, ClientTypeOK, ReplicaSetsOK, WireTypeOK
<1>. DEFINE Same == /\ \A d \in Clients \ {c} :
                         /\ toClient'[d] = toClient[d]
                         /\ hasMeta'[d] = hasMeta[d] /\ acquires'[d] = acquires[d]
                    /\ epoch' = epoch
<1>1. CASE ConnectToServer(c)
  BY <1>0, <1>1 DEF ConnectToServer, replicaVars, boundVars
<1>2. CASE OnShouldReconnect(c)
  <2>1. Same
    BY <1>0, <1>2 DEF OnShouldReconnect, boundVars
  <2>. QED  BY <2>1
<1>3. CASE ClientDies(c)
  <2>1. Same
    BY <1>0, <1>3 DEF ClientDies, NoReplicaState, boundVars
  <2>. QED  BY <2>1
<1>4. ASSUME NEW n \in Names, NEW sig \in ReplicaSignatures, Acquire(c, n, sig)
      PROVE  Same
  BY <1>0, <1>4 DEF Acquire
<1>5. ASSUME NEW n \in Names, DestroyReplica(c, n)  PROVE Same
  BY <1>0, <1>5 DEF DestroyReplica, boundVars
<1>6. CASE ReadObjectList(c) \/ ReadRemoveObject(c)
  <2>1. Same
    BY <1>0, <1>6 DEF ReadObjectList, ReadRemoveObject, ClientReads, boundVars
  <2>. QED  BY <2>1
<1>7. CASE (ReadInit(c) \/ ReadInitDynamic(c) \/ ReadPropertyChange(c)) /\ ~ ClientDies(c)
  <2>1. Same
    BY <1>0, <1>7 DEF ReadInit, ReadInitDynamic, ReadPropertyChange, ClientReads,
                      replicaVars, boundVars
  <2>. QED  BY <2>1
<1>. QED  BY <1>1, <1>2, <1>3, <1>4, <1>5, <1>6, <1>7
          DEF ClientNext, ClientCrash, OnClientRead

(* A connection that is made has no token of any name. *)
LEMMA KeptConnect ==
  ASSUME TypeOK, TypeOK', NoDanglingListener, NoFuture, HostHears,
         NEW c \in Clients, ConnectToServer(c), NEW n \in Names
  PROVE  TokenOK(c, n)'
<1>1. /\ c \notin linked /\ epoch' = [epoch EXCEPT ![c] = @ + 1]
      /\ UNCHANGED <<hostVars, toHost, toClient>> /\ c \in linked'
  BY DEF ConnectToServer
<1>2. /\ toClient[c] = <<>> /\ epoch[c] \in Nat /\ epoch'[c] = epoch[c] + 1
      /\ Current(c)' = <<c, epoch[c] + 1>> /\ Current(c)' \in Conns
  <2>1. /\ toClient[c] = <<>> /\ epoch[c] \in 0..MaxEpochs /\ epoch'[c] = epoch[c] + 1
    BY <1>1 DEF TypeOK, WireTypeOK
  <2>2. Current(c)' \in Conns
    <3>1. epoch' \in [Clients -> 0..MaxEpochs]
      BY DEF TypeOK, WireTypeOK
    <3>2. epoch'[c] \in 1..MaxEpochs
      BY <2>1, <3>1, BoundsAreNaturals
    <3>. QED  BY <3>2 DEF Current, Conns
  <2>. QED  BY <2>1, <2>2, BoundsAreNaturals DEF Current
<1>. DEFINE cc == <<c, epoch[c] + 1>>
<1>3. cc \notin backlog \cup connections
  BY <1>2 DEF NoFuture
<1>4. cc \in Conns /\ toHost[cc] = <<>> /\ ~ (listeners[n][cc] > 0)
  BY <1>2, <1>3 DEF HostHears, NoDanglingListener
<1>5. /\ toHost'[Current(c)'] = <<>> /\ ~ (listeners'[n][Current(c)'] > 0)
      /\ toClient'[c] = <<>>
  BY <1>1, <1>2, <1>4 DEF hostVars
<1>6. \A M : At(<<>>, M) = {}
  BY AtEmpty
<1>7. /\ Told(acquires'[c][n], listeners'[n][Current(c)'], <<>>, <<>>,
              replicas'[c], attached'[c], n)
      /\ First(acquires'[c][n], <<>>, <<>>, replicas'[c], attached'[c],
               state'[c][n], hasMeta'[c], n)
  BY <1>5, <1>6 DEF Told, First, AtMostOne
<1>. QED  BY <1>5, <1>7 DEF TokenOK, ToldOK, FirstOK

(* Whatever a client does, the host is heard, and no replica lives that    *)
(* was not acquired.                                                       *)
LEMMA HearsClient ==
  ASSUME TypeOK, HostHears, AcquiredFirst, NEW c \in Clients, ClientNext(c)
  PROVE  HostHears' /\ AcquiredFirst'
<1>0. /\ UNCHANGED hostVars /\ backlog \subseteq backlog'
      /\ toHost' = toHost \/ (c \in linked /\ \E reqs : toHost' = Request(c, reqs))
      /\ toHost \in [Conns -> Seq(Requests)]
      /\ replicas \in [Clients -> SUBSET Names]
      /\ acquires \in [Clients -> [Names -> 0..MaxAcquires]]
  BY ClientLeavesHost, ClientWrites DEF TypeOK, WireTypeOK, ReplicaSetsOK, ClientTypeOK
<1>1. \A cc \in Conns : toHost'[cc] # toHost[cc] => cc \in backlog \cup connections
  BY <1>0 DEF Request
<1>2. HostHears'
  BY <1>0, <1>1 DEF HostHears, hostVars
<1>3. \A d \in Clients, n \in Names : acquires[d][n] # 0 => acquires'[d][n] # 0
  <2>1. \A d \in Clients, n \in Names :
          acquires[d][n] <= acquires'[d][n] /\ acquires[d][n] \in Nat
    BY ClientWrites, TokenTypes
  <2>2. acquires' = acquires \/ \E n \in Names, sig \in ReplicaSignatures : Acquire(c, n, sig)
    BY DEF ClientNext, OnClientRead, ConnectToServer, OnShouldReconnect, ClientCrash,
           ClientDies, DestroyReplica, ReadObjectList, ReadInit, ReadInitDynamic,
           ReadPropertyChange, ReadRemoveObject, boundVars
  <2>3. \A d \in Clients, n \in Names : acquires'[d][n] \in Nat
    <3>1. ASSUME NEW k \in Names, NEW sig \in ReplicaSignatures, Acquire(c, k, sig),
                 NEW d \in Clients, NEW n \in Names
          PROVE  acquires'[d][n] \in {acquires[d][n], acquires[d][n] + 1}
      BY <1>0, <3>1 DEF Acquire
    <3>. QED  BY <2>1, <2>2, <3>1
  <2>. QED  BY <2>1, <2>3
<1>4. ASSUME NEW d \in Clients, NEW n \in replicas'[d], n \notin replicas[d]
      PROVE  acquires'[d][n] # 0
  <2>1. PICK k \in Names, sig \in ReplicaSignatures : Acquire(c, k, sig)
    <3>1. ~ (\E k \in Names, sig \in ReplicaSignatures : Acquire(c, k, sig))
          => \A e \in Clients : replicas'[e] \subseteq replicas[e]
      <4>1. ASSUME ClientDies(c)
            PROVE  \A e \in Clients : replicas'[e] \subseteq replicas[e]
        BY <1>0, <4>1 DEF ClientDies, NoReplicaState
      <4>2. ASSUME NEW k \in Names, DestroyReplica(c, k)
            PROVE  \A e \in Clients : replicas'[e] \subseteq replicas[e]
        BY <1>0, <4>2 DEF DestroyReplica
      <4>. QED  BY <4>1, <4>2
                DEF ClientNext, OnClientRead, ConnectToServer, OnShouldReconnect,
                    ClientCrash, ReadObjectList, ReadInit, ReadInitDynamic, Initialize,
                    ReadPropertyChange, ReadRemoveObject, replicaVars
    <3>. QED  BY <1>4, <3>1
  <2>2. n = k /\ d = c /\ acquires'[d][n] = acquires[d][n] + 1
    BY <1>0, <1>4, <2>1 DEF Acquire
  <2>3. k \in Names /\ acquires[d][n] \in Nat
    BY <2>1, <2>2, TokenTypes
  <2>. QED  BY <2>2, <2>3
<1>5. AcquiredFirst'
  BY <1>0, <1>3, <1>4 DEF AcquiredFirst
<1>. QED  BY <1>2, <1>5

(* So each connection stays listed as it should be. *)
LEMMA ListedClient ==
  ASSUME TypeOK, TypeOK', NoDanglingListener, ValidIsAttached, ListingInv,
         NEW c \in Clients, ClientNext(c)
  PROVE  EachListed'
<1>0. /\ UNCHANGED hostVars
      /\ toHost' = toHost \/ (c \in linked /\ \E reqs : toHost' = Request(c, reqs))
      /\ c \notin linked \/ c \notin linked' => toHost' = toHost
      /\ toHost \in [Conns -> Seq(Requests)]
  BY ClientLeavesHost, ClientWrites DEF TypeOK, WireTypeOK
<1>. SUFFICES ASSUME NEW cc \in Conns, NEW n \in Names
              PROVE  Listed(acquires'[cc[1]][n], listeners[n][cc], toHost'[cc], n)
  BY <1>0 DEF EachListed, ListedOK, hostVars
<1>1. /\ cc[1] \in Clients /\ toHost[cc] \in Seq(Requests) /\ listeners[n][cc] \in Nat
      /\ acquires[cc[1]][n] \in Nat /\ listeners[n][cc] \in {0, listeners[n][cc]}
      /\ acquires[cc[1]][n] <= acquires'[cc[1]][n]
      /\ Listed(acquires[cc[1]][n], listeners[n][cc], toHost[cc], n)
  BY TokenTypes, ClientWrites DEF ListingInv, EachListed, ListedOK
<1>2. acquires'[cc[1]][n] \in Nat
  <2>1. acquires' \in [Clients -> [Names -> 0..MaxAcquires]]
    BY DEF TypeOK, ClientTypeOK
  <2>. QED  BY <1>1, <2>1, BoundsAreNaturals
<1>3. CASE toHost'[cc] = toHost[cc]
  BY <1>1, <1>2, <1>3, ListedLess
<1>4. CASE toHost'[cc] # toHost[cc]
  <2>1. c \in linked /\ c \in linked' /\ cc = Current(c)
    BY <1>0, <1>4 DEF Request
  <2>2. Kept(c, n) /\ cc[1] = c
    BY <2>1, KeptClient, TokenTypes
  <2>. QED  BY <2>1, <2>2 DEF Kept
<1>. QED  BY <1>3, <1>4

(* And each token in its place. *)
LEMMA TokenClient ==
  ASSUME TypeOK, TypeOK', NoDanglingListener, NoFuture, ValidIsAttached, ListingInv,
         NEW c \in Clients, ClientNext(c)
  PROVE  EachToken'
<1>0. /\ UNCHANGED hostVars
      /\ toHost' = toHost \/ (c \in linked /\ \E reqs : toHost' = Request(c, reqs))
      /\ toHost \in [Conns -> Seq(Requests)]
      /\ \A d \in Clients \ {c} : d \in linked' <=> d \in linked
      /\ linked' \subseteq Clients
  BY ClientLeavesHost, ClientWrites DEF TypeOK, WireTypeOK
<1>. SUFFICES ASSUME NEW d \in linked', NEW n \in Names  PROVE TokenOK(d, n)'
  BY DEF EachToken
<1>1. d \in Clients
  BY <1>0
<1>2. CASE d # c
  <2>1. /\ epoch'[d] = epoch[d] /\ toClient'[d] = toClient[d]
        /\ hasMeta'[d] = hasMeta[d] /\ acquires'[d] = acquires[d]
        /\ replicas'[d] = replicas[d] /\ attached'[d] = attached[d]
        /\ state'[d] = state[d]
    BY <1>1, <1>2, OtherTokens, OtherReplicas
  <2>2. d \in linked /\ TokenOK(d, n) /\ Current(d) \in Conns
    BY <1>0, <1>1, <1>2, TokenTypes DEF ListingInv, EachToken
  <2>3. Current(d)' = Current(d) /\ Current(d) # Current(c)
    BY <1>2, <2>1 DEF Current
  <2>4. toHost'[Current(d)] = toHost[Current(d)]
    BY <1>0, <2>2, <2>3 DEF Request
  <2>. QED  BY <1>0, <2>1, <2>2, <2>3, <2>4 DEF TokenOK, ToldOK, FirstOK, hostVars
<1>3. CASE d = c /\ c \in linked
  <2>1. Kept(c, n)
    BY <1>3, KeptClient
  <2>2. Current(c)' = Current(c)
    BY <1>3, OtherTokens DEF Current
  <2>. QED  BY <1>0, <1>3, <2>1, <2>2 DEF Kept, TokenOK, ToldOK, FirstOK, hostVars
<1>4. CASE d = c /\ c \notin linked
  <2>1. ConnectToServer(c)
    BY <1>4 DEF ClientNext, OnClientRead, OnShouldReconnect, ClientCrash, Acquire,
                DestroyReplica, ReadObjectList, ReadInit, ReadInitDynamic,
                ReadPropertyChange, ReadRemoveObject, ClientReads
  <2>. QED  BY <1>4, <2>1, KeptConnect DEF ListingInv
<1>. QED  BY <1>2, <1>3, <1>4

-----------------------------------------------------------------------------
(* The theorems *)

LEMMA ListingStep ==
  ASSUME TypeOK, TypeOK', NoDanglingListener, NoFuture, ValidIsAttached,
         ListingInv, [Next]_vars
  PROVE  ListingInv'
<1>1. CASE HostNext
  BY <1>1, HearsHost, ListedHost, TokenHost DEF ListingInv
<1>2. ASSUME NEW c \in Clients, ClientNext(c)  PROVE ListingInv'
  BY <1>2, HearsClient, ListedClient, TokenClient DEF ListingInv
<1>3. CASE UNCHANGED vars
  BY <1>3 DEF vars, hostVars, wireVars, clientVars, replicaVars, boundVars, ListingInv,
              HostHears, AcquiredFirst, EachListed, EachToken, ListedOK, TokenOK,
              ToldOK, FirstOK, Current
<1>. QED  BY <1>1, <1>2, <1>3 DEF Next

LEMMA ListingInit == Init => NoFuture /\ ListingInv
<1>. SUFFICES ASSUME Init  PROVE NoFuture /\ ListingInv
  OBVIOUS
<1>1. NoFuture /\ HostHears /\ AcquiredFirst
  BY DEF Init, NoFuture, HostHears, AcquiredFirst
<1>2. EachListed
  <2>. SUFFICES ASSUME NEW cc \in Conns, NEW n \in Names  PROVE ListedOK(cc, n)
    BY DEF EachListed
  <2>1. listeners[n][cc] = 0 /\ toHost[cc] = <<>>
    BY DEF Init, NoListeners
  <2>2. Listed(acquires[cc[1]][n], 0, <<>>, n)
    BY AtEmpty DEF Listed, AtMostOne
  <2>. QED  BY <2>1, <2>2 DEF ListedOK
<1>3. EachToken
  BY DEF Init, EachToken
<1>. QED  BY <1>1, <1>2, <1>3 DEF ListingInv

(* The token's rules give the listeners that a reader expects. *)
LEMMA ListedIsOneListener ==
  ASSUME TypeOK, ListingInv  PROVE OneListener
<1>. SUFFICES ASSUME NEW cc \in Conns, NEW n \in Names,
                     acquires[cc[1]][n] <= 1, listeners[n][cc] > 0
              PROVE  /\ listeners[n][cc] = 1
                     /\ cc[1] \in linked /\ cc = Current(cc[1]) =>
                          \/ n \in attached[cc[1]]
                          \/ RemoveObject(n) \in Range(toHost[cc])
  BY DEF OneListener
<1>1. listeners[n][cc] \in Nat /\ listeners[n][cc] <= 1
  BY TokenTypes DEF ListingInv, EachListed, ListedOK, Listed
<1>2. ASSUME cc[1] \in linked, cc = Current(cc[1]), n \notin attached[cc[1]]
      PROVE  RemoveObject(n) \in Range(toHost[cc])
  <2>1. At(toHost[cc], Removes(n)) # {}
    BY <1>2 DEF ListingInv, EachToken, TokenOK, ToldOK, Told
  <2>2. PICK i \in DOMAIN toHost[cc] : toHost[cc][i] \in Removes(n)
    BY <2>1 DEF At
  <2>3. toHost[cc][i] = RemoveObject(n)
    BY <2>2 DEF Removes, RemovePackets, RemoveObject
  <2>. QED  BY <2>2, <2>3 DEF Range
<1>. QED  BY <1>1, <1>2

(* And its first values come once. *)
LEMMA FirstIsInitializedOnce ==
  ASSUME TypeOK, ListingInv  PROVE InitializedOnce
<1>. SUFFICES ASSUME NEW c \in linked, toClient[c] # <<>>,
                     Head(toClient[c]).type \in {"Init", "InitDynamic"},
                     Head(toClient[c]).name \in replicas[c],
                     acquires[c][Head(toClient[c]).name] <= 1
              PROVE  LET n == Head(toClient[c]).name IN
                     /\ state[c][n] # Valid
                     /\ (Head(toClient[c]).type = "InitDynamic") = (n \notin hasMeta[c])
  BY DEF InitializedOnce
<1>. DEFINE s == toClient[c]
            m == Head(s)
            n == m.name
<1>1. c \in Clients /\ s \in Seq(Packets) /\ s # <<>> /\ n \in Names
  BY TokenTypes DEF TypeOK, ClientTypeOK, ReplicaSetsOK
<1>2. m \in Firsts(n)
  <2>1. m \in Packets
    BY ClientReadsType
  <2>. QED  BY <2>1 DEF Packets, ListPackets, RemovePackets, Firsts
<1>3. 1 \in At(s, Firsts(n)) /\ s[1] = m
  BY <1>1, <1>2, AtTail
<1>4. First(acquires[c][n], toHost[Current(c)], s, replicas[c], attached[c],
            state[c][n], hasMeta[c], n)
  BY <1>1 DEF ListingInv, EachToken, TokenOK, FirstOK
<1>5. state[c][n] # Valid /\ (m.type = "InitDynamic") = (n \notin hasMeta[c])
  BY <1>3, <1>4 DEF First
<1>. QED  BY <1>5

LEMMA ListingHolds == Spec => [](TypeOK /\ ListingInv)
<1>1. TypeOK /\ TypeOK' /\ NoDanglingListener /\ ValidIsAttached
      /\ NoFuture /\ ListingInv /\ [Next]_vars => NoFuture' /\ ListingInv'
  BY NoFutureStep, ListingStep
<1>. QED  BY <1>1, ListingInit, TypeCorrect, ListenersAreAlive, ValidAreAttached,
             PTL DEF Spec

(* A client that acquires a name once is listed once by its source         *)
(* (addListener appends without looking), and no longer than its replica   *)
(* is attached or its request to be removed on the way.                    *)
THEOREM ListedOnce == Spec => []OneListener
<1>1. TypeOK /\ ListingInv => OneListener
  BY ListedIsOneListener
<1>. QED  BY <1>1, ListingHolds, PTL

(* Values that initialize a replica never find it Valid (ReadInit and       *)
(* ReadInitDynamic), and are of the kind that its metaobject calls for, for *)
(* a name that its client acquires once.                                    *)
THEOREM ValuesComeFirstOnce == Spec => []InitializedOnce
<1>1. TypeOK /\ ListingInv => InitializedOnce
  BY FirstIsInitializedOnce
<1>. QED  BY <1>1, ListingHolds, PTL

=============================================================================
