------------------------- MODULE QnxTransportProofs -------------------------
(***************************************************************************)
(* Theorems about QnxTransport, for writes of any lengths and any number   *)
(* of connections: each side reads what the other wrote, in order and      *)
(* once, although many writes share one request and a thread that stops    *)
(* leaves messages behind.                                                 *)
(***************************************************************************)
EXTENDS QnxTransport, SequenceTheorems, WellFoundedInduction, TLAPS

-----------------------------------------------------------------------------
(* Types *)

Pulses == [code : {"TxRequest", "Write", "Terminate"}, len : Nat]

Messages == [type : {"Init", "Respond", "Repeat", "Receive", "Disconnect"},
             session : Sessions, len : Nat, payload : ByteStreams]

Threads == [at : {"none", "receiving", "responding", "left", "repeating", "sending"},
            want : Nat, ignore : 0..(MaxWrites + 1), payload : ByteStreams]

Sources == [known : BOOLEAN, attached : BOOLEAN, serverClosing : BOOLEAN, early : BOOLEAN,
            obuffer : Seq(ByteStreams), buffer : ByteStreams, got : ByteStreams,
            sent : Nat]

Events == {"newConnection", "readyRead", "onDisconnected"} \X Sessions

StateOK ==
  /\ pulses \in Seq(Pulses) /\ inbox \in Seq(Messages) /\ thread \in Threads
  /\ sources \in [Sessions -> Sources] /\ posted \in Seq(Events)
  /\ announces \in {<<0, 0>>} \cup (Sessions \X Lengths)
  /\ linked \in BOOLEAN /\ listening \in BOOLEAN /\ writes \in 0..MaxWrites
  /\ \A s \in Sessions : Len(sources[s].obuffer) <= writes

(* Where the client's two threads are, and what they leave to each other.  *)
ClientOK ==
  /\ state # "Unconnected" => session \in Sessions
  /\ linked => thread.at # "none" /\ state # "Unconnected"
  /\ thread.at = "none" => /\ thread = NoThread /\ pulses = <<>>
                           /\ state = "Unconnected" \/ clientAt = "joining"
  /\ \A i \in 1..Len(pulses) : pulses[i].code = "Terminate" => clientAt = "joining"
  /\ unpulsed # 0 => clientAt = "free" /\ state = "Connected"
  /\ clientAt = "registering" =>
       /\ state = "Connecting" /\ pulses = <<>>
       /\ thread = [NoThread EXCEPT !.at = "receiving"]
  /\ thread.at # "sending" => thread.payload = <<>>

(* A message to the server is one that the client waits for, in the state  *)
(* it waits for its reply in, or tells of the end of a session.            *)
Awaited(m) ==
  /\ linked /\ m.session = session
  /\ \/ m.type = "Init" /\ clientAt = "registering"
     \/ m.type = "Respond" /\ thread.at = "responding" /\ m.len = thread.want
     \/ m.type = "Repeat" /\ thread.at = "repeating" /\ m.len = thread.want
     \/ m.type = "Receive" /\ thread.at = "sending"

Ended(m) ==
  /\ m.type = "Disconnect"
  /\ m.session < session \/ (m.session = session /\ thread.at = "none")

InboxOK ==
  /\ \A i \in 1..Len(inbox) : Awaited(inbox[i]) \/ Ended(inbox[i])
  /\ \A i, j \in 1..Len(inbox) : Awaited(inbox[i]) /\ Awaited(inbox[j]) => i = j

\* The server has not heard of the session yet.
Unborn(s) == s > session \/ (s = session /\ clientAt = "registering")

SourcesOK ==
  /\ linked /\ clientAt # "registering" => sources[session].known
  /\ \A s \in Sessions : sources[s].known => ~sources[s].serverClosing
  /\ \A s \in Sessions : Unborn(s) =>
       /\ sources[s] = NoSource /\ announces[1] # s
       /\ \A i \in 1..Len(posted) : posted[i][2] # s
  /\ linked => \A i \in 1..Len(posted) : posted[i] # <<"onDisconnected", session>>

ControlInv == TypeOK /\ StateOK /\ ClientOK /\ InboxOK /\ SourcesOK

-----------------------------------------------------------------------------
(* The streams *)

\* Consecutive chunks of session s: e[i] of its bytes are written before, or in,
\* the i-th chunk.
Cut(chunks, s, e) ==
  /\ e \in [0..Len(chunks) -> Nat]
  /\ \A i \in 1..Len(chunks) :
       e[i - 1] < e[i] /\ chunks[i] = Chunk(s, e[i - 1], e[i] - e[i - 1])

\* t are the lengths in the pulses of a code, which are the w[i]-th of p.
Picks(p, code, t, w) ==
  /\ w \in [1..Len(t) -> 1..Len(p)]
  /\ \A i, j \in 1..Len(t) : i < j => w[i] < w[j]
  /\ \A i \in 1..Len(t) : p[w[i]].code = code /\ p[w[i]].len = t[i]
  /\ \A k \in 1..Len(p) : p[k].code = code => \E i \in 1..Len(t) : w[i] = k

Lens(p, code, t) == \E w : Picks(p, code, t, w)

\* After those to be ignored, the announced lengths u are those of the chunks, the
\* first of which may have been asked for.
Owes(u, ignore, chunks, asked) ==
  /\ Len(u) + asked = ignore + Len(chunks)
  /\ \A i \in 1..Len(chunks) - asked : u[ignore + i] = Len(chunks[asked + i])

Announced == IF announces[1] = session THEN <<announces[2]>> ELSE <<>>
Unpulsed == IF unpulsed # 0 THEN <<unpulsed>> ELSE <<>>
Asked == IF thread.at = "responding" THEN 1 ELSE 0

\* What a session that is up has brought to the client, and what is still to come.
Receiving(e) ==
  LET chunks == sources[session].obuffer
  IN  /\ got \o buffer = Chunk(session, 0, e[0])
      /\ thread.at \in {"responding", "left", "repeating"} => thread.ignore = 0
      /\ thread.at = "responding" => chunks # <<>> /\ thread.want = Len(chunks[1])
      /\ thread.at \in {"left", "repeating"} =>
           \E k \in 1..Len(chunks) : thread.want = e[k] - e[0]
      /\ \E t \in Seq(Nat) : /\ Lens(pulses, "TxRequest", t)
                             /\ Owes(t \o Announced, thread.ignore, chunks, Asked)

ToClient(s, e) ==
  /\ Cut(sources[s].obuffer, s, e) /\ e[Len(sources[s].obuffer)] = sources[s].sent
  /\ s = session /\ linked /\ <<"toClient", s>> \notin lost => Receiving(e)

\* The same for what the client sends: b bytes of it have arrived.
ToServer(e, b) ==
  /\ Cut(obuffer, session, e) /\ e[Len(obuffer)] = sent
  /\ sources[session].got \o sources[session].buffer = Chunk(session, 0, b)
  /\ b <= e[0] /\ thread.payload = Chunk(session, b, e[0] - b)
  /\ \A i \in 1..Len(inbox) : inbox[i].type = "Receive" => inbox[i].payload = thread.payload
  /\ \E t \in Seq(Nat) : /\ Lens(pulses, "Write", t)
                         /\ Owes(t \o Unpulsed, 0, obuffer, 0)

ToClientOK == \A s \in Sessions : \E e : ToClient(s, e)
ToServerOK ==
  linked /\ <<"toServer", session>> \notin lost => \E e : \E b \in Nat : ToServer(e, b)

\* And what a session that was up has brought.
ReadOK ==
  /\ <<"toClient", session>> \notin lost => FirstOf(session, got \o buffer)
  /\ \A s \in Sessions : <<"toServer", s>> \notin lost =>
       FirstOf(s, sources[s].got \o sources[s].buffer)

StreamInv == ControlInv /\ ToClientOK /\ ToServerOK /\ ReadOK

-----------------------------------------------------------------------------
(* Induction, and sequences *)

(* A set of numbers has a smallest one, *)
LEMMA Smallest ==
  ASSUME NEW S \in SUBSET Nat, S # {}  PROVE \E k \in S : \A j \in S : k <= j
<1>. DEFINE R == OpToRel(<, Nat)
<1>1. IsWellFoundedOn(R, Nat)
  BY NatLessThanWellFounded
<1>2. \A x, y \in Nat : <<y, x>> \in R <=> y < x
  BY DEF OpToRel
<1>. HIDE DEF R
<1>3. PICK k \in S : \A j \in S : <<j, k>> \notin R
  BY <1>1, WFMin
<1>4. ASSUME NEW j \in S  PROVE k <= j
  <2>1. j \in Nat /\ k \in Nat /\ ~(j < k)
    BY <1>2, <1>3
  <2>. QED  BY <2>1
<1>. QED  BY <1>4

(* so that a set with 0 and each next number has them all. *)
LEMMA SetInduction ==
  ASSUME NEW T, 0 \in T, \A n \in Nat : n \in T => n + 1 \in T
  PROVE  \A n \in Nat : n \in T
<1>. SUFFICES ASSUME Nat \ T # {}  PROVE FALSE
  OBVIOUS
<1>1. PICK k \in Nat \ T : \A j \in Nat \ T : k <= j
  BY Smallest
<1>2. k # 0 /\ k \in Nat
  BY <1>1
<1>3. PICK j \in Nat : j = k - 1
  BY <1>2
<1>4. j + 1 = k /\ j < k
  BY <1>2, <1>3
<1>5. j \notin T
  BY <1>1, <1>4
<1>. QED  BY <1>1, <1>2, <1>4, <1>5

(* What the first element and the rest of a sequence are. *)
LEMMA HeadAndTail ==
  ASSUME NEW S, NEW s \in Seq(S), s # <<>>
  PROVE  /\ Head(s) = s[1] /\ Head(s) \in S /\ Tail(s) \in Seq(S)
         /\ Len(s) \in Nat \ {0} /\ Len(Tail(s)) = Len(s) - 1
         /\ \A i \in 1..Len(s) - 1 : Tail(s)[i] = s[i + 1]
BY HeadTailProperties, EmptySeq, LenProperties

-----------------------------------------------------------------------------
(* Chunks *)

(* What the next bytes are, *)
LEMMA ChunkType ==
  ASSUME NEW s \in Sessions, NEW from \in Nat, NEW n \in Nat
  PROVE  /\ Chunk(s, from, n) \in ByteStreams /\ Len(Chunk(s, from, n)) = n
         /\ \A i \in 1..n : Chunk(s, from, n)[i] = <<s, from + i>>
<1>1. \A i \in 1..n : <<s, from + i>> \in (Sessions \cup {0}) \X Nat
  OBVIOUS
<1>. QED  BY <1>1 DEF Chunk, ByteStreams

(* and that those after them follow. *)
LEMMA ChunkOn ==
  ASSUME NEW s \in Sessions, NEW from \in Nat, NEW m \in Nat, NEW n \in Nat
  PROVE  Chunk(s, from, m) \o Chunk(s, from + m, n) = Chunk(s, from, m + n)
<1>. DEFINE a == Chunk(s, from, m)
            b == Chunk(s, from + m, n)
            c == Chunk(s, from, m + n)
            S == (Sessions \cup {0}) \X Nat
<1>1. /\ a \in Seq(S) /\ Len(a) = m /\ \A i \in 1..m : a[i] = <<s, from + i>>
      /\ b \in Seq(S) /\ Len(b) = n /\ \A i \in 1..n : b[i] = <<s, from + m + i>>
      /\ c \in Seq(S) /\ Len(c) = m + n /\ \A i \in 1..m + n : c[i] = <<s, from + i>>
  <2>1. from + m \in Nat /\ m + n \in Nat
    OBVIOUS
  <2>2. c \in Seq(S) /\ Len(c) = m + n /\ \A i \in 1..m + n : c[i] = <<s, from + i>>
    BY <2>1, ChunkType DEF ByteStreams
  <2>3. b \in Seq(S) /\ Len(b) = n /\ \A i \in 1..n : b[i] = <<s, from + m + i>>
    BY <2>1, ChunkType DEF ByteStreams
  <2>4. a \in Seq(S) /\ Len(a) = m /\ \A i \in 1..m : a[i] = <<s, from + i>>
    BY ChunkType DEF ByteStreams
  <2>. QED  BY <2>2, <2>3, <2>4
<1>. HIDE DEF a, b, c, S
<1>2. /\ a \o b \in Seq(S) /\ Len(a \o b) = m + n
      /\ \A i \in 1..m + n : (a \o b)[i] = IF i <= m THEN a[i] ELSE b[i - m]
  BY <1>1, ConcatProperties
<1>3. \A i \in 1..m + n : (a \o b)[i] = c[i]
  <2>. TAKE i \in 1..m + n
  <2>0. c[i] = <<s, from + i>>
    BY <1>1
  <2>1. CASE i <= m
    <3>1. i \in 1..m /\ (a \o b)[i] = a[i]
      BY <1>2, <2>1
    <3>. QED  BY <1>1, <2>0, <3>1
  <2>2. CASE i > m
    <3>1. PICK k \in 1..n : i = m + k
      <4>1. i - m \in 1..n /\ i = m + (i - m)
        BY <2>2
      <4>. QED  BY <4>1
    <3>2. (a \o b)[i] = b[k]
      BY <1>2, <2>2, <3>1
    <3>3. b[k] = <<s, from + m + k>> /\ from + m + k = from + i
      BY <1>1, <3>1
    <3>. QED  BY <2>0, <3>2, <3>3
  <2>3. i <= m \/ i > m
    OBVIOUS
  <2>. QED  BY <2>1, <2>2, <2>3
<1>4. a \o b = c
  BY <1>1, <1>2, <1>3, SeqEqual
<1>. QED  BY <1>4 DEF a, b, c

\* Bytes are joined in any grouping.
LEMMA StreamsJoin ==
  ASSUME NEW a \in ByteStreams, NEW b \in ByteStreams, NEW c \in ByteStreams
  PROVE  a \o b \in ByteStreams /\ a \o (b \o c) = (a \o b) \o c
<1>. DEFINE S == (Sessions \cup {0}) \X Nat
<1>1. a \in Seq(S) /\ b \in Seq(S) /\ c \in Seq(S) /\ ByteStreams = Seq(S)
  BY DEF ByteStreams
<1>. HIDE DEF S
<1>. QED  BY <1>1, ConcatProperties, ConcatAssociative

(* A transfer of what was announced keeps the bytes, *)
LEMMA FitsAll ==
  ASSUME NEW chunk \in ByteStreams  PROVE Fit(chunk, Len(chunk)) = chunk
<1>1. Len(chunk) \in Nat /\ chunk = [i \in 1..Len(chunk) |-> chunk[i]]
  BY LenProperties DEF ByteStreams
<1>. QED  BY <1>1 DEF Fit

(* and any other has as many bytes as were. *)
LEMMA FitType ==
  ASSUME NEW chunk \in ByteStreams, NEW n \in Nat
  PROVE  Fit(chunk, n) \in ByteStreams
<1>. DEFINE S == (Sessions \cup {0}) \X Nat
<1>1. Garbage \in S
  BY DEF Garbage
<1>2. \A i \in 1..n : i <= Len(chunk) => chunk[i] \in S
  BY ElementOfSeq, LenProperties DEF ByteStreams
<1>3. \A i \in 1..n : (IF i <= Len(chunk) THEN chunk[i] ELSE Garbage) \in S
  BY <1>1, <1>2
<1>. HIDE DEF S
<1>4. [i \in 1..n |-> IF i <= Len(chunk) THEN chunk[i] ELSE Garbage] \in [1..n -> S]
  BY <1>3
<1>5. Fit(chunk, n) \in Seq(S)
  BY <1>4, SeqDef DEF Fit
<1>. QED  BY <1>5 DEF S, ByteStreams

-----------------------------------------------------------------------------
(* Consecutive chunks *)

(* The types of a cut. *)
LEMMA CutType ==
  ASSUME NEW s \in Sessions, NEW chunks \in Seq(ByteStreams), NEW e, Cut(chunks, s, e)
  PROVE  /\ Len(chunks) \in Nat /\ \A i \in 0..Len(chunks) : e[i] \in Nat
         /\ \A i \in 1..Len(chunks) :
              /\ e[i - 1] \in Nat /\ e[i - 1] < e[i] /\ e[i] - e[i - 1] \in Nat \ {0}
              /\ chunks[i] = Chunk(s, e[i - 1], e[i] - e[i - 1])
              /\ Len(chunks[i]) = e[i] - e[i - 1] /\ chunks[i] \in ByteStreams
<1>1. Len(chunks) \in Nat /\ \A i \in 0..Len(chunks) : e[i] \in Nat
  BY LenProperties DEF Cut
<1>2. ASSUME NEW i \in 1..Len(chunks)
      PROVE  /\ e[i - 1] \in Nat /\ e[i - 1] < e[i] /\ e[i] - e[i - 1] \in Nat \ {0}
             /\ chunks[i] = Chunk(s, e[i - 1], e[i] - e[i - 1])
  <2>1. i - 1 \in 0..Len(chunks) /\ i \in 0..Len(chunks)
    BY <1>1
  <2>2. e[i - 1] \in Nat /\ e[i] \in Nat
    BY <1>1, <2>1
  <2>. QED  BY <2>2 DEF Cut
<1>3. ASSUME NEW i \in 1..Len(chunks)
      PROVE  Len(chunks[i]) = e[i] - e[i - 1] /\ chunks[i] \in ByteStreams
  <2>1. PICK from \in Nat, n \in Nat : from = e[i - 1] /\ n = e[i] - e[i - 1]
    BY <1>2
  <2>2. chunks[i] = Chunk(s, from, n)
    BY <1>2, <2>1
  <2>3. Len(Chunk(s, from, n)) = n /\ Chunk(s, from, n) \in ByteStreams
    BY ChunkType
  <2>. QED  BY <2>1, <2>2, <2>3
<1>. QED  BY <1>1, <1>2, <1>3

(* Each chunk has bytes. *)
LEMMA CutRises ==
  ASSUME NEW s \in Sessions, NEW chunks \in Seq(ByteStreams), NEW e, Cut(chunks, s, e),
         NEW i \in 0..Len(chunks), NEW j \in 0..Len(chunks), i < j
  PROVE  e[i] < e[j]
<1>. DEFINE T == {n \in Nat : n <= Len(chunks) /\ i < n => e[i] < e[n]}
<1>1. 0 \in T
  OBVIOUS
<1>2. ASSUME NEW n \in Nat, n \in T  PROVE n + 1 \in T
  <2>. SUFFICES ASSUME n + 1 <= Len(chunks), i < n + 1  PROVE e[i] < e[n + 1]
    OBVIOUS
  <2>1. /\ Len(chunks) \in Nat /\ n + 1 \in 1..Len(chunks) /\ (n + 1) - 1 = n
        /\ n \in 0..Len(chunks)
    BY CutType
  <2>2. e[n] \in Nat /\ e[n + 1] \in Nat /\ e[i] \in Nat /\ e[n] < e[n + 1]
    <3>1. n + 1 \in 0..Len(chunks)
      BY <2>1
    <3>2. e[n] \in Nat /\ e[n + 1] \in Nat /\ e[i] \in Nat
      BY <2>1, <3>1, CutType
    <3>3. e[(n + 1) - 1] < e[n + 1]
      BY <2>1, CutType
    <3>. QED  BY <2>1, <3>2, <3>3
  <2>3. CASE i = n
    BY <2>2, <2>3
  <2>4. CASE i < n
    BY <1>2, <2>1, <2>2, <2>4
  <2>. QED  BY <2>1, <2>3, <2>4
<1>. HIDE DEF T
<1>3. \A n \in Nat : n \in T
  BY <1>1, <1>2, SetInduction
<1>4. j \in Nat /\ j <= Len(chunks)
  BY CutType
<1>. QED  BY <1>3, <1>4 DEF T

(* Together they are the bytes from their first to their last. *)
LEMMA CutBytes ==
  ASSUME NEW s \in Sessions, NEW chunks \in Seq(ByteStreams), NEW e, Cut(chunks, s, e)
  PROVE  Bytes(chunks) = Chunk(s, e[0], e[Len(chunks)] - e[0])
<1>. DEFINE N == Len(chunks)
            Joins(f) == f = [i \in 1..N |-> IF i = 1 THEN chunks[i] ELSE f[i-1] \o chunks[i]]
            all == [i \in 1..N |-> Chunk(s, e[0], e[i] - e[0])]
<1>1. N \in Nat /\ \A i \in 0..N : e[i] \in Nat
  BY CutType
<1>2. CASE N = 0
  <2>1. chunks = <<>>
    BY <1>2, EmptySeq
  <2>2. Chunk(s, e[0], 0) = <<>>
    BY DEF Chunk
  <2>3. e[N] - e[0] = 0
    BY <1>1, <1>2
  <2>. QED  BY <1>2, <2>1, <2>2, <2>3 DEF Bytes, FlattenSeq
<1>3. CASE N # 0
  <2>0. ASSUME NEW i \in 2..N
        PROVE  Chunk(s, e[0], e[i-1] - e[0]) \o chunks[i] = Chunk(s, e[0], e[i] - e[0])
    <3>1. /\ i \in 1..N /\ i - 1 \in 0..N /\ 0 \in 0..N /\ i - 1 > 0
      BY <1>1
    <3>2. PICK a \in Nat, m \in Nat, n \in Nat :
            a = e[0] /\ m = e[i-1] - e[0] /\ n = e[i] - e[i-1]
      <4>1. e[0] < e[i-1] /\ e[i-1] < e[i] /\ e[0] \in Nat /\ e[i-1] \in Nat /\ e[i] \in Nat
        BY <1>1, <3>1, CutType, CutRises
      <4>. QED  BY <4>1
    <3>3. e[i-1] = a + m /\ e[i] - e[0] = m + n
      <4>. HIDE DEF N, Joins, all
      <4>1. PICK x \in Nat, y \in Nat : x = e[i-1] /\ y = e[i]
        BY <1>1, <3>1
      <4>2. m = x - a /\ n = y - x /\ e[i] - e[0] = y - a
        BY <3>2, <4>1
      <4>3. x = a + m /\ y - a = m + n
        BY <4>2
      <4>. QED  BY <4>1, <4>2, <4>3
    <3>4. chunks[i] = Chunk(s, a + m, n)
      <4>1. chunks[i] = Chunk(s, e[i-1], e[i] - e[i-1])
        BY <3>1, CutType
      <4>. QED  BY <3>2, <3>3, <4>1
    <3>5. Chunk(s, a, m) \o Chunk(s, a + m, n) = Chunk(s, a, m + n)
      BY ChunkOn
    <3>. QED  BY <3>2, <3>3, <3>4, <3>5
  <2>1. Joins(all)
    <3>1. 1 \in 1..N => chunks[1] = Chunk(s, e[0], e[1] - e[0])
      <4>1. 1 - 1 = 0
        OBVIOUS
      <4>. QED  BY <4>1, CutType
    <3>2. ASSUME NEW i \in 1..N
          PROVE  all[i] = IF i = 1 THEN chunks[i] ELSE all[i-1] \o chunks[i]
      <4>1. CASE i = 1
        BY <3>1, <4>1
      <4>2. CASE i # 1
        <5>1. i \in 2..N /\ i - 1 \in 1..N
          BY <1>1, <4>2
        <5>. QED  BY <2>0, <4>2, <5>1
      <4>. QED  BY <4>1, <4>2
    <3>3. all = [i \in 1..N |-> all[i]]
      OBVIOUS
    <3>. HIDE DEF all
    <3>. QED  BY <3>2, <3>3
  <2>. DEFINE f == CHOOSE g : Joins(g)
  <2>2. Joins(f)
    <3>. HIDE DEF Joins, all
    <3>. QED  BY <2>1
  <2>3. Bytes(chunks) = f[N]
    BY <1>3 DEF Bytes, FlattenSeq
  <2>. HIDE DEF f
  <2>4. \A i \in 1..N : f[i] = IF i = 1 THEN chunks[i] ELSE f[i-1] \o chunks[i]
    BY <2>2
  <2>. DEFINE T == {n \in Nat : n \in 1..N => f[n] = all[n]}
  <2>5. 0 \in T
    OBVIOUS
  <2>6. ASSUME NEW n \in Nat, n \in T  PROVE n + 1 \in T
    <3>. SUFFICES ASSUME n + 1 \in 1..N  PROVE f[n + 1] = all[n + 1]
      OBVIOUS
    <3>1. all[n + 1] = IF n + 1 = 1 THEN chunks[n + 1] ELSE all[(n + 1) - 1] \o chunks[n + 1]
      BY <2>1
    <3>2. f[n + 1] = IF n + 1 = 1 THEN chunks[n + 1] ELSE f[(n + 1) - 1] \o chunks[n + 1]
      BY <2>4
    <3>3. n + 1 # 1 => n \in 1..N /\ (n + 1) - 1 = n
      BY <1>1
    <3>. HIDE DEF all
    <3>. QED  BY <2>6, <3>1, <3>2, <3>3
  <2>. HIDE DEF T
  <2>7. \A n \in Nat : n \in T
    BY <2>5, <2>6, SetInduction
  <2>8. N \in 1..N
    BY <1>1, <1>3
  <2>. QED  BY <1>1, <2>3, <2>7, <2>8 DEF T
<1>. QED  BY <1>2, <1>3

(* No chunks are a cut at any place. *)
LEMMA CutNothing ==
  ASSUME NEW s \in Sessions, NEW from \in Nat
  PROVE  \E e : Cut(<<>>, s, e) /\ e[0] = from /\ e[Len(<<>>)] = from
<1>. DEFINE e == [i \in 0..0 |-> from]
<1>1. Len(<<>>) = 0
  OBVIOUS
<1>2. e \in [0..0 -> Nat] /\ e[0] = from
  OBVIOUS
<1>. HIDE DEF e
<1>3. Cut(<<>>, s, e)
  BY <1>1, <1>2 DEF Cut
<1>. QED  BY <1>1, <1>2, <1>3

(* A write goes on. *)
LEMMA CutMore ==
  ASSUME NEW s \in Sessions, NEW chunks \in Seq(ByteStreams), NEW e, Cut(chunks, s, e),
         NEW n \in Nat \ {0}, NEW chunk, chunk = Chunk(s, e[Len(chunks)], n)
  PROVE  \E f : /\ Cut(Append(chunks, chunk), s, f)
                /\ f[Len(Append(chunks, chunk))] = e[Len(chunks)] + n
                /\ \A i \in 0..Len(chunks) : f[i] = e[i]
<1>. DEFINE N == Len(chunks)
            more == Append(chunks, chunk)
            f == [i \in 0..N + 1 |-> IF i <= N THEN e[i] ELSE e[N] + n]
<1>1. N \in Nat /\ \A i \in 0..N : e[i] \in Nat
  BY CutType
<1>2. e[N] \in Nat /\ e[N] + n \in Nat
  BY <1>1
<1>3. more \in Seq(ByteStreams) /\ Len(more) = N + 1 /\ more[N + 1] = chunk
      /\ \A i \in 1..N : more[i] = chunks[i]
  <2>1. chunk \in ByteStreams
    BY <1>2, ChunkType
  <2>. QED  BY <2>1, AppendProperties
<1>4. f \in [0..N + 1 -> Nat] /\ f[N + 1] = e[N] + n /\ \A i \in 0..N : f[i] = e[i]
  BY <1>1, <1>2
<1>. HIDE DEF f, more
<1>5. ASSUME NEW i \in 1..N + 1
      PROVE  f[i - 1] < f[i] /\ more[i] = Chunk(s, f[i - 1], f[i] - f[i - 1])
  <2>1. CASE i = N + 1
    <3>1. i - 1 = N /\ N \in 0..N
      BY <1>1, <2>1
    <3>2. f[i - 1] = e[N] /\ f[i] = e[N] + n /\ f[i] - f[i - 1] = n
      BY <1>2, <1>4, <2>1, <3>1
    <3>3. more[i] = Chunk(s, e[N], n)
      BY <1>3, <2>1
    <3>. QED  BY <1>2, <3>2, <3>3
  <2>2. CASE i # N + 1
    <3>1. i \in 1..N /\ i \in 0..N /\ i - 1 \in 0..N
      BY <1>1, <2>2
    <3>2. f[i] = e[i] /\ f[i - 1] = e[i - 1] /\ more[i] = chunks[i]
      BY <1>3, <1>4, <3>1
    <3>. QED  BY <3>1, <3>2, CutType
  <2>. QED  BY <2>1, <2>2
<1>6. Cut(more, s, f)
  BY <1>3, <1>4, <1>5 DEF Cut
<1>. QED  BY <1>3, <1>4, <1>6 DEF more

(* The first chunks, *)
LEMMA CutFirst ==
  ASSUME NEW s \in Sessions, NEW chunks \in Seq(ByteStreams), NEW e, Cut(chunks, s, e),
         NEW k \in 0..Len(chunks)
  PROVE  /\ SubSeq(chunks, 1, k) \in Seq(ByteStreams)
         /\ Bytes(SubSeq(chunks, 1, k)) = Chunk(s, e[0], e[k] - e[0])
<1>. DEFINE part == SubSeq(chunks, 1, k)
            f == [i \in 0..k |-> e[i]]
<1>1. Len(chunks) \in Nat /\ k \in Nat /\ \A i \in 0..Len(chunks) : e[i] \in Nat
  BY CutType
<1>2. /\ part \in Seq(ByteStreams) /\ Len(part) = k
      /\ \A i \in 1..k : part[i] = chunks[i]
  <2>1. \A i \in 1..k : chunks[i] \in ByteStreams
    BY <1>1, CutType
  <2>2. /\ part \in Seq(ByteStreams) /\ Len(part) = IF 1 <= k THEN k - 1 + 1 ELSE 0
        /\ \A i \in 1..k - 1 + 1 : part[i] = chunks[1 + i - 1]
    BY <1>1, <2>1, SubSeqProperties
  <2>3. k - 1 + 1 = k /\ \A i \in 1..k : 1 + i - 1 = i
    BY <1>1
  <2>. QED  BY <1>1, <2>2, <2>3
<1>3. f \in [0..k -> Nat] /\ \A i \in 0..k : f[i] = e[i]
  BY <1>1
<1>. HIDE DEF f, part
<1>4. ASSUME NEW i \in 1..k
      PROVE  f[i - 1] < f[i] /\ part[i] = Chunk(s, f[i - 1], f[i] - f[i - 1])
  <2>1. i \in 1..Len(chunks) /\ i \in 0..k /\ i - 1 \in 0..k
    BY <1>1
  <2>2. f[i] = e[i] /\ f[i - 1] = e[i - 1] /\ part[i] = chunks[i]
    BY <1>2, <1>3, <2>1
  <2>3. e[i - 1] < e[i] /\ chunks[i] = Chunk(s, e[i - 1], e[i] - e[i - 1])
    BY <2>1, CutType
  <2>. QED  BY <2>2, <2>3
<1>5. Cut(part, s, f)
  BY <1>2, <1>3, <1>4 DEF Cut
<1>6. Bytes(part) = Chunk(s, f[0], f[k] - f[0])
  BY <1>2, <1>5, CutBytes
<1>7. f[0] = e[0] /\ f[k] = e[k]
  BY <1>1, <1>3
<1>. QED  BY <1>2, <1>6, <1>7 DEF part

(* and those that remain. *)
LEMMA CutRest ==
  ASSUME NEW s \in Sessions, NEW chunks \in Seq(ByteStreams), NEW e, Cut(chunks, s, e),
         NEW k \in 0..Len(chunks)
  PROVE  LET rest == SubSeq(chunks, k + 1, Len(chunks))
         IN  /\ rest \in Seq(ByteStreams) /\ Len(rest) = Len(chunks) - k
             /\ \A i \in 1..Len(chunks) - k : rest[i] = chunks[i + k]
             /\ \E f : /\ Cut(rest, s, f) /\ f[Len(rest)] = e[Len(chunks)]
                       /\ \A i \in 0..Len(rest) : f[i] = e[i + k]
<1>. DEFINE N == Len(chunks)
            rest == SubSeq(chunks, k + 1, N)
            f == [i \in 0..N - k |-> e[i + k]]
<1>1. /\ N \in Nat /\ k \in Nat /\ N - k \in Nat /\ \A i \in 0..N : e[i] \in Nat
  BY CutType
<1>2. /\ rest \in Seq(ByteStreams) /\ Len(rest) = N - k
      /\ \A i \in 1..N - k : rest[i] = chunks[i + k]
  <2>1. \A i \in k+1..N : chunks[i] \in ByteStreams
    BY <1>1, CutType
  <2>2. /\ rest \in Seq(ByteStreams) /\ Len(rest) = IF k+1 <= N THEN N - (k+1) + 1 ELSE 0
        /\ \A i \in 1..N - (k+1) + 1 : rest[i] = chunks[(k+1) + i - 1]
    BY <1>1, <2>1, SubSeqProperties
  <2>3. N - (k+1) + 1 = N - k /\ \A i \in 1..N - k : (k+1) + i - 1 = i + k
    BY <1>1
  <2>4. (IF k+1 <= N THEN N - (k+1) + 1 ELSE 0) = N - k
    BY <1>1
  <2>5. \A i \in 1..N - k : rest[i] = chunks[i + k]
    <3>. HIDE DEF rest
    <3>. QED  BY <2>2, <2>3
  <2>. QED  BY <2>2, <2>4, <2>5
<1>3. f \in [0..N - k -> Nat] /\ \A i \in 0..N - k : f[i] = e[i + k]
  <2>1. \A i \in 0..N - k : i + k \in 0..N
    BY <1>1
  <2>. QED  BY <1>1, <2>1
<1>. HIDE DEF f, rest
<1>4. ASSUME NEW i \in 1..N - k
      PROVE  f[i - 1] < f[i] /\ rest[i] = Chunk(s, f[i - 1], f[i] - f[i - 1])
  <2>1. i + k \in 1..N /\ i \in 0..N - k /\ i - 1 \in 0..N - k
    BY <1>1
  <2>2. f[i] = e[i + k] /\ f[i - 1] = e[(i - 1) + k] /\ (i - 1) + k = (i + k) - 1
    BY <1>1, <1>3, <2>1
  <2>3. f[i - 1] = e[(i + k) - 1] /\ rest[i] = chunks[i + k]
    BY <1>2, <2>2
  <2>4. PICK j \in 1..N : j = i + k
    BY <2>1
  <2>5. e[j - 1] < e[j] /\ chunks[j] = Chunk(s, e[j - 1], e[j] - e[j - 1])
    BY CutType
  <2>. QED  BY <2>2, <2>3, <2>4, <2>5
<1>5. Cut(rest, s, f)
  BY <1>2, <1>3, <1>4 DEF Cut
<1>6. f[N - k] = e[N]
  BY <1>1, <1>3
<1>. QED  BY <1>2, <1>3, <1>5, <1>6 DEF rest

(* QRingBuffer::read, as the rest after one. *)
LEMMA RestIsPart ==
  ASSUME NEW chunks \in Seq(ByteStreams), chunks # <<>>
  PROVE  /\ Rest(chunks) = SubSeq(chunks, 2, Len(chunks)) /\ First(chunks) = chunks[1]
         /\ 1 \in 0..Len(chunks) /\ 1 \in 1..Len(chunks)
<1>1. Tail(chunks) = SubSeq(chunks, 2, Len(chunks))
  BY TailIsSubSeq
<1>2. Head(chunks) = chunks[1] /\ Len(chunks) \in Nat \ {0}
  BY HeadAndTail
<1>. QED  BY <1>1, <1>2 DEF Rest, First

(* Reading takes at most one chunk more than there are, *)
LEMMA ReadsType ==
  ASSUME NEW chunks \in Seq(ByteStreams), NEW n
  PROVE  Reads(chunks, n) \in 0..Len(chunks) + 1
<1>. DEFINE exact == {k \in 0..Len(chunks) : Len(Bytes(SubSeq(chunks, 1, k))) = n}
            least == CHOOSE k \in exact : \A j \in exact : k <= j
<1>1. Len(chunks) \in Nat
  BY LenProperties
<1>2. exact # {} => least \in exact
  <2>1. exact \in SUBSET Nat /\ (exact # {} => \E k \in exact : \A j \in exact : k <= j)
    <3>1. exact \in SUBSET Nat
      BY <1>1
    <3>. HIDE DEF exact
    <3>. QED  BY <3>1, Smallest
  <2>. HIDE DEF exact
  <2>. QED  BY <2>1
<1>3. Reads(chunks, n) = IF exact = {} THEN Len(chunks) + 1 ELSE least
  BY DEF Reads
<1>4. exact \subseteq 0..Len(chunks)
  OBVIOUS
<1>. HIDE DEF exact, least
<1>5. CASE exact = {}
  BY <1>1, <1>3, <1>5
<1>6. CASE exact # {}
  <2>1. Reads(chunks, n) = least /\ least \in 0..Len(chunks)
    BY <1>2, <1>3, <1>4, <1>6
  <2>. QED  BY <1>1, <2>1
<1>. QED  BY <1>5, <1>6

(* and as many as make up the bytes that are wanted, if some do. *)
LEMMA ReadsExactly ==
  ASSUME NEW s \in Sessions, NEW chunks \in Seq(ByteStreams), NEW e, Cut(chunks, s, e),
         NEW k \in 0..Len(chunks)
  PROVE  Reads(chunks, e[k] - e[0]) = k
<1>. DEFINE exact == {j \in 0..Len(chunks) :
                        Len(Bytes(SubSeq(chunks, 1, j))) = e[k] - e[0]}
<1>1. Len(chunks) \in Nat /\ \A i \in 0..Len(chunks) : e[i] \in Nat
  BY CutType
<1>2. ASSUME NEW j \in 0..Len(chunks)
      PROVE  Len(Bytes(SubSeq(chunks, 1, j))) = e[j] - e[0]
  <2>1. 0 < j => e[0] < e[j]
    BY <1>1, CutRises
  <2>2. e[j] - e[0] \in Nat /\ e[0] \in Nat
    <3>1. e[0] \in Nat /\ e[j] \in Nat
      BY <1>1
    <3>. QED  BY <1>1, <2>1, <3>1
  <2>3. PICK a \in Nat, m \in Nat : a = e[0] /\ m = e[j] - e[0]
    BY <2>2
  <2>4. Len(Chunk(s, a, m)) = m
    BY ChunkType
  <2>. QED  BY <2>3, <2>4, CutFirst
<1>3. ASSUME NEW j \in 0..Len(chunks), e[j] - e[0] = e[k] - e[0]  PROVE j = k
  <2>1. j < k => e[j] < e[k]
    BY CutRises
  <2>2. k < j => e[k] < e[j]
    BY CutRises
  <2>3. e[0] \in Nat /\ e[j] \in Nat /\ e[k] \in Nat /\ j \in Nat /\ k \in Nat
    BY <1>1
  <2>. QED  BY <1>3, <2>1, <2>2, <2>3
<1>4. exact = {k}
  BY <1>2, <1>3
<1>5. Reads(chunks, e[k] - e[0])
        = IF exact = {} THEN Len(chunks) + 1 ELSE CHOOSE i \in exact : \A j \in exact : i <= j
  BY DEF Reads
<1>. HIDE DEF exact
<1>6. (CHOOSE i \in {k} : \A j \in {k} : i <= j) = k
  <2>1. k <= k
    BY <1>1
  <2>. QED  BY <2>1
<1>. QED  BY <1>4, <1>5, <1>6

(* The smaller of two numbers *)
LEMMA MinOfTwo ==
  ASSUME NEW m \in Nat, NEW n \in Nat
  PROVE  Min({m, n}) = IF m <= n THEN m ELSE n
<1>. DEFINE S == {m, n}
<1>1. PICK k \in S : \A j \in S : k =< j
  <2>1. CASE m <= n
    BY <2>1
  <2>2. CASE ~(m <= n)
    BY <2>2
  <2>. QED  BY <2>1, <2>2
<1>2. Min(S) \in S /\ \A j \in S : Min(S) =< j
  <2>. HIDE DEF S
  <2>. QED  BY <1>1 DEF Min
<1>. QED  BY <1>2

-----------------------------------------------------------------------------
(* Pulses *)

(* An empty channel. *)
LEMMA LensNothing ==
  ASSUME NEW code  PROVE Lens(<<>>, code, <<>>)
<1>. DEFINE w == [i \in 1..0 |-> 1]
<1>1. Len(<<>>) = 0 /\ w \in [1..0 -> 1..0] /\ ~\E i \in 1..0 : TRUE
  OBVIOUS
<1>. HIDE DEF w
<1>2. Picks(<<>>, code, <<>>, w)
  BY <1>1 DEF Picks
<1>. QED  BY <1>2 DEF Lens

(* A pulse of another code is none, *)
LEMMA LensOther ==
  ASSUME NEW p \in Seq(Pulses), NEW code, NEW t \in Seq(Nat), Lens(p, code, t),
         NEW pulse \in Pulses, pulse.code # code
  PROVE  Lens(Append(p, pulse), code, t)
<1>. DEFINE q == Append(p, pulse)
<1>1. PICK w : Picks(p, code, t, w)
  BY DEF Lens
<1>2. /\ Len(p) \in Nat /\ Len(q) = Len(p) + 1 /\ q[Len(p) + 1] = pulse
      /\ \A i \in 1..Len(p) : q[i] = p[i]
  BY AppendProperties, LenProperties
<1>3. \A i \in 1..Len(t) : w[i] \in 1..Len(p)
  BY <1>1 DEF Picks
<1>. HIDE DEF q
<1>4. w \in [1..Len(t) -> 1..Len(q)]
  BY <1>1, <1>2 DEF Picks
<1>5. \A i \in 1..Len(t) : q[w[i]].code = code /\ q[w[i]].len = t[i]
  BY <1>1, <1>2, <1>3 DEF Picks
<1>6. ASSUME NEW k \in 1..Len(q), q[k].code = code  PROVE \E i \in 1..Len(t) : w[i] = k
  <2>1. k # Len(p) + 1
    BY <1>2, <1>6
  <2>2. k \in 1..Len(p)
    BY <1>2, <2>1
  <2>. QED  BY <1>1, <1>2, <1>6, <2>2 DEF Picks
<1>7. Picks(q, code, t, w)
  BY <1>1, <1>4, <1>5, <1>6 DEF Picks
<1>. QED  BY <1>7 DEF Lens, q

(* and one of this code is the last. *)
LEMMA LensMore ==
  ASSUME NEW p \in Seq(Pulses), NEW code, NEW t \in Seq(Nat), Lens(p, code, t),
         NEW pulse \in Pulses, pulse.code = code
  PROVE  Lens(Append(p, pulse), code, Append(t, pulse.len))
<1>. DEFINE q == Append(p, pulse)
            u == Append(t, pulse.len)
            P == Len(p)
            N == Len(t)
<1>1. PICK w : Picks(p, code, t, w)
  BY DEF Lens
<1>2. /\ P \in Nat /\ Len(q) = P + 1 /\ q[P + 1] = pulse /\ \A i \in 1..P : q[i] = p[i]
  BY AppendProperties, LenProperties
<1>3. /\ N \in Nat /\ Len(u) = N + 1 /\ u[N + 1] = pulse.len /\ \A i \in 1..N : u[i] = t[i]
  <2>1. pulse.len \in Nat
    BY DEF Pulses
  <2>. QED  BY <2>1, AppendProperties, LenProperties
<1>. DEFINE v == [i \in 1..N + 1 |-> IF i <= N THEN w[i] ELSE P + 1]
<1>4. \A i \in 1..N : w[i] \in 1..P
  BY <1>1 DEF Picks
<1>5. v \in [1..N + 1 -> 1..P + 1] /\ v[N + 1] = P + 1 /\ \A i \in 1..N : v[i] = w[i]
  BY <1>2, <1>3, <1>4
<1>. HIDE DEF q, u, v, P, N
<1>6. ASSUME NEW i \in 1..N + 1, NEW j \in 1..N + 1, i < j  PROVE v[i] < v[j]
  <2>1. i \in 1..N /\ v[i] = w[i] /\ w[i] \in 1..P
    BY <1>3, <1>4, <1>5, <1>6
  <2>2. CASE j = N + 1
    BY <1>2, <1>5, <2>1, <2>2
  <2>3. CASE j # N + 1
    <3>1. j \in 1..N /\ v[j] = w[j]
      BY <1>3, <1>5, <2>3
    <3>. QED  BY <1>1, <1>6, <2>1, <3>1 DEF Picks, N
  <2>. QED  BY <2>2, <2>3
<1>7. ASSUME NEW i \in 1..N + 1  PROVE q[v[i]].code = code /\ q[v[i]].len = u[i]
  <2>1. CASE i = N + 1
    BY <1>2, <1>3, <1>5, <2>1
  <2>2. CASE i # N + 1
    <3>1. i \in 1..N /\ v[i] = w[i] /\ u[i] = t[i] /\ w[i] \in 1..P /\ q[w[i]] = p[w[i]]
      BY <1>2, <1>3, <1>4, <1>5, <2>2
    <3>. QED  BY <1>1, <3>1 DEF Picks, N
  <2>. QED  BY <2>1, <2>2
<1>8. ASSUME NEW k \in 1..P + 1, q[k].code = code  PROVE \E i \in 1..N + 1 : v[i] = k
  <2>1. CASE k = P + 1
    BY <1>3, <1>5, <2>1
  <2>2. CASE k # P + 1
    <3>1. k \in 1..P /\ p[k].code = code
      BY <1>2, <1>8, <2>2
    <3>2. PICK i \in 1..N : w[i] = k
      BY <1>1, <3>1 DEF Picks, N, P
    <3>3. i \in 1..N + 1 /\ v[i] = k
      BY <1>3, <1>5, <3>2
    <3>. QED  BY <3>3
  <2>. QED  BY <2>1, <2>2
<1>9. Picks(q, code, u, v)
  BY <1>2, <1>3, <1>5, <1>6, <1>7, <1>8 DEF Picks
<1>. QED  BY <1>9 DEF Lens, q, u

(* When the first pulse is read, it was none of this code, *)
LEMMA LensPassed ==
  ASSUME NEW p \in Seq(Pulses), p # <<>>, NEW code, NEW t \in Seq(Nat),
         Lens(p, code, t), Head(p).code # code
  PROVE  Lens(Tail(p), code, t)
<1>. DEFINE q == Tail(p)
<1>1. PICK w : Picks(p, code, t, w)
  BY DEF Lens
<1>2. /\ Len(p) \in Nat \ {0} /\ Len(q) = Len(p) - 1 /\ p[1].code # code
      /\ \A i \in 1..Len(p) - 1 : q[i] = p[i + 1]
  BY HeadAndTail
<1>. DEFINE v == [i \in 1..Len(t) |-> w[i] - 1]
<1>. HIDE DEF q
<1>3. ASSUME NEW i \in 1..Len(t)  PROVE w[i] - 1 \in 1..Len(q) /\ q[w[i] - 1] = p[w[i]]
  <2>1. w[i] \in 1..Len(p) /\ w[i] # 1
    BY <1>1, <1>2 DEF Picks
  <2>2. w[i] - 1 \in 1..Len(p) - 1 /\ (w[i] - 1) + 1 = w[i]
    BY <1>2, <2>1
  <2>. QED  BY <1>2, <2>2
<1>4. v \in [1..Len(t) -> 1..Len(q)] /\ \A i \in 1..Len(t) : v[i] = w[i] - 1
  BY <1>3
<1>. HIDE DEF v
<1>5. ASSUME NEW i \in 1..Len(t), NEW j \in 1..Len(t), i < j  PROVE v[i] < v[j]
  <2>1. w[i] < w[j]
    BY <1>1, <1>5 DEF Picks
  <2>2. w[i] \in 1..Len(p) /\ w[j] \in 1..Len(p)
    BY <1>1 DEF Picks
  <2>. QED  BY <1>2, <1>4, <2>1, <2>2
<1>6. ASSUME NEW i \in 1..Len(t)  PROVE q[v[i]].code = code /\ q[v[i]].len = t[i]
  <2>1. q[v[i]] = p[w[i]]
    BY <1>3, <1>4
  <2>2. p[w[i]].code = code /\ p[w[i]].len = t[i]
    BY <1>1 DEF Picks
  <2>. QED  BY <2>1, <2>2
<1>7. ASSUME NEW k \in 1..Len(q), q[k].code = code  PROVE \E i \in 1..Len(t) : v[i] = k
  <2>1. k + 1 \in 1..Len(p) /\ p[k + 1].code = code
    BY <1>2, <1>7
  <2>2. PICK i \in 1..Len(t) : w[i] = k + 1
    BY <1>1, <2>1 DEF Picks
  <2>3. k \in Nat
    BY <1>2
  <2>4. v[i] = (k + 1) - 1
    BY <1>4, <2>2
  <2>. QED  BY <2>3, <2>4
<1>8. Picks(q, code, t, v)
  BY <1>4, <1>5, <1>6, <1>7 DEF Picks
<1>. QED  BY <1>8 DEF Lens, q

(* or the first of this code. *)
LEMMA LensFirst ==
  ASSUME NEW p \in Seq(Pulses), p # <<>>, NEW code, NEW t \in Seq(Nat),
         Lens(p, code, t), Head(p).code = code
  PROVE  t # <<>> /\ t[1] = Head(p).len /\ Lens(Tail(p), code, Tail(t))
<1>. DEFINE q == Tail(p)
            u == Tail(t)
            N == Len(t)
            P == Len(p)
<1>1. PICK w : Picks(p, code, t, w)
  BY DEF Lens
<1>2. /\ P \in Nat \ {0} /\ Len(q) = P - 1 /\ p[1].code = code /\ Head(p) = p[1]
      /\ \A i \in 1..P - 1 : q[i] = p[i + 1]
  BY HeadAndTail
<1>3. PICK j \in 1..N : w[j] = 1
  BY <1>1, <1>2 DEF Picks
<1>4. N \in Nat \ {0} /\ 1 \in 1..N /\ t # <<>>
  <2>1. N \in Nat
    BY LenProperties
  <2>2. N \in Nat \ {0} /\ 1 \in 1..N
    BY <1>3, <2>1
  <2>. QED  BY <2>2
<1>5. w[1] = 1
  <2>1. j = 1 \/ 1 < j
    BY <1>4
  <2>2. 1 < j => w[1] < w[j]
    BY <1>1, <1>4 DEF Picks
  <2>3. w[1] \in 1..P
    BY <1>1, <1>4 DEF Picks
  <2>. QED  BY <1>3, <2>1, <2>2, <2>3
<1>6. Len(u) = N - 1 /\ \A i \in 1..N - 1 : u[i] = t[i + 1]
  BY <1>4, HeadAndTail
<1>7. t[1] = p[1].len
  BY <1>1, <1>4, <1>5 DEF Picks
<1>. DEFINE v == [i \in 1..N - 1 |-> w[i + 1] - 1]
<1>. HIDE DEF q, u
<1>8. ASSUME NEW i \in 1..N - 1
      PROVE  /\ w[i + 1] - 1 \in 1..P - 1 /\ q[w[i + 1] - 1] = p[w[i + 1]]
             /\ i + 1 \in 1..N
  <2>1. i + 1 \in 1..N /\ 1 < i + 1
    BY <1>4
  <2>2. w[1] < w[i + 1] /\ w[i + 1] \in 1..P
    BY <1>1, <1>4, <2>1 DEF Picks
  <2>3. w[i + 1] - 1 \in 1..P - 1 /\ (w[i + 1] - 1) + 1 = w[i + 1]
    BY <1>2, <1>5, <2>2
  <2>. QED  BY <1>2, <2>1, <2>3
<1>9. v \in [1..N - 1 -> 1..P - 1] /\ \A i \in 1..N - 1 : v[i] = w[i + 1] - 1
  BY <1>8
<1>. HIDE DEF v, N, P
<1>10. ASSUME NEW i \in 1..N - 1, NEW k \in 1..N - 1, i < k  PROVE v[i] < v[k]
  <2>1. i + 1 \in 1..N /\ k + 1 \in 1..N /\ i + 1 < k + 1
    BY <1>8, <1>10
  <2>2. w[i + 1] < w[k + 1] /\ w[i + 1] \in 1..P /\ w[k + 1] \in 1..P
    BY <1>1, <2>1 DEF Picks, N, P
  <2>. QED  BY <1>2, <1>9, <2>2
<1>11. ASSUME NEW i \in 1..N - 1  PROVE q[v[i]].code = code /\ q[v[i]].len = u[i]
  <2>1. u[i] = t[i + 1] /\ q[v[i]] = p[w[i + 1]] /\ i + 1 \in 1..N
    BY <1>6, <1>8, <1>9
  <2>2. p[w[i + 1]].code = code /\ p[w[i + 1]].len = t[i + 1]
    BY <1>1, <2>1 DEF Picks, N
  <2>. QED  BY <2>1, <2>2
<1>12. ASSUME NEW k \in 1..P - 1, q[k].code = code  PROVE \E i \in 1..N - 1 : v[i] = k
  <2>1. k + 1 \in 1..P /\ p[k + 1].code = code /\ k + 1 # 1
    BY <1>2, <1>12
  <2>2. PICK m \in 1..N : w[m] = k + 1
    BY <1>1, <2>1 DEF Picks, N, P
  <2>3. m - 1 \in 1..N - 1 /\ (m - 1) + 1 = m
    BY <1>4, <1>5, <2>1, <2>2
  <2>4. PICK i \in 1..N - 1 : i + 1 = m
    BY <2>3
  <2>5. k \in Nat /\ w[m] - 1 = k
    BY <1>2, <2>2
  <2>6. v[i] = w[m] - 1
    BY <1>9, <2>4
  <2>. QED  BY <2>5, <2>6
<1>13. Picks(q, code, u, v)
  BY <1>2, <1>6, <1>9, <1>10, <1>11, <1>12 DEF Picks
<1>. QED  BY <1>2, <1>4, <1>7, <1>13 DEF Lens, q, u

(* The first of the pulses that are, and are still to be, sent *)
LEMMA TailThenMore ==
  ASSUME NEW t \in Seq(Nat), t # <<>>, NEW more \in Seq(Nat)
  PROVE  t \o more # <<>> /\ (t \o more)[1] = t[1] /\ Tail(t \o more) = Tail(t) \o more
<1>1. Len(t) \in Nat \ {0} /\ Len(more) \in Nat
  BY EmptySeq, LenProperties
<1>2. /\ t \o more \in Seq(Nat) /\ Len(t \o more) = Len(t) + Len(more)
      /\ \A i \in 1..Len(t) + Len(more) :
           (t \o more)[i] = IF i <= Len(t) THEN t[i] ELSE more[i - Len(t)]
  BY ConcatProperties
<1>3. t \o more # <<>> /\ (t \o more)[1] = t[1]
  BY <1>1, <1>2
<1>. DEFINE a == Tail(t \o more)
            b == Tail(t) \o more
<1>4. /\ a \in Seq(Nat) /\ Len(a) = Len(t) + Len(more) - 1
      /\ \A i \in 1..Len(t) + Len(more) - 1 : a[i] = (t \o more)[i + 1]
  BY <1>2, <1>3, HeadAndTail
<1>5. /\ Tail(t) \in Seq(Nat) /\ Len(Tail(t)) = Len(t) - 1
      /\ \A i \in 1..Len(t) - 1 : Tail(t)[i] = t[i + 1]
  BY HeadAndTail
<1>6. /\ b \in Seq(Nat) /\ Len(b) = Len(t) - 1 + Len(more)
      /\ \A i \in 1..Len(t) - 1 + Len(more) :
           b[i] = IF i <= Len(t) - 1 THEN Tail(t)[i] ELSE more[i - (Len(t) - 1)]
  BY <1>5, ConcatProperties
<1>. HIDE DEF a, b
<1>7. ASSUME NEW i \in 1..Len(t) + Len(more) - 1  PROVE a[i] = b[i]
  <2>1. i + 1 \in 1..Len(t) + Len(more) /\ i \in 1..Len(t) - 1 + Len(more)
    BY <1>1
  <2>2. a[i] = IF i + 1 <= Len(t) THEN t[i + 1] ELSE more[i + 1 - Len(t)]
    BY <1>2, <1>4, <2>1
  <2>3. CASE i + 1 <= Len(t)
    <3>1. i \in 1..Len(t) - 1 /\ i <= Len(t) - 1
      BY <1>1, <2>3
    <3>. QED  BY <1>5, <1>6, <2>1, <2>2, <2>3, <3>1
  <2>4. CASE ~(i + 1 <= Len(t))
    <3>1. ~(i <= Len(t) - 1) /\ i + 1 - Len(t) = i - (Len(t) - 1)
      BY <1>1, <2>4
    <3>. QED  BY <1>6, <2>1, <2>2, <2>4, <3>1
  <2>. QED  BY <2>3, <2>4
<1>8. Len(t) + Len(more) - 1 = Len(t) - 1 + Len(more)
  BY <1>1
<1>9. a = b
  BY <1>4, <1>6, <1>7, <1>8, SeqEqual
<1>. QED  BY <1>3, <1>9 DEF a, b

-----------------------------------------------------------------------------
(* What the pulses announce *)

(* A write adds a chunk and announces its length. *)
LEMMA OwesMore ==
  ASSUME NEW u \in Seq(Nat), NEW ignore \in Nat, NEW chunks \in Seq(ByteStreams),
         NEW asked \in {0, 1}, asked <= Len(chunks), Owes(u, ignore, chunks, asked),
         NEW chunk \in ByteStreams, NEW n \in Nat, Len(chunk) = n
  PROVE  Owes(Append(u, n), ignore, Append(chunks, chunk), asked)
<1>. DEFINE v == Append(u, n)
            more == Append(chunks, chunk)
            L == Len(chunks)
            M == Len(u)
<1>1. /\ M \in Nat /\ Len(v) = M + 1 /\ v[M + 1] = n /\ \A i \in 1..M : v[i] = u[i]
  BY AppendProperties, LenProperties
<1>2. /\ L \in Nat /\ Len(more) = L + 1 /\ more[L + 1] = chunk
      /\ \A i \in 1..L : more[i] = chunks[i]
  BY AppendProperties, LenProperties
<1>3. M + asked = ignore + L /\ \A i \in 1..L - asked : u[ignore + i] = Len(chunks[asked + i])
  BY DEF Owes
<1>4. asked <= L /\ asked \in Nat
  OBVIOUS
<1>. HIDE DEF v, more, L, M
<1>5. ASSUME NEW i \in 1..L + 1 - asked  PROVE v[ignore + i] = Len(more[asked + i])
  <2>1. CASE i = L + 1 - asked
    <3>1. ignore + i = M + 1 /\ asked + i = L + 1
      BY <1>1, <1>2, <1>3, <1>4, <2>1
    <3>. QED  BY <1>1, <1>2, <3>1
  <2>2. CASE i # L + 1 - asked
    <3>1. i \in 1..L - asked
      BY <1>2, <1>4, <2>2
    <3>2. ignore + i \in 1..M /\ asked + i \in 1..L
      BY <1>1, <1>2, <1>3, <1>4, <3>1
    <3>. QED  BY <1>1, <1>2, <1>3, <3>1, <3>2
  <2>. QED  BY <2>1, <2>2
<1>6. (M + 1) + asked = ignore + (L + 1)
  BY <1>1, <1>2, <1>3, <1>4
<1>7. Owes(v, ignore, more, asked)
  BY <1>1, <1>2, <1>5, <1>6 DEF Owes
<1>. QED  BY <1>7 DEF v, more

(* A pulse that is ignored was to be. *)
LEMMA OwesIgnored ==
  ASSUME NEW u \in Seq(Nat), u # <<>>, NEW ignore \in Nat \ {0},
         NEW chunks \in Seq(ByteStreams), Owes(u, ignore, chunks, 0)
  PROVE  Owes(Tail(u), ignore - 1, chunks, 0)
<1>. DEFINE v == Tail(u)
<1>1. /\ Len(u) \in Nat \ {0} /\ Len(v) = Len(u) - 1
      /\ \A i \in 1..Len(u) - 1 : v[i] = u[i + 1]
  BY HeadAndTail
<1>2. /\ Len(chunks) \in Nat /\ Len(u) = ignore + Len(chunks)
      /\ \A i \in 1..Len(chunks) : u[ignore + i] = Len(chunks[i])
  <2>1. Len(chunks) \in Nat /\ Len(u) + 0 = ignore + Len(chunks)
    BY LenProperties DEF Owes
  <2>2. \A i \in 1..Len(chunks) - 0 : u[ignore + i] = Len(chunks[0 + i])
    BY DEF Owes
  <2>3. ASSUME NEW i \in 1..Len(chunks)  PROVE u[ignore + i] = Len(chunks[i])
    <3>1. i \in 1..Len(chunks) - 0 /\ 0 + i = i
      BY <2>1
    <3>. QED  BY <2>2, <3>1
  <2>4. Len(u) = ignore + Len(chunks)
    <3>1. ignore \in Nat /\ Len(u) \in Nat
      BY <1>1
    <3>. QED  BY <2>1, <3>1
  <2>. QED  BY <2>1, <2>3, <2>4
<1>. HIDE DEF v
<1>3. ASSUME NEW i \in 1..Len(chunks)  PROVE v[ignore - 1 + i] = Len(chunks[i])
  <2>1. ignore - 1 + i \in 1..Len(u) - 1 /\ (ignore - 1 + i) + 1 = ignore + i
    BY <1>1, <1>2
  <2>. QED  BY <1>1, <1>2, <2>1
<1>4. Len(v) + 0 = ignore - 1 + Len(chunks) /\ Len(chunks) - 0 = Len(chunks)
  BY <1>1, <1>2
<1>5. \A i \in 1..Len(chunks) : 0 + i = i
  BY <1>2
<1>. QED  BY <1>3, <1>4, <1>5 DEF Owes, v

(* One that is not has the length of the first chunk, which is asked for. *)
LEMMA OwesAsked ==
  ASSUME NEW u \in Seq(Nat), u # <<>>, NEW chunks \in Seq(ByteStreams), Owes(u, 0, chunks, 0)
  PROVE  chunks # <<>> /\ u[1] = Len(chunks[1]) /\ Owes(Tail(u), 0, chunks, 1)
<1>. DEFINE v == Tail(u)
            L == Len(chunks)
<1>1. /\ Len(u) \in Nat \ {0} /\ Len(v) = Len(u) - 1
      /\ \A i \in 1..Len(u) - 1 : v[i] = u[i + 1]
  BY HeadAndTail
<1>2. L \in Nat /\ Len(u) = L /\ \A i \in 1..L : u[i] = Len(chunks[i])
  <2>1. L \in Nat /\ Len(u) + 0 = 0 + L
    BY LenProperties DEF Owes
  <2>2. \A i \in 1..L - 0 : u[0 + i] = Len(chunks[0 + i])
    BY DEF Owes
  <2>3. ASSUME NEW i \in 1..L  PROVE u[i] = Len(chunks[i])
    <3>1. i \in 1..L - 0 /\ 0 + i = i
      BY <2>1
    <3>. QED  BY <2>2, <3>1
  <2>. QED  BY <1>1, <2>1, <2>3
<1>3. chunks # <<>> /\ u[1] = Len(chunks[1])
  BY <1>1, <1>2
<1>. HIDE DEF v, L
<1>4. ASSUME NEW i \in 1..L - 1  PROVE v[0 + i] = Len(chunks[1 + i])
  <2>1. i + 1 \in 1..L /\ 1 + i = i + 1 /\ 0 + i = i
    BY <1>2
  <2>. QED  BY <1>1, <1>2, <2>1
<1>5. Len(v) + 1 = 0 + L
  BY <1>1, <1>2
<1>. QED  BY <1>3, <1>4, <1>5 DEF Owes, v, L

(* Then it is read, *)
LEMMA OwesRead ==
  ASSUME NEW u \in Seq(Nat), NEW chunks \in Seq(ByteStreams), chunks # <<>>,
         Owes(u, 0, chunks, 1), NEW rest, Len(rest) = Len(chunks) - 1,
         \A i \in 1..Len(chunks) - 1 : rest[i] = chunks[i + 1]
  PROVE  Owes(u, 0, rest, 0)
<1>1. Len(chunks) \in Nat \ {0} /\ Len(u) \in Nat
  BY EmptySeq, LenProperties
<1>2. Len(u) + 1 = 0 + Len(chunks)
      /\ \A i \in 1..Len(chunks) - 1 : u[0 + i] = Len(chunks[1 + i])
  BY DEF Owes
<1>3. ASSUME NEW i \in 1..Len(rest) - 0  PROVE u[0 + i] = Len(rest[0 + i])
  <2>1. i \in 1..Len(chunks) - 1 /\ 0 + i = i /\ 1 + i = i + 1
    BY <1>1
  <2>. QED  BY <1>2, <2>1
<1>4. Len(u) + 0 = 0 + Len(rest)
  BY <1>1, <1>2
<1>. QED  BY <1>3, <1>4 DEF Owes

(* or the first k chunks at once, whose pulses are then to be ignored. *)
LEMMA OwesTaken ==
  ASSUME NEW u \in Seq(Nat), NEW chunks \in Seq(ByteStreams), Owes(u, 0, chunks, 0),
         NEW k \in 0..Len(chunks), NEW rest, Len(rest) = Len(chunks) - k,
         \A i \in 1..Len(chunks) - k : rest[i] = chunks[i + k]
  PROVE  Owes(u, k, rest, 0)
<1>1. Len(chunks) \in Nat /\ Len(u) \in Nat /\ k \in Nat
  BY LenProperties
<1>2. Len(u) + 0 = 0 + Len(chunks)
      /\ \A i \in 1..Len(chunks) - 0 : u[0 + i] = Len(chunks[0 + i])
  BY DEF Owes
<1>3. ASSUME NEW i \in 1..Len(rest) - 0  PROVE u[k + i] = Len(rest[0 + i])
  <2>1. /\ i \in 1..Len(chunks) - k /\ 0 + i = i /\ k + i \in 1..Len(chunks) - 0
        /\ 0 + (k + i) = k + i /\ k + i = i + k
    BY <1>1
  <2>2. rest[i] = chunks[i + k]
    BY <2>1
  <2>. QED  BY <1>2, <2>1, <2>2
<1>4. Len(u) + 0 = k + Len(rest)
  BY <1>1, <1>2
<1>. QED  BY <1>3, <1>4 DEF Owes

-----------------------------------------------------------------------------
(* Types, step by step *)

Typed == TypeOK /\ StateOK

(* What each device's thread may count on. *)
LEMMA ThreadLives ==
  ASSUME ControlInv, thread.at # "none"
  PROVE  session \in Sessions /\ state # "Unconnected"
BY DEF ControlInv, ClientOK, TypeOK, NoThread

(* A message of the client *)
LEMMA MessageType ==
  ASSUME session \in Sessions, NEW type \in {"Respond", "Repeat", "Receive", "Disconnect"},
         NEW len \in Nat, NEW payload \in ByteStreams
  PROVE  /\ Message(type, len, payload) \in Messages
         /\ Message(type, len, payload).type = type
         /\ Message(type, len, payload).session = session
         /\ Message(type, len, payload).len = len
         /\ Message(type, len, payload).payload = payload
BY DEF Message, Messages

(* The client's main thread *)
LEMMA TypeClient ==
  ASSUME ControlInv, RegisterFails \/ ClientPulse \/ ClientRead \/ Joined \/ Close
  PROVE  Typed'
<1>. USE DEF clientVars, clientData, threadVars, serverVars, historyVars
<1>1. /\ TypeOK /\ StateOK /\ unpulsed \in Nat /\ Pulse("Terminate", 0) \in Pulses
      /\ unpulsed # 0 => Pulse("Write", unpulsed) \in Pulses
  BY LengthsArePositive DEF ControlInv, TypeOK, Pulse, Pulses
<1>2. CASE RegisterFails
  <2>1. state = "Connecting" /\ clientAt' = "joining" /\ pulses' \in Seq(Pulses)
    BY <1>1, <1>2, AppendProperties DEF RegisterFails, StopThread, StateOK, ControlInv, ClientOK
  <2>. QED  BY <1>1, <1>2, <2>1 DEF RegisterFails, Typed, TypeOK, StateOK
<1>3. CASE ClientPulse
  <2>1. state = "Connected" /\ session \in Sessions
    BY <1>3 DEF ClientPulse, ControlInv, ClientOK
  <2>2. /\ pulses' \in {pulses, Append(pulses, Pulse("Write", unpulsed))}
        /\ lost' \in {lost, lost \cup {<<"toServer", session>>}}
        /\ unpulsed' = 0
        /\ UNCHANGED <<session, state, clientAt, obuffer, buffer, got, sent, thread,
                       listening, linked, announces, inbox, sources, posted, writes>>
    BY <1>3 DEF ClientPulse
  <2>3. pulses' \in Seq(Pulses)
    <3>1. Pulse("Write", unpulsed) \in Pulses /\ pulses \in Seq(Pulses)
      BY <1>1, <1>3 DEF ClientPulse, StateOK
    <3>2. Append(pulses, Pulse("Write", unpulsed)) \in Seq(Pulses)
      BY <3>1, AppendProperties
    <3>. QED  BY <2>2, <3>1, <3>2
  <2>4. lost' \subseteq {"toClient", "toServer"} \X Sessions
    BY <1>1, <2>1, <2>2 DEF TypeOK
  <2>. QED  BY <1>1, <2>1, <2>2, <2>3, <2>4 DEF Typed, TypeOK, StateOK
<1>4. CASE ClientRead
  <2>1. got' \in ByteStreams /\ buffer' \in ByteStreams
    BY <1>1, <1>4, ConcatProperties DEF ClientRead, TypeOK, ByteStreams
  <2>. QED  BY <1>1, <1>4, <2>1 DEF ClientRead, Typed, TypeOK, StateOK
<1>5. CASE Joined
  <2>1. thread = NoThread /\ pulses = <<>>
    BY <1>5 DEF Joined, ControlInv, ClientOK
  <2>2. obuffer' = <<>> /\ buffer' = <<>> /\ <<>> \in ByteStreams /\ <<>> \in Seq(ByteStreams)
    BY <1>5 DEF Joined, ByteStreams
  <2>. QED  BY <1>1, <1>5, <2>1, <2>2 DEF Joined, Typed, TypeOK, StateOK
<1>6. CASE Close
  <2>1. state = "Connected" /\ clientAt' = "joining" /\ pulses' \in Seq(Pulses)
    BY <1>1, <1>6, AppendProperties DEF Close, StopThread, StateOK
  <2>. QED  BY <1>1, <1>6, <2>1 DEF Close, Typed, TypeOK, StateOK
<1>. QED  BY <1>2, <1>3, <1>4, <1>5, <1>6

LEMMA TypeConnect ==
  ASSUME ControlInv, ConnectToServer  PROVE Typed'
<1>. USE DEF historyVars
<1>1. TypeOK /\ StateOK /\ session' \in Sessions /\ session \in Nat
  BY BoundsAreNaturals
  DEF ConnectToServer, Connectable, ControlInv, TypeOK, Sessions
<1>2. thread' \in Threads
  <2>1. thread' = [at |-> "receiving", want |-> 0, ignore |-> 0, payload |-> <<>>]
    BY DEF ConnectToServer, NoThread
  <2>2. <<>> \in ByteStreams /\ 0 \in 0..(MaxWrites + 1)
    BY BoundsAreNaturals DEF ByteStreams
  <2>. QED  BY <2>1, <2>2 DEF Threads
<1>3. inbox' \in Seq(Messages)
  <2>. DEFINE m == [Message("Init", 0, <<>>) EXCEPT !.session = session + 1]
  <2>1. m \in Messages
    <3>1. m = [type |-> "Init", session |-> session', len |-> 0, payload |-> <<>>]
      BY DEF Message, ConnectToServer
    <3>2. <<>> \in ByteStreams
      BY DEF ByteStreams
    <3>. QED  BY <1>1, <3>1, <3>2 DEF Messages
  <2>. HIDE DEF m
  <2>2. inbox' = Append(inbox, m)
    BY DEF ConnectToServer, m
  <2>. QED  BY <1>1, <2>1, <2>2, AppendProperties DEF StateOK
<1>4. \A s \in Sessions : sources[s].attached => s <= session'
  BY <1>1 DEF ConnectToServer, TypeOK, Sessions
<1>5. /\ got' \in ByteStreams /\ sent' \in Nat /\ state' = "Connecting" /\ clientAt' = "registering"
      /\ linked' = TRUE
      /\ UNCHANGED <<unpulsed, obuffer, buffer, pulses, listening, announces, sources,
                     posted, lost, writes>>
  BY DEF ConnectToServer, ByteStreams
<1>6. TypeOK'
  <2>1. /\ session' \in 0..MaxSessions
        /\ thread'.at \in {"none", "receiving", "responding", "left", "repeating", "sending"}
        /\ thread'.ignore \in 0..(MaxWrites + 1)
    BY <1>1, <1>2, BoundsAreNaturals DEF Sessions, Threads
  <2>. QED  BY <1>1, <1>4, <1>5, <2>1 DEF TypeOK
<1>. QED  BY <1>1, <1>2, <1>3, <1>5, <1>6 DEF Typed, StateOK

LEMMA TypeWrite ==
  ASSUME ControlInv, NEW n \in Lengths, ClientWrite(n)  PROVE Typed'
<1>. USE DEF threadVars, serverVars
<1>1. TypeOK /\ StateOK /\ session \in Sessions /\ n \in Nat \ {0} /\ state = "Connected"
  BY LengthsArePositive DEF ClientWrite, ControlInv, ClientOK
<1>2. obuffer' \in Seq(ByteStreams)
  <2>1. Chunk(session, sent, n) \in ByteStreams
    BY <1>1, ChunkType DEF TypeOK
  <2>. QED  BY <1>1, <2>1, AppendProperties DEF ClientWrite, TypeOK
<1>3. /\ sent' \in Nat /\ unpulsed' \in Lengths /\ writes' \in 0..MaxWrites /\ writes' = writes + 1
      /\ UNCHANGED <<session, state, clientAt, buffer, got, thread, pulses, listening,
                     linked, announces, inbox, sources, posted, lost>>
  BY <1>1, BoundsAreNaturals DEF ClientWrite, TypeOK, StateOK
<1>4. \A s \in Sessions : Len(sources[s].obuffer) <= writes'
  <2>1. \A s \in Sessions : Len(sources[s].obuffer) \in Nat /\ Len(sources[s].obuffer) <= writes
    BY <1>1, LenProperties DEF StateOK, Sources
  <2>. QED  BY <1>1, <1>3, <2>1 DEF StateOK
<1>. QED  BY <1>1, <1>2, <1>3, <1>4 DEF Typed, TypeOK, StateOK

(* The client's thread *)

\* What the pulse that is read is, and what remains
LEMMA PulseRead ==
  ASSUME ControlInv, NEW code, Receives(code)
  PROVE  /\ TypeOK /\ StateOK /\ thread.at = "receiving" /\ session \in Sessions
         /\ state # "Unconnected" /\ clientAt # "registering" /\ pulses # <<>>
         /\ Head(pulses) \in Pulses /\ Head(pulses).len \in Nat /\ Tail(pulses) \in Seq(Pulses)
         /\ Head(pulses).code = code /\ Head(pulses) = pulses[1] /\ Len(pulses) \in Nat \ {0}
         /\ Len(Tail(pulses)) = Len(pulses) - 1
         /\ \A i \in 1..Len(pulses) - 1 : Tail(pulses)[i] = pulses[i + 1]
         /\ pulses' = IF code = "Terminate" THEN <<>> ELSE Tail(pulses)
         /\ UNCHANGED <<session, state, clientAt, unpulsed, buffer, got, sent, listening,
                        announces, sources, posted, lost, writes>>
<1>1. /\ TypeOK /\ StateOK /\ thread.at = "receiving" /\ pulses # <<>>
      /\ Head(pulses).code = code
      /\ UNCHANGED <<session, state, clientAt, unpulsed, buffer, got, sent, listening,
                     announces, sources, posted, lost, writes>>
      /\ pulses' = IF code = "Terminate" THEN <<>> ELSE Tail(pulses)
  BY DEF Receives, ControlInv, clientVars, historyVars
<1>2. session \in Sessions /\ state # "Unconnected"
  BY <1>1, ThreadLives
<1>3. clientAt # "registering"
  BY <1>1 DEF ControlInv, ClientOK
<1>4. /\ Head(pulses) \in Pulses /\ Tail(pulses) \in Seq(Pulses)
      /\ Head(pulses) = pulses[1] /\ Len(pulses) \in Nat \ {0}
      /\ Len(Tail(pulses)) = Len(pulses) - 1
      /\ \A i \in 1..Len(pulses) - 1 : Tail(pulses)[i] = pulses[i + 1]
  BY <1>1, HeadAndTail DEF StateOK
<1>5. Head(pulses).len \in Nat
  BY <1>4 DEF Pulses
<1>. QED  BY <1>1, <1>2, <1>3, <1>4, <1>5

\* What is sent keeps the type of the inbox.
LEMMA SentType ==
  ASSUME StateOK, session \in Sessions,
         NEW type \in {"Respond", "Repeat", "Receive", "Disconnect"},
         NEW len \in Nat, NEW payload \in ByteStreams
  PROVE  Sent(Message(type, len, payload)) \in Seq(Messages)
<1>. DEFINE m == Message(type, len, payload)
<1>1. m \in Messages
  BY MessageType
<1>. HIDE DEF m
<1>2. Append(inbox, m) \in Seq(Messages)
  BY <1>1, AppendProperties DEF StateOK
<1>. QED  BY <1>2 DEF Sent, m, StateOK

LEMMA TypeThread ==
  ASSUME ControlInv, ThreadStep  PROVE Typed'
<1>. USE DEF clientVars, clientData, serverVars, historyVars
<1>0. TypeOK /\ StateOK /\ <<>> \in ByteStreams
  BY DEF ControlInv, ByteStreams
<1>1. CASE ReceiveTxRequest
  <2>. DEFINE len == Head(pulses).len
  <2>1. Receives("TxRequest")
    BY <1>1 DEF ReceiveTxRequest
  <2>2. len \in Nat /\ session \in Sessions /\ state # "Unconnected" /\ Tail(pulses) \in Seq(Pulses)
    BY <2>1, PulseRead
  <2>3. /\ pulses' = Tail(pulses) /\ obuffer' = obuffer /\ linked' = linked
        /\ UNCHANGED <<session, state, clientAt, unpulsed, buffer, got, sent, listening,
                       announces, sources, posted, lost, writes>>
    BY <1>1, <2>1, PulseRead DEF ReceiveTxRequest
  <2>4. thread' \in Threads
    <3>1. CASE thread.ignore > 0
      <4>1. thread' = [thread EXCEPT !.ignore = thread.ignore - 1]
        BY <1>1, <3>1 DEF ReceiveTxRequest
      <4>2. thread.ignore - 1 \in 0..(MaxWrites + 1)
        BY <1>0, <3>1, BoundsAreNaturals DEF StateOK, Threads
      <4>. QED  BY <1>0, <4>1, <4>2 DEF StateOK, Threads
    <3>2. CASE ~(thread.ignore > 0)
      BY <1>0, <1>1, <2>2, <3>2 DEF ReceiveTxRequest, StateOK, Threads
    <3>. QED  BY <3>1, <3>2
  <2>5. inbox' \in Seq(Messages)
    <3>1. Sent(Message("Respond", len, <<>>)) \in Seq(Messages)
      BY <1>0, <2>2, SentType
    <3>2. inbox' \in {inbox, Sent(Message("Respond", len, <<>>))}
      BY <1>1 DEF ReceiveTxRequest
    <3>. QED  BY <1>0, <3>1, <3>2 DEF StateOK
  <2>. QED  BY <1>0, <2>2, <2>3, <2>4, <2>5 DEF Typed, TypeOK, StateOK, Threads
<1>2. CASE AskForRest
  <2>1. session \in Sessions /\ state # "Unconnected" /\ thread.want \in Nat
    BY <1>0, <1>2, ThreadLives DEF AskForRest, StateOK, Threads
  <2>2. thread' \in Threads
    BY <1>0, <1>2 DEF AskForRest, StateOK, Threads
  <2>3. inbox' \in Seq(Messages)
    BY <1>0, <1>2, <2>1, SentType DEF AskForRest
  <2>. QED  BY <1>0, <1>2, <2>1, <2>2, <2>3 DEF AskForRest, Typed, TypeOK, StateOK, Threads
<1>3. CASE ReceiveWrite
  <2>. DEFINE len == Head(pulses).len
  <2>1. Receives("Write")
    BY <1>3 DEF ReceiveWrite
  <2>2. len \in Nat /\ session \in Sessions /\ state # "Unconnected" /\ Tail(pulses) \in Seq(Pulses)
    BY <2>1, PulseRead
  <2>3. /\ pulses' = Tail(pulses) /\ linked' = linked
        /\ UNCHANGED <<session, state, clientAt, unpulsed, buffer, got, sent, listening,
                       announces, sources, posted, lost, writes>>
    BY <1>3, <2>1, PulseRead DEF ReceiveWrite
  <2>4. First(obuffer) \in ByteStreams /\ Rest(obuffer) \in Seq(ByteStreams)
    BY <1>0, HeadAndTail DEF First, Rest, TypeOK
  <2>5. thread' \in Threads
    BY <1>0, <1>3, <2>4 DEF ReceiveWrite, StateOK, Threads
  <2>6. inbox' \in Seq(Messages)
    <3>1. Fit(First(obuffer), len) \in ByteStreams
      BY <2>2, <2>4, FitType
    <3>. QED  BY <1>0, <1>3, <2>2, <3>1, SentType DEF ReceiveWrite
  <2>7. obuffer' \in Seq(ByteStreams)
    BY <1>3, <2>4 DEF ReceiveWrite
  <2>. QED  BY <1>0, <2>2, <2>3, <2>5, <2>6, <2>7 DEF Typed, TypeOK, StateOK, Threads
<1>4. CASE ReceiveTerminate
  <2>1. Receives("Terminate")
    BY <1>4 DEF ReceiveTerminate
  <2>2. session \in Sessions /\ state # "Unconnected"
    BY <2>1, PulseRead
  <2>3. /\ pulses' = <<>> /\ obuffer' = obuffer /\ linked' = FALSE
        /\ UNCHANGED <<session, state, clientAt, unpulsed, buffer, got, sent, listening,
                       announces, sources, posted, lost, writes>>
    BY <1>4, <2>1, PulseRead DEF ReceiveTerminate
  <2>4. thread' \in Threads
    <3>1. thread' = [at |-> "none", want |-> 0, ignore |-> 0, payload |-> <<>>]
      BY <1>4 DEF ReceiveTerminate, NoThread
    <3>. QED  BY <1>0, <3>1, BoundsAreNaturals DEF Threads
  <2>5. inbox' \in Seq(Messages)
    BY <1>0, <1>4, <2>2, SentType DEF ReceiveTerminate
  <2>6. <<>> \in Seq(Pulses)
    OBVIOUS
  <2>. QED  BY <1>0, <2>2, <2>3, <2>4, <2>5, <2>6 DEF Typed, TypeOK, StateOK, Threads
<1>5. CASE SendFails
  <2>1. session \in Sessions /\ state # "Unconnected"
    BY <1>5, ThreadLives DEF SendFails
  <2>2. thread' \in Threads
    BY <1>0, <1>5 DEF SendFails, StateOK, Threads
  <2>3. obuffer' \in Seq(ByteStreams)
    <3>1. <<thread.payload>> \in Seq(ByteStreams)
      BY <1>0 DEF StateOK, Threads
    <3>2. <<thread.payload>> \o obuffer \in Seq(ByteStreams)
      BY <1>0, <3>1, ConcatProperties DEF TypeOK
    <3>. QED  BY <1>0, <1>5, <3>2 DEF SendFails, TypeOK
  <2>. QED  BY <1>0, <1>5, <2>1, <2>2, <2>3 DEF SendFails, Typed, TypeOK, StateOK, Threads
<1>. QED  BY <1>1, <1>2, <1>3, <1>4, <1>5 DEF ThreadStep

(* The server's thread *)

\* What the message is that is served, and what remains
LEMMA MessageServed ==
  ASSUME ControlInv, NEW type, Serves(type)
  PROVE  /\ TypeOK /\ StateOK /\ inbox # <<>> /\ listening
         /\ Head(inbox) \in Messages /\ Head(inbox).type = type
         /\ Head(inbox).session \in Sessions /\ Head(inbox).len \in Nat
         /\ Head(inbox).payload \in ByteStreams
         /\ Head(inbox) = inbox[1] /\ Len(inbox) \in Nat \ {0} /\ 1 \in 1..Len(inbox)
         /\ inbox' = Tail(inbox) /\ inbox' \in Seq(Messages) /\ Len(inbox') = Len(inbox) - 1
         /\ \A i \in 1..Len(inbox) - 1 : inbox'[i] = inbox[i + 1]
         /\ type = "Disconnect" => Ended(Head(inbox))
         /\ type # "Disconnect" =>
              /\ Awaited(Head(inbox)) /\ linked /\ Head(inbox).session = session
              /\ session \in Sessions /\ state # "Unconnected"
         /\ UNCHANGED <<session, unpulsed, closing, obuffer, got, sent, pulses, listening,
                        linked, announces, lost, writes>>
<1>1. /\ TypeOK /\ StateOK /\ inbox # <<>> /\ listening /\ Head(inbox).type = type
      /\ inbox' = Tail(inbox)
      /\ UNCHANGED <<session, unpulsed, closing, obuffer, got, sent, pulses, listening,
                     linked, announces, lost, writes>>
  BY DEF Serves, ControlInv, serverVars, historyVars
<1>2. /\ Head(inbox) \in Messages /\ inbox' \in Seq(Messages)
      /\ Head(inbox) = inbox[1] /\ Len(inbox) \in Nat \ {0}
      /\ Len(inbox') = Len(inbox) - 1
      /\ \A i \in 1..Len(inbox) - 1 : inbox'[i] = inbox[i + 1]
  BY <1>1, HeadAndTail DEF StateOK
<1>3. /\ Head(inbox).session \in Sessions /\ Head(inbox).len \in Nat
      /\ Head(inbox).payload \in ByteStreams
  BY <1>2 DEF Messages
<1>4. 1 \in 1..Len(inbox)
  BY <1>2
<1>5. Awaited(Head(inbox)) \/ Ended(Head(inbox))
  BY <1>2, <1>4 DEF ControlInv, InboxOK
<1>6. type = "Disconnect" => Ended(Head(inbox))
  BY <1>1, <1>5 DEF Awaited
<1>7. type # "Disconnect" =>
        /\ Awaited(Head(inbox)) /\ linked /\ Head(inbox).session = session
        /\ session \in Sessions /\ state # "Unconnected"
  <2>1. type # "Disconnect" => Awaited(Head(inbox))
    BY <1>1, <1>5 DEF Ended
  <2>2. Awaited(Head(inbox)) => /\ linked /\ Head(inbox).session = session
                                /\ state # "Unconnected" /\ session \in Sessions
    BY DEF Awaited, ControlInv, ClientOK
  <2>. QED  BY <2>1, <2>2
<1>. QED  BY <1>1, <1>2, <1>3, <1>4, <1>6, <1>7

\* The server hears of a session.
LEMMA InitServed ==
  ASSUME ControlInv, ServeInit
  PROVE  /\ session \in Sessions /\ clientAt = "registering" /\ sources[session] = NoSource
         /\ sources' = [sources EXCEPT ![session] = [NoSource EXCEPT !.known = TRUE]]
<1>1. Serves("Init")
  BY DEF ServeInit
<1>2. /\ Awaited(Head(inbox)) /\ Head(inbox).type = "Init"
      /\ Head(inbox).session = session /\ session \in Sessions
  BY <1>1, MessageServed
<1>3. clientAt = "registering"
  BY <1>2 DEF Awaited
<1>4. sources[session] = NoSource
  BY <1>2, <1>3 DEF ControlInv, SourcesOK, Unborn
<1>. QED  BY <1>2, <1>3, <1>4 DEF ServeInit, CreateSource

\* What is read of a source's chunks is bytes.
LEMMA PartsType ==
  ASSUME ControlInv, ToClientOK, NEW s \in Sessions
  PROVE  LET chunks == sources[s].obuffer
         IN  /\ chunks \in Seq(ByteStreams) /\ Len(chunks) \in Nat /\ Len(chunks) <= writes
             /\ First(chunks) \in ByteStreams /\ Rest(chunks) \in Seq(ByteStreams)
             /\ Len(Rest(chunks)) \in Nat /\ Len(Rest(chunks)) <= Len(chunks)
             /\ Len(Bytes(Rest(chunks))) \in Nat
             /\ \A k \in 0..Len(chunks) :
                  /\ Bytes(SubSeq(chunks, 1, k)) \in ByteStreams
                  /\ Len(SubSeq(chunks, 1, k)) = k
                  /\ SubSeq(chunks, k + 1, Len(chunks)) \in Seq(ByteStreams)
                  /\ Len(SubSeq(chunks, k + 1, Len(chunks))) = Len(chunks) - k
<1>. DEFINE chunks == sources[s].obuffer
<1>1. chunks \in Seq(ByteStreams) /\ Len(chunks) \in Nat /\ Len(chunks) <= writes
  <2>1. chunks \in Seq(ByteStreams) /\ Len(chunks) <= writes
    BY DEF ControlInv, StateOK, Sources
  <2>. QED  BY <2>1, LenProperties
<1>2. PICK e : Cut(chunks, s, e)
  BY DEF ToClientOK, ToClient
<1>. HIDE DEF chunks
<1>3. \A i \in 0..Len(chunks) : e[i] \in Nat
  BY <1>1, <1>2, CutType
<1>4. ASSUME NEW i \in 0..Len(chunks), NEW j \in 0..Len(chunks), i <= j
      PROVE  Chunk(s, e[i], e[j] - e[i]) \in ByteStreams
             /\ Len(Chunk(s, e[i], e[j] - e[i])) \in Nat
  <2>1. e[i] <= e[j]
    <3>1. i < j => e[i] < e[j]
      BY <1>1, <1>2, CutRises
    <3>2. e[i] \in Nat /\ e[j] \in Nat /\ i \in Nat /\ j \in Nat
      BY <1>1, <1>3
    <3>. QED  BY <1>4, <3>1, <3>2
  <2>2. PICK a \in Nat, m \in Nat : a = e[i] /\ m = e[j] - e[i]
    <3>1. e[i] \in Nat /\ e[j] \in Nat
      BY <1>3
    <3>. QED  BY <2>1, <3>1
  <2>3. Chunk(s, a, m) \in ByteStreams /\ Len(Chunk(s, a, m)) = m
    BY ChunkType
  <2>. QED  BY <2>2, <2>3
<1>5. ASSUME NEW k \in 0..Len(chunks)
      PROVE  /\ Bytes(SubSeq(chunks, 1, k)) \in ByteStreams
             /\ Len(SubSeq(chunks, 1, k)) = k
             /\ SubSeq(chunks, k + 1, Len(chunks)) \in Seq(ByteStreams)
             /\ Len(SubSeq(chunks, k + 1, Len(chunks))) = Len(chunks) - k
             /\ Len(Bytes(SubSeq(chunks, k + 1, Len(chunks)))) \in Nat
  <2>1. Bytes(SubSeq(chunks, 1, k)) = Chunk(s, e[0], e[k] - e[0])
    BY <1>1, <1>2, CutFirst
  <2>2. Bytes(SubSeq(chunks, 1, k)) \in ByteStreams
    BY <1>1, <1>4, <2>1
  <2>3. Len(SubSeq(chunks, 1, k)) = k
    <3>1. \A i \in 1..k : chunks[i] \in ByteStreams
      BY <1>1, ElementOfSeq
    <3>2. Len(SubSeq(chunks, 1, k)) = IF 1 <= k THEN k - 1 + 1 ELSE 0
      BY <1>1, <3>1, SubSeqProperties
    <3>. QED  BY <1>1, <3>2
  <2>. DEFINE rest == SubSeq(chunks, k + 1, Len(chunks))
  <2>4. /\ rest \in Seq(ByteStreams) /\ Len(rest) = Len(chunks) - k
        /\ \E f : /\ Cut(rest, s, f) /\ f[Len(rest)] = e[Len(chunks)]
                  /\ \A i \in 0..Len(rest) : f[i] = e[i + k]
    BY <1>1, <1>2, CutRest
  <2>. HIDE DEF rest
  <2>5. PICK f : /\ Cut(rest, s, f) /\ f[Len(rest)] = e[Len(chunks)]
                 /\ \A i \in 0..Len(rest) : f[i] = e[i + k]
    BY <2>4
  <2>6. f[0] = e[k] /\ Bytes(rest) = Chunk(s, f[0], f[Len(rest)] - f[0])
    <3>1. 0 \in 0..Len(rest) /\ 0 + k = k
      BY <1>1, <2>4
    <3>2. f[0] = e[k]
      BY <2>5, <3>1
    <3>. QED  BY <2>4, <2>5, <3>2, CutBytes
  <2>7. Len(Bytes(rest)) \in Nat
    BY <1>1, <1>4, <2>5, <2>6
  <2>. QED  BY <2>2, <2>3, <2>4, <2>7 DEF rest
<1>6. CASE chunks = <<>>
  <2>1. /\ First(chunks) = <<>> /\ Rest(chunks) = <<>> /\ <<>> \in ByteStreams
        /\ <<>> \in Seq(ByteStreams)
    BY <1>6 DEF First, Rest, ByteStreams
  <2>2. Bytes(<<>>) = <<>> /\ Len(<<>>) = 0
    BY DEF Bytes, FlattenSeq
  <2>3. /\ First(chunks) \in ByteStreams /\ Rest(chunks) \in Seq(ByteStreams)
        /\ Len(Rest(chunks)) \in Nat /\ Len(Rest(chunks)) <= Len(chunks)
        /\ Len(Bytes(Rest(chunks))) \in Nat
    <3>1. First(chunks) \in ByteStreams /\ Rest(chunks) \in Seq(ByteStreams)
      BY <1>6, <2>1
    <3>2. Len(Rest(chunks)) = 0 /\ Len(chunks) = 0 /\ Len(Bytes(Rest(chunks))) = 0
      BY <1>6, <2>1, <2>2
    <3>. QED  BY <3>1, <3>2
  <2>. QED  BY <1>1, <1>5, <2>3 DEF chunks
<1>7. CASE chunks # <<>>
  <2>1. /\ Rest(chunks) = SubSeq(chunks, 2, Len(chunks)) /\ First(chunks) = chunks[1]
        /\ 1 \in 0..Len(chunks) /\ 1 \in 1..Len(chunks) /\ 1 + 1 = 2
    BY <1>1, <1>7, RestIsPart
  <2>2. First(chunks) \in ByteStreams
    BY <1>1, <2>1, ElementOfSeq
  <2>3. /\ Rest(chunks) \in Seq(ByteStreams) /\ Len(Rest(chunks)) = Len(chunks) - 1
        /\ Len(Bytes(Rest(chunks))) \in Nat
    BY <1>5, <2>1
  <2>. QED  BY <1>1, <1>5, <2>1, <2>2, <2>3 DEF chunks
<1>. QED  BY <1>6, <1>7

\* A source is replaced by another.
LEMMA SourceChanged ==
  ASSUME TypeOK, StateOK, NEW s \in Sessions, NEW new \in Sources,
         sources' = [sources EXCEPT ![s] = new], writes' \in 0..MaxWrites, writes <= writes',
         Len(new.obuffer) <= writes', new.attached => s <= session, session' = session
  PROVE  /\ sources' \in [Sessions -> Sources] /\ sources'[s] = new
         /\ \A t \in Sessions : t # s => sources'[t] = sources[t]
         /\ \A t \in Sessions : sources'[t].attached => t <= session'
         /\ \A t \in Sessions : Len(sources'[t].obuffer) <= writes'
<1>1. sources \in [Sessions -> Sources]
  BY DEF StateOK
<1>2. /\ sources' \in [Sessions -> Sources] /\ sources'[s] = new
      /\ \A t \in Sessions : t # s => sources'[t] = sources[t]
  BY <1>1
<1>3. ASSUME NEW t \in Sessions, t # s
      PROVE  (sources'[t].attached => t <= session') /\ Len(sources'[t].obuffer) <= writes'
  <2>1. sources[t].attached => t <= session
    BY DEF TypeOK
  <2>2. Len(sources[t].obuffer) <= writes /\ Len(sources[t].obuffer) \in Nat
    BY <1>1, LenProperties DEF StateOK, Sources
  <2>3. writes \in Nat /\ writes' \in Nat
    BY BoundsAreNaturals DEF StateOK
  <2>. QED  BY <1>2, <1>3, <2>1, <2>2, <2>3
<1>. QED  BY <1>2, <1>3

LEMMA TypeServe ==
  ASSUME ControlInv, ToClientOK, ServeStep  PROVE Typed'
<1>1. CASE ServeInit
  <2>1. Serves("Init") /\ CreateSource(session)
    BY <1>1, MessageServed DEF ServeInit
  <2>2. /\ TypeOK /\ StateOK /\ session \in Sessions /\ inbox' \in Seq(Messages)
        /\ UNCHANGED <<session, unpulsed, obuffer, got, sent, pulses, listening,
                       linked, announces, lost, writes>>
    BY <2>1, MessageServed
  <2>3. /\ clientAt' = "free" /\ state' = "Connected"
        /\ UNCHANGED <<buffer, thread>>
    BY <1>1 DEF ServeInit
  <2>4. posted' \in Seq(Events)
    <3>1. <<"newConnection", session>> \in Events
      BY <2>2 DEF Events
    <3>. QED  BY <2>1, <2>2, <3>1, AppendProperties DEF CreateSource, StateOK
  <2>. DEFINE new == [NoSource EXCEPT !.known = TRUE]
  <2>5. new \in Sources /\ new.attached = FALSE /\ new.obuffer = <<>>
    <3>1. <<>> \in ByteStreams /\ <<>> \in Seq(ByteStreams) /\ 0 \in Nat
      BY DEF ByteStreams
    <3>2. NoSource \in Sources
      BY <3>1 DEF NoSource, Sources
    <3>3. new \in Sources /\ new.attached = NoSource.attached /\ new.obuffer = NoSource.obuffer
      BY <3>2 DEF Sources
    <3>. QED  BY <3>3 DEF NoSource
  <2>6. sources' = [sources EXCEPT ![session] = new]
    BY <2>1 DEF CreateSource
  <2>. HIDE DEF new
  <2>7. /\ sources' \in [Sessions -> Sources]
        /\ \A s \in Sessions : sources'[s].attached => s <= session
        /\ \A s \in Sessions : Len(sources'[s].obuffer) <= writes
    <3>1. writes \in 0..MaxWrites /\ writes <= writes /\ Len(new.obuffer) <= writes
      BY <2>2, <2>5, BoundsAreNaturals DEF StateOK
    <3>. QED  BY <2>2, <2>5, <2>6, <3>1, SourceChanged
  <2>. QED  BY <2>2, <2>3, <2>4, <2>7 DEF Typed, TypeOK, StateOK
<1>2. CASE ServeRespond
  <2>. DEFINE chunks == sources[session].obuffer
              rest == Rest(chunks)
              left == Len(Bytes(rest))
  <2>1. Serves("Respond")
    BY <1>2 DEF ServeRespond
  <2>2. /\ TypeOK /\ StateOK /\ session \in Sessions /\ inbox' \in Seq(Messages)
        /\ state # "Unconnected" /\ Head(inbox).session = session /\ Head(inbox).len \in Nat
        /\ UNCHANGED <<session, unpulsed, obuffer, got, sent, pulses, listening,
                       linked, announces, lost, writes>>
    BY <2>1, MessageServed
  <2>3. /\ sources' = [sources EXCEPT ![session].obuffer = rest]
        /\ buffer' = buffer \o Fit(First(chunks), Head(inbox).len)
        /\ thread' = [thread EXCEPT !.at = IF left = 0 THEN "receiving" ELSE "left",
                                    !.want = left]
        /\ UNCHANGED <<clientAt, state, posted>>
    BY <1>2, <2>2 DEF ServeRespond
  <2>4. /\ left \in Nat /\ First(chunks) \in ByteStreams /\ rest \in Seq(ByteStreams)
        /\ Len(rest) <= writes
    <3>1. /\ left \in Nat /\ First(chunks) \in ByteStreams /\ rest \in Seq(ByteStreams)
          /\ Len(rest) \in Nat /\ Len(chunks) \in Nat
          /\ Len(rest) <= Len(chunks) /\ Len(chunks) <= writes
      BY <2>2, PartsType
    <3>2. writes \in Nat
      BY <2>2, BoundsAreNaturals DEF StateOK
    <3>. QED  BY <3>1, <3>2
  <2>5. Fit(First(chunks), Head(inbox).len) \in ByteStreams
    BY <2>2, <2>4, FitType
  <2>6. buffer' \in ByteStreams
    BY <2>2, <2>3, <2>5, ConcatProperties DEF TypeOK, ByteStreams
  <2>. HIDE DEF left, rest, chunks
  <2>7. thread' \in Threads
    BY <2>2, <2>3, <2>4 DEF StateOK, Threads
  <2>8. /\ sources' \in [Sessions -> Sources]
        /\ \A s \in Sessions : sources'[s].attached => s <= session
        /\ \A s \in Sessions : Len(sources'[s].obuffer) <= writes
    <3>. DEFINE new == [sources[session] EXCEPT !.obuffer = rest]
    <3>1. sources' = [sources EXCEPT ![session] = new]
      BY <2>3
    <3>2. new \in Sources /\ new.attached = sources[session].attached /\ new.obuffer = rest
      BY <2>2, <2>4 DEF StateOK, Sources
    <3>3. writes \in 0..MaxWrites /\ writes <= writes
      BY <2>2, BoundsAreNaturals DEF StateOK
    <3>4. new.attached => session <= session
      BY <2>2, <3>2 DEF TypeOK
    <3>. HIDE DEF new
    <3>. QED  BY <2>2, <2>4, <3>1, <3>2, <3>3, <3>4, SourceChanged
  <2>. QED  BY <2>2, <2>3, <2>6, <2>7, <2>8 DEF Typed, TypeOK, StateOK, Threads
<1>3. CASE ServeRepeat
  <2>. DEFINE chunks == sources[session].obuffer
              n == Reads(chunks, Head(inbox).len)
              taken == SubSeq(chunks, 1, Min({n, Len(chunks)}))
              rest == SubSeq(chunks, Len(taken) + 1, Len(chunks))
  <2>1. Serves("Repeat")
    BY <1>3 DEF ServeRepeat
  <2>2. /\ TypeOK /\ StateOK /\ session \in Sessions /\ inbox' \in Seq(Messages)
        /\ state # "Unconnected" /\ Head(inbox).session = session /\ Head(inbox).len \in Nat
        /\ UNCHANGED <<session, unpulsed, obuffer, got, sent, pulses, listening,
                       linked, announces, lost, writes>>
    BY <2>1, MessageServed
  <2>3. /\ sources' = [sources EXCEPT ![session].obuffer = rest]
        /\ buffer' = buffer \o Fit(Bytes(taken), Head(inbox).len)
        /\ thread' = [thread EXCEPT !.at = "receiving", !.want = 0, !.ignore = n]
        /\ UNCHANGED <<clientAt, state, posted>>
    BY <1>3, <2>2 DEF ServeRepeat
  <2>4. /\ Len(chunks) \in Nat /\ chunks \in Seq(ByteStreams) /\ Len(chunks) <= writes
        /\ writes \in 0..MaxWrites
    BY <2>2, PartsType DEF StateOK
  <2>5. n \in 0..Len(chunks) + 1 /\ n \in 0..(MaxWrites + 1)
    <3>1. n \in 0..Len(chunks) + 1
      BY <2>4, ReadsType
    <3>. HIDE DEF n, chunks
    <3>. QED  BY <2>4, <3>1, BoundsAreNaturals
  <2>6. PICK k \in 0..Len(chunks) : k = Min({n, Len(chunks)})
    <3>. HIDE DEF n, chunks
    <3>1. n \in Nat
      BY <2>4, <2>5
    <3>2. Min({n, Len(chunks)}) = IF n <= Len(chunks) THEN n ELSE Len(chunks)
      BY <2>4, <3>1, MinOfTwo
    <3>. QED  BY <2>4, <3>1, <3>2
  <2>7. /\ Bytes(taken) \in ByteStreams /\ rest \in Seq(ByteStreams) /\ Len(rest) <= writes
    <3>1. taken = SubSeq(chunks, 1, k) /\ Len(taken) = k /\ Bytes(taken) \in ByteStreams
      BY <2>2, <2>6, PartsType
    <3>2. rest \in Seq(ByteStreams) /\ Len(rest) = Len(chunks) - k
      BY <2>2, <3>1, PartsType
    <3>3. Len(chunks) - k <= writes
      BY <2>4, BoundsAreNaturals
    <3>. QED  BY <3>1, <3>2, <3>3
  <2>8. buffer' \in ByteStreams
    <3>1. Fit(Bytes(taken), Head(inbox).len) \in ByteStreams
      BY <2>2, <2>7, FitType
    <3>. QED  BY <2>2, <2>3, <3>1, ConcatProperties DEF TypeOK, ByteStreams
  <2>. HIDE DEF n, rest, chunks
  <2>9. thread' \in Threads
    BY <2>2, <2>3, <2>5 DEF StateOK, Threads
  <2>10. /\ sources' \in [Sessions -> Sources]
         /\ \A s \in Sessions : sources'[s].attached => s <= session
         /\ \A s \in Sessions : Len(sources'[s].obuffer) <= writes
    <3>. DEFINE new == [sources[session] EXCEPT !.obuffer = rest]
    <3>1. sources' = [sources EXCEPT ![session] = new]
      BY <2>3
    <3>2. new \in Sources /\ new.attached = sources[session].attached /\ new.obuffer = rest
      BY <2>2, <2>7 DEF StateOK, Sources
    <3>3. writes \in 0..MaxWrites /\ writes <= writes
      BY <2>2, BoundsAreNaturals DEF StateOK
    <3>4. new.attached => session <= session
      BY <2>2, <3>2 DEF TypeOK
    <3>. HIDE DEF new
    <3>. QED  BY <2>2, <2>7, <3>1, <3>2, <3>3, <3>4, SourceChanged
  <2>. QED  BY <2>2, <2>3, <2>8, <2>9, <2>10 DEF Typed, TypeOK, StateOK, Threads
<1>4. CASE ServeReceive
  <2>1. Serves("Receive")
    BY <1>4 DEF ServeReceive
  <2>2. /\ TypeOK /\ StateOK /\ session \in Sessions /\ inbox' \in Seq(Messages)
        /\ state # "Unconnected" /\ Head(inbox).session = session
        /\ Head(inbox).payload \in ByteStreams
        /\ UNCHANGED <<session, unpulsed, obuffer, got, sent, pulses, listening,
                       linked, announces, lost, writes>>
    BY <2>1, MessageServed
  <2>. DEFINE all == sources[session].buffer \o Head(inbox).payload
              untold == ~sources[session].attached
  <2>3. /\ sources' = [sources EXCEPT ![session].buffer = all, ![session].early = untold]
        /\ posted' \in {posted, Append(posted, <<"readyRead", session>>)}
        /\ thread' = [thread EXCEPT !.at = "receiving", !.payload = <<>>]
        /\ UNCHANGED <<buffer, clientAt, state>>
    BY <1>4, <2>2 DEF ServeReceive
  <2>4. all \in ByteStreams /\ untold \in BOOLEAN
    BY <2>2, ConcatProperties DEF StateOK, Sources, ByteStreams
  <2>. HIDE DEF all, untold
  <2>5. posted' \in Seq(Events)
    <3>1. <<"readyRead", session>> \in Events
      BY <2>2 DEF Events
    <3>2. Append(posted, <<"readyRead", session>>) \in Seq(Events)
      BY <2>2, <3>1, AppendProperties DEF StateOK
    <3>. QED  BY <2>2, <2>3, <3>2 DEF StateOK
  <2>6. thread' \in Threads
    <3>1. <<>> \in ByteStreams
      BY DEF ByteStreams
    <3>. QED  BY <2>2, <2>3, <3>1 DEF StateOK, Threads
  <2>7. /\ sources' \in [Sessions -> Sources]
        /\ \A s \in Sessions : sources'[s].attached => s <= session
        /\ \A s \in Sessions : Len(sources'[s].obuffer) <= writes
    <3>. DEFINE new == [sources[session] EXCEPT !.buffer = all, !.early = untold]
    <3>1. sources' = [sources EXCEPT ![session] = new]
      BY <2>3
    <3>2. /\ new \in Sources /\ new.attached = sources[session].attached
          /\ new.obuffer = sources[session].obuffer
      <4>1. sources[session] \in Sources
        BY <2>2 DEF StateOK
      <4>2. ASSUME NEW old \in Sources, NEW a \in ByteStreams, NEW b \in BOOLEAN
            PROVE  /\ [old EXCEPT !.buffer = a, !.early = b] \in Sources
                   /\ [old EXCEPT !.buffer = a, !.early = b].attached = old.attached
                   /\ [old EXCEPT !.buffer = a, !.early = b].obuffer = old.obuffer
        BY DEF Sources
      <4>. QED  BY <2>4, <4>1, <4>2
    <3>3. /\ writes \in 0..MaxWrites /\ writes <= writes
          /\ Len(sources[session].obuffer) <= writes
      BY <2>2, BoundsAreNaturals DEF StateOK
    <3>4. new.attached => session <= session
      BY <2>2, <3>2 DEF TypeOK
    <3>. HIDE DEF new
    <3>. QED  BY <2>2, <3>1, <3>2, <3>3, <3>4, SourceChanged
  <2>. QED  BY <2>2, <2>3, <2>5, <2>6, <2>7 DEF Typed, TypeOK, StateOK, Threads
<1>5. CASE ServeDisconnect
  <2>1. Serves("Disconnect")
    BY <1>5 DEF ServeDisconnect
  <2>. DEFINE s == Head(inbox).session
  <2>2. /\ TypeOK /\ StateOK /\ s \in Sessions /\ inbox' \in Seq(Messages)
        /\ UNCHANGED <<session, unpulsed, obuffer, got, sent, pulses, listening,
                       linked, announces, lost, writes>>
    BY <2>1, MessageServed
  <2>3. /\ sources' = [sources EXCEPT ![s].known = FALSE, ![s].serverClosing = TRUE]
        /\ posted' \in {posted, Append(posted, <<"onDisconnected", s>>)}
        /\ UNCHANGED <<buffer, thread, clientAt, state>>
    BY <1>5 DEF ServeDisconnect
  <2>. HIDE DEF s
  <2>4. posted' \in Seq(Events)
    <3>1. <<"onDisconnected", s>> \in Events
      BY <2>2 DEF Events
    <3>2. Append(posted, <<"onDisconnected", s>>) \in Seq(Events)
      BY <2>2, <3>1, AppendProperties DEF StateOK
    <3>. QED  BY <2>2, <2>3, <3>2 DEF StateOK
  <2>5. /\ sources' \in [Sessions -> Sources]
        /\ \A t \in Sessions : sources'[t].attached => t <= session
        /\ \A t \in Sessions : Len(sources'[t].obuffer) <= writes
    <3>. DEFINE new == [sources[s] EXCEPT !.known = FALSE, !.serverClosing = TRUE]
    <3>1. sources' = [sources EXCEPT ![s] = new]
      BY <2>2, <2>3 DEF StateOK
    <3>2. /\ new \in Sources /\ new.attached = sources[s].attached
          /\ new.obuffer = sources[s].obuffer
      BY <2>2 DEF StateOK, Sources
    <3>3. /\ writes \in 0..MaxWrites /\ writes <= writes
          /\ Len(sources[s].obuffer) <= writes
      BY <2>2, BoundsAreNaturals DEF StateOK
    <3>4. new.attached => s <= session
      BY <2>2, <3>2 DEF TypeOK
    <3>. HIDE DEF new
    <3>. QED  BY <2>2, <3>1, <3>2, <3>3, <3>4, SourceChanged
  <2>. QED  BY <2>2, <2>3, <2>4, <2>5 DEF Typed, TypeOK, StateOK
<1>. QED  BY <1>1, <1>2, <1>3, <1>4, <1>5 DEF ServeStep

(* The server's main thread *)

\* What the event is that is handled, and what remains
LEMMA EventHandled ==
  ASSUME ControlInv, NEW event, Handles(event)
  PROVE  /\ TypeOK /\ StateOK /\ announces = <<0, 0>> /\ posted # <<>>
         /\ Head(posted)[1] = event /\ Head(posted)[2] \in Sessions
         /\ ~Unborn(Head(posted)[2]) /\ Head(posted)[2] <= session
         /\ event = "onDisconnected" /\ linked => Head(posted)[2] # session
         /\ posted' \in Seq(Events) /\ Len(posted) \in Nat \ {0}
         /\ Len(posted') = Len(posted) - 1
         /\ \A i \in 1..Len(posted) - 1 : posted'[i] = posted[i + 1]
         /\ UNCHANGED <<session, state, clientAt, unpulsed, obuffer, buffer, got, sent,
                        thread, pulses, listening, linked, announces, inbox, lost, writes>>
<1>1. /\ TypeOK /\ StateOK /\ SourcesOK /\ announces = <<0, 0>> /\ posted # <<>>
      /\ Head(posted)[1] = event /\ posted' = Tail(posted)
      /\ UNCHANGED <<session, state, clientAt, unpulsed, obuffer, buffer, got, sent,
                     thread, pulses, listening, linked, announces, inbox, lost, writes>>
  BY DEF Handles, NotAnnouncing, ControlInv, clientVars, clientData, threadVars, serverVars,
         historyVars
<1>2. /\ Head(posted) \in Events /\ Head(posted) = posted[1] /\ Len(posted) \in Nat \ {0}
      /\ posted' \in Seq(Events) /\ Len(posted') = Len(posted) - 1
      /\ \A i \in 1..Len(posted) - 1 : posted'[i] = posted[i + 1]
  BY <1>1, HeadAndTail DEF StateOK
<1>3. Head(posted)[2] \in Sessions /\ Head(posted) = <<event, Head(posted)[2]>>
      /\ 1 \in 1..Len(posted)
  BY <1>1, <1>2 DEF Events
<1>4. ~Unborn(Head(posted)[2])
  BY <1>1, <1>2, <1>3 DEF SourcesOK
<1>5. Head(posted)[2] <= session
  <2>1. ~(Head(posted)[2] > session) /\ session \in Nat /\ Head(posted)[2] \in Nat
    BY <1>1, <1>3, <1>4 DEF Unborn, TypeOK, Sessions
  <2>. QED  BY <2>1
<1>6. event = "onDisconnected" /\ linked => Head(posted)[2] # session
  BY <1>1, <1>2, <1>3 DEF SourcesOK
<1>. QED  BY <1>1, <1>2, <1>3, <1>4, <1>5, <1>6

LEMMA NoSourceType == NoSource \in Sources
<1>1. <<>> \in ByteStreams /\ <<>> \in Seq(ByteStreams)
  BY DEF ByteStreams
<1>. QED  BY <1>1 DEF NoSource, Sources

LEMMA TypeServer ==
  ASSUME ControlInv, NewConnection \/ OnDisconnected \/ ServerRead  PROVE Typed'
<1>. DEFINE s == Head(posted)[2]
<1>1. PICK event : Handles(event)
  BY DEF NewConnection, OnDisconnected, ServerRead
<1>2. /\ TypeOK /\ StateOK /\ s \in Sessions /\ s <= session /\ posted' \in Seq(Events)
      /\ UNCHANGED <<session, state, clientAt, unpulsed, obuffer, buffer, got, sent,
                     thread, pulses, listening, linked, announces, inbox, lost, writes>>
  BY <1>1, EventHandled
<1>3. \E new \in Sources : /\ sources' = [sources EXCEPT ![s] = new]
                           /\ Len(new.obuffer) <= writes
  <2>1. CASE NewConnection
    <3>. DEFINE new == [sources[s] EXCEPT !.attached = TRUE]
    <3>1. sources' = [sources EXCEPT ![s] = new]
      BY <2>1 DEF NewConnection
    <3>2. new \in Sources /\ new.obuffer = sources[s].obuffer
      BY <1>2 DEF StateOK, Sources
    <3>3. Len(sources[s].obuffer) <= writes
      BY <1>2 DEF StateOK
    <3>. HIDE DEF new
    <3>. QED  BY <3>1, <3>2, <3>3
  <2>2. CASE OnDisconnected
    <3>1. sources' = [sources EXCEPT ![s] = NoSource]
      BY <2>2 DEF OnDisconnected
    <3>2. Len(NoSource.obuffer) <= writes
      BY <1>2, BoundsAreNaturals DEF NoSource, StateOK
    <3>. QED  BY <3>1, <3>2, NoSourceType
  <2>3. CASE ServerRead
    <3>. DEFINE all == sources[s].got \o sources[s].buffer
                new == [sources[s] EXCEPT !.got = all, !.buffer = <<>>]
    <3>1. sources' = [sources EXCEPT ![s] = new]
      BY <1>2, <2>3 DEF ServerRead, StateOK
    <3>2. all \in ByteStreams /\ <<>> \in ByteStreams
      BY <1>2, ConcatProperties DEF StateOK, Sources, ByteStreams
    <3>3. new \in Sources /\ new.obuffer = sources[s].obuffer
      <4>. HIDE DEF all
      <4>. QED  BY <1>2, <3>2 DEF StateOK, Sources
    <3>4. Len(sources[s].obuffer) <= writes
      BY <1>2 DEF StateOK
    <3>. HIDE DEF new
    <3>. QED  BY <3>1, <3>3, <3>4
  <2>. QED  BY <2>1, <2>2, <2>3
<1>4. /\ sources' \in [Sessions -> Sources]
      /\ \A t \in Sessions : sources'[t].attached => t <= session'
      /\ \A t \in Sessions : Len(sources'[t].obuffer) <= writes'
  <2>1. PICK new \in Sources : /\ sources' = [sources EXCEPT ![s] = new]
                               /\ Len(new.obuffer) <= writes
    BY <1>3
  <2>2. writes' \in 0..MaxWrites /\ writes <= writes'
    BY <1>2, BoundsAreNaturals DEF StateOK
  <2>. HIDE DEF s
  <2>. QED  BY <1>2, <2>1, <2>2, SourceChanged
<1>. QED  BY <1>2, <1>4 DEF Typed, TypeOK, StateOK

LEMMA TypeServerPulse ==
  ASSUME ControlInv, ServerPulse  PROVE Typed'
<1>. USE DEF clientVars, clientData
<1>. DEFINE s == announces[1]
            pulse == Pulse("TxRequest", announces[2])
<1>1. /\ TypeOK /\ StateOK /\ announces \in Sessions \X Lengths
      /\ s \in Sessions /\ announces[2] \in Nat
  BY LengthsArePositive DEF ControlInv, ServerPulse, NotAnnouncing, StateOK
<1>2. /\ announces' = <<0, 0>>
      /\ UNCHANGED <<session, state, clientAt, unpulsed, obuffer, buffer, got, sent,
                     thread, listening, linked, inbox, sources, posted, writes>>
      /\ \/ pulses' = pulses /\ lost' \in {lost, lost \cup {<<"toClient", s>>}}
         \/ Reachable(s) /\ pulses' = Append(pulses, pulse) /\ lost' = lost
  BY DEF ServerPulse
<1>3. Append(pulses, pulse) \in Seq(Pulses)
  <2>1. pulse \in Pulses
    BY <1>1 DEF Pulse, Pulses
  <2>. HIDE DEF pulse
  <2>. QED  BY <1>1, <2>1, AppendProperties DEF StateOK
<1>4. Reachable(s) => state # "Unconnected"
  BY <1>1 DEF Reachable, TypeOK, NoThread
<1>. HIDE DEF s, pulse
<1>5. pulses' \in Seq(Pulses) /\ (state = "Unconnected" => pulses' = pulses)
  BY <1>1, <1>2, <1>3, <1>4 DEF StateOK
<1>6. lost' \subseteq {"toClient", "toServer"} \X Sessions
  BY <1>1, <1>2 DEF TypeOK
<1>. QED  BY <1>1, <1>2, <1>5, <1>6 DEF Typed, TypeOK, StateOK

LEMMA TypeServerWrite ==
  ASSUME ControlInv, NEW s \in Sessions, NEW n \in Lengths, ServerWrite(s, n)  PROVE Typed'
<1>. DEFINE chunks == Append(sources[s].obuffer, Chunk(s, sources[s].sent, n))
            total == sources[s].sent + n
            new == [sources[s] EXCEPT !.obuffer = chunks, !.sent = total]
<1>1. /\ TypeOK /\ StateOK /\ n \in Nat \ {0} /\ writes' = writes + 1
      /\ writes' \in 0..MaxWrites /\ writes <= writes' /\ s <= session
      /\ announces' \in Sessions \X Lengths
      /\ UNCHANGED <<session, state, clientAt, unpulsed, obuffer, buffer, got, sent,
                     thread, pulses, listening, linked, inbox, posted, lost>>
  <2>1. TypeOK /\ StateOK /\ n \in Nat \ {0} /\ writes \in 0..MaxWrites
    BY LengthsArePositive DEF ControlInv, StateOK
  <2>2. writes < MaxWrites /\ writes' = writes + 1 /\ sources[s].attached
        /\ announces' = <<s, n>>
    BY DEF ServerWrite
  <2>3. writes' \in 0..MaxWrites /\ writes <= writes'
    BY <2>1, <2>2, BoundsAreNaturals
  <2>4. s <= session /\ announces' \in Sessions \X Lengths
    BY <2>1, <2>2 DEF TypeOK
  <2>5. UNCHANGED <<session, state, clientAt, unpulsed, obuffer, buffer, got, sent,
                    thread, pulses, listening, linked, inbox, posted, lost>>
    BY DEF ServerWrite, clientVars, clientData, threadVars
  <2>. QED  BY <2>1, <2>2, <2>3, <2>4, <2>5
<1>2. sources[s] \in Sources /\ Len(sources[s].obuffer) <= writes
  BY <1>1 DEF StateOK
<1>3. chunks \in Seq(ByteStreams) /\ Len(chunks) = Len(sources[s].obuffer) + 1
  <2>1. sources[s].obuffer \in Seq(ByteStreams) /\ sources[s].sent \in Nat
    BY <1>2 DEF Sources
  <2>2. Chunk(s, sources[s].sent, n) \in ByteStreams
    BY <1>1, <2>1, ChunkType
  <2>. QED  BY <2>1, <2>2, AppendProperties
<1>4. sources' = [sources EXCEPT ![s] = new]
  BY <1>1 DEF ServerWrite, StateOK
<1>5. new \in Sources /\ new.attached = sources[s].attached /\ new.obuffer = chunks
  <2>1. total \in Nat
    BY <1>1, <1>2 DEF Sources
  <2>. HIDE DEF chunks, total
  <2>. QED  BY <1>1, <1>2, <1>3, <2>1 DEF Sources
<1>6. Len(new.obuffer) <= writes'
  <2>1. Len(sources[s].obuffer) \in Nat /\ writes \in Nat
    BY <1>1, <1>2, LenProperties, BoundsAreNaturals DEF Sources, StateOK
  <2>. QED  BY <1>1, <1>2, <1>3, <1>5, <2>1
<1>. HIDE DEF new, chunks
<1>7. /\ sources' \in [Sessions -> Sources]
      /\ \A t \in Sessions : sources'[t].attached => t <= session'
      /\ \A t \in Sessions : Len(sources'[t].obuffer) <= writes'
  BY <1>1, <1>4, <1>5, <1>6, SourceChanged
<1>. QED  BY <1>1, <1>7 DEF Typed, TypeOK, StateOK

LEMMA TypeListen ==
  ASSUME ControlInv, ServerCloses \/ ServerListens  PROVE Typed'
<1>. USE DEF clientVars, clientData, threadVars, historyVars
<1>1. TypeOK /\ StateOK
  BY DEF ControlInv
<1>2. CASE ServerCloses
  <2>1. /\ inbox' = <<>> /\ posted' = <<>> /\ linked' = FALSE /\ listening' = FALSE
        /\ sources' = [s \in Sessions |-> NoSource]
        /\ UNCHANGED <<session, state, clientAt, unpulsed, obuffer, buffer, got, sent,
                       thread, pulses, announces, lost, writes>>
    BY <1>2 DEF ServerCloses
  <2>2. /\ <<>> \in Seq(Messages) /\ <<>> \in Seq(Events)
        /\ NoSource.attached = FALSE /\ Len(NoSource.obuffer) = 0 /\ 0 <= writes
    BY <1>1, BoundsAreNaturals DEF NoSource, StateOK
  <2>3. /\ sources' \in [Sessions -> Sources]
        /\ \A s \in Sessions : sources'[s].attached = FALSE
        /\ \A s \in Sessions : Len(sources'[s].obuffer) <= writes'
    BY <2>1, <2>2, NoSourceType
  <2>. QED  BY <1>1, <2>1, <2>2, <2>3 DEF Typed, TypeOK, StateOK
<1>3. CASE ServerListens
  BY <1>1, <1>3 DEF ServerListens, Typed, TypeOK, StateOK
<1>. QED  BY <1>2, <1>3

(* Every step keeps the types: what the server reads of its chunks is bytes *)
(* because they are consecutive.                                            *)
LEMMA TypeStep ==
  ASSUME ControlInv, ToClientOK, [Next]_vars  PROVE Typed'
<1>1. CASE ThreadStep
  BY <1>1, TypeThread
<1>2. CASE ServeStep
  BY <1>2, TypeServe
<1>3. CASE ClientStep \/ Close
  BY <1>3, TypeClient DEF ClientStep
<1>4. CASE ServerStep
  BY <1>4, TypeServer, TypeServerPulse DEF ServerStep
<1>5. CASE ConnectToServer
  BY <1>5, TypeConnect
<1>6. CASE ServerCloses \/ ServerListens
  BY <1>6, TypeListen
<1>7. CASE \E n \in Lengths : ClientWrite(n)
  BY <1>7, TypeWrite
<1>8. CASE \E s \in Sessions, n \in Lengths : ServerWrite(s, n)
  BY <1>8, TypeServerWrite
<1>9. CASE UNCHANGED vars
  BY <1>9 DEF vars, clientVars, clientData, threadVars, serverVars, historyVars, ControlInv,
              Typed, TypeOK, StateOK
<1>. QED  BY <1>1, <1>2, <1>3, <1>4, <1>5, <1>6, <1>7, <1>8, <1>9 DEF Next

-----------------------------------------------------------------------------
(* Where the threads are, and the messages between them *)

Control == ClientOK /\ InboxOK /\ SourcesOK

\* When the thread waits for no reply, what is in the server's channel tells of the
\* ends of sessions.
LEMMA Quiet ==
  ASSUME ControlInv, thread.at \in {"none", "receiving", "left"}, clientAt # "registering"
  PROVE  \A i \in 1..Len(inbox) : Ended(inbox[i])
BY DEF ControlInv, InboxOK, Awaited

\* The messages stay, and what is waited for.
LEMMA InboxKept ==
  ASSUME StateOK, InboxOK, inbox' = inbox,
         \A m \in Messages : (Awaited(m)' <=> Awaited(m)) /\ (Ended(m) => Ended(m)')
  PROVE  InboxOK'
<1>1. \A i \in 1..Len(inbox) : inbox[i] \in Messages
  BY ElementOfSeq DEF StateOK
<1>2. ASSUME NEW i \in 1..Len(inbox')  PROVE (Awaited(inbox[i]) \/ Ended(inbox[i]))'
  <2>1. PICK m \in Messages : m = inbox[i]
    BY <1>1
  <2>2. Awaited(m) \/ Ended(m)
    BY <2>1 DEF InboxOK
  <2>3. Awaited(m)' \/ Ended(m)'
    BY <2>2
  <2>. QED  BY <2>1, <2>3
<1>. QED  BY <1>1, <1>2 DEF InboxOK

\* A message is sent when the others tell of the ends of sessions.
LEMMA InboxAdded ==
  ASSUME StateOK, \A i \in 1..Len(inbox) : Ended(inbox[i]), NEW msg \in Messages,
         inbox' = inbox \/ (inbox' = Append(inbox, msg) /\ (Awaited(msg)' \/ Ended(msg)')),
         \A m \in Messages : Ended(m) => Ended(m)'
  PROVE  InboxOK'
<1>1. inbox \in Seq(Messages) /\ Len(inbox) \in Nat /\ \A i \in 1..Len(inbox) : inbox[i] \in Messages
  BY ElementOfSeq, LenProperties DEF StateOK
<1>2. \A i \in 1..Len(inbox) : inbox'[i] = inbox[i]
  BY <1>1, AppendProperties
<1>3. ASSUME NEW i \in 1..Len(inbox)  PROVE Ended(inbox[i])' /\ ~(Awaited(inbox[i])')
  <2>1. PICK m \in Messages : m = inbox[i]
    BY <1>1
  <2>2. Ended(m)' /\ m = inbox'[i]
    BY <1>2, <2>1
  <2>3. ~(Awaited(m)')
    BY <2>2 DEF Awaited, Ended
  <2>. QED  BY <2>2, <2>3
<1>4. CASE inbox' = inbox
  BY <1>3, <1>4 DEF InboxOK
<1>5. CASE inbox' = Append(inbox, msg) /\ (Awaited(msg)' \/ Ended(msg)')
  <2>1. Len(inbox') = Len(inbox) + 1 /\ inbox'[Len(inbox) + 1] = msg
    BY <1>1, <1>5, AppendProperties
  <2>2. \A i \in 1..Len(inbox') : i \in 1..Len(inbox) \/ i = Len(inbox) + 1
    BY <1>1, <2>1
  <2>3. \A i \in 1..Len(inbox') : Awaited(inbox[i])' \/ Ended(inbox[i])'
    <3>1. \A i : i = Len(inbox) + 1 => Awaited(inbox[i])' \/ Ended(inbox[i])'
      BY <1>5, <2>1
    <3>. QED  BY <1>3, <2>2, <3>1
  <2>4. \A i, j \in 1..Len(inbox') : Awaited(inbox[i])' /\ Awaited(inbox[j])' => i = j
    BY <1>3, <2>2
  <2>. QED  BY <2>3, <2>4 DEF InboxOK
<1>. QED  BY <1>4, <1>5

\* The message that the client waits for is served.
LEMMA InboxServed ==
  ASSUME StateOK, InboxOK, inbox # <<>>, inbox' = Tail(inbox), Awaited(Head(inbox)),
         \A m \in Messages : Ended(m) => Ended(m)'
  PROVE  InboxOK'
<1>1. /\ Head(inbox) = inbox[1] /\ Len(inbox) \in Nat \ {0} /\ 1 \in 1..Len(inbox)
      /\ Len(inbox') = Len(inbox) - 1 /\ \A i \in 1..Len(inbox) : inbox[i] \in Messages
      /\ \A i \in 1..Len(inbox) - 1 : inbox'[i] = inbox[i + 1]
  <2>1. inbox \in Seq(Messages)
    BY DEF StateOK
  <2>. QED  BY <2>1, HeadAndTail, ElementOfSeq
<1>2. ASSUME NEW i \in 1..Len(inbox')  PROVE Ended(inbox[i])' /\ ~(Awaited(inbox[i])')
  <2>1. i + 1 \in 1..Len(inbox) /\ i + 1 # 1 /\ inbox'[i] = inbox[i + 1]
    BY <1>1
  <2>2. PICK m \in Messages : m = inbox[i + 1]
    BY <1>1, <2>1
  <2>3. ~Awaited(m) /\ (Awaited(m) \/ Ended(m))
    BY <1>1, <2>1, <2>2 DEF InboxOK
  <2>4. Ended(m)' /\ m = inbox'[i]
    BY <2>1, <2>2, <2>3
  <2>5. ~(Awaited(m)')
    BY <2>4 DEF Awaited, Ended
  <2>. QED  BY <2>4, <2>5
<1>. QED  BY <1>2 DEF InboxOK

\* The message that a session has ended is served.
LEMMA InboxTold ==
  ASSUME StateOK, InboxOK, inbox # <<>>, inbox' = Tail(inbox),
         \A m \in Messages : (Awaited(m)' <=> Awaited(m)) /\ (Ended(m) => Ended(m)')
  PROVE  InboxOK'
<1>1. /\ Len(inbox) \in Nat \ {0} /\ Len(inbox') = Len(inbox) - 1
      /\ \A i \in 1..Len(inbox) : inbox[i] \in Messages
      /\ \A i \in 1..Len(inbox) - 1 : inbox'[i] = inbox[i + 1]
  <2>1. inbox \in Seq(Messages)
    BY DEF StateOK
  <2>. QED  BY <2>1, HeadAndTail, ElementOfSeq
<1>2. ASSUME NEW i \in 1..Len(inbox')
      PROVE  /\ (Awaited(inbox[i]) \/ Ended(inbox[i]))' /\ i + 1 \in 1..Len(inbox)
             /\ Awaited(inbox[i])' => Awaited(inbox[i + 1])
  <2>1. i + 1 \in 1..Len(inbox) /\ inbox'[i] = inbox[i + 1]
    BY <1>1
  <2>2. PICK m \in Messages : m = inbox[i + 1]
    BY <1>1, <2>1
  <2>3. (Awaited(m) \/ Ended(m)) /\ m = inbox'[i]
    BY <2>1, <2>2 DEF InboxOK
  <2>4. (Awaited(m)' \/ Ended(m)') /\ (Awaited(m)' => Awaited(m))
    BY <2>3
  <2>. QED  BY <2>1, <2>2, <2>3, <2>4
<1>3. ASSUME NEW i \in 1..Len(inbox'), NEW j \in 1..Len(inbox'),
             Awaited(inbox[i])', Awaited(inbox[j])'
      PROVE  i = j
  <2>1. Awaited(inbox[i + 1]) /\ Awaited(inbox[j + 1]) /\ i + 1 \in 1..Len(inbox) /\ j + 1 \in 1..Len(inbox)
    BY <1>2, <1>3
  <2>2. i + 1 = j + 1
    BY <2>1 DEF InboxOK
  <2>. QED  BY <1>1, <2>2
<1>. QED  BY <1>2, <1>3 DEF InboxOK

LEMMA ControlClient ==
  ASSUME ControlInv, RegisterFails \/ ClientPulse \/ ClientRead \/ Joined \/ Close
  PROVE  Control'
<1>. USE DEF clientVars, clientData, threadVars, serverVars, historyVars
<1>1. /\ TypeOK /\ StateOK /\ ClientOK /\ InboxOK /\ SourcesOK
      /\ UNCHANGED <<session, thread, linked, listening, announces, inbox, sources, posted>>
  BY DEF ControlInv, RegisterFails, ClientPulse, ClientRead, Joined, Close
<1>2. \/ UNCHANGED pulses
      \/ pulses' = Append(pulses, Pulse("Terminate", 0)) /\ clientAt' = "joining"
      \/ pulses' = Append(pulses, Pulse("Write", unpulsed)) /\ clientAt = "free" /\ unpulsed # 0
  BY DEF RegisterFails, ClientPulse, ClientRead, Joined, Close, StopThread
<1>3. \A i \in 1..Len(pulses') : pulses'[i].code = "Terminate" => clientAt' = "joining"
  <2>1. pulses \in Seq(Pulses) /\ Len(pulses) \in Nat
    BY <1>1, LenProperties DEF StateOK
  <2>2. CASE UNCHANGED pulses
    <3>1. (\E i \in 1..Len(pulses) : pulses[i].code = "Terminate") => clientAt' = "joining"
      BY <1>1, <2>2
      DEF ClientOK, RegisterFails, ClientPulse, ClientRead, Joined, Close, Free, StopThread, NoThread
    <3>. QED  BY <2>2, <3>1
  <2>3. CASE pulses' = Append(pulses, Pulse("Terminate", 0)) /\ clientAt' = "joining"
    BY <2>3
  <2>4. CASE pulses' = Append(pulses, Pulse("Write", unpulsed)) /\ clientAt = "free" /\ unpulsed # 0
    <3>1. /\ Len(pulses') = Len(pulses) + 1 /\ pulses'[Len(pulses) + 1].code = "Write"
          /\ \A i \in 1..Len(pulses) : pulses'[i] = pulses[i]
      BY <2>1, <2>4, AppendProperties DEF Pulse
    <3>2. \A i \in 1..Len(pulses) : pulses[i].code # "Terminate"
      BY <1>1, <2>4 DEF ClientOK
    <3>3. \A i \in 1..Len(pulses') : i \in 1..Len(pulses) \/ i = Len(pulses) + 1
      BY <2>1, <3>1
    <3>. QED  BY <3>1, <3>2, <3>3
  <2>. QED  BY <1>2, <2>2, <2>3, <2>4
<1>4. /\ linked => (clientAt' = "registering" <=> clientAt = "registering")
      /\ clientAt' = "registering" => clientAt = "registering" /\ UNCHANGED <<state, pulses>>
  BY <1>1 DEF RegisterFails, ClientPulse, ClientRead, Joined, Close, Free, StopThread, ClientOK
<1>5. ClientOK'
  <2>1. /\ state' # "Unconnected" => session' \in Sessions
        /\ linked' => thread'.at # "none" /\ state' # "Unconnected"
    BY <1>1 DEF RegisterFails, ClientPulse, ClientRead, Joined, Close, ClientOK
  <2>2. thread'.at = "none" => /\ thread' = NoThread /\ pulses' = <<>>
                               /\ state' = "Unconnected" \/ clientAt' = "joining"
    BY <1>1
    DEF RegisterFails, ClientPulse, ClientRead, Joined, Close, Free, StopThread, ClientOK, NoThread
  <2>3. unpulsed' # 0 => clientAt' = "free" /\ state' = "Connected"
    BY <1>1
    DEF RegisterFails, ClientPulse, ClientRead, Joined, Close, Free, StopThread, ClientOK
  <2>4. clientAt' = "registering" =>
          /\ state' = "Connecting" /\ pulses' = <<>>
          /\ thread' = [NoThread EXCEPT !.at = "receiving"]
    BY <1>1, <1>4 DEF ClientOK
  <2>5. thread'.at # "sending" => thread'.payload = <<>>
    BY <1>1 DEF ClientOK
  <2>. QED  BY <1>3, <2>1, <2>2, <2>3, <2>4, <2>5 DEF ClientOK
<1>6. InboxOK'
  <2>1. \A m \in Messages : (Awaited(m)' <=> Awaited(m)) /\ (Ended(m) => Ended(m)')
    BY <1>1, <1>4 DEF Awaited, Ended
  <2>. QED  BY <1>1, <2>1, InboxKept
<1>7. SourcesOK'
  <2>1. \A s \in Sessions : Unborn(s)' => Unborn(s)
    BY <1>1, <1>4 DEF Unborn
  <2>. QED  BY <1>1, <1>4, <2>1 DEF SourcesOK
<1>. QED  BY <1>5, <1>6, <1>7 DEF Control

LEMMA ControlConnect ==
  ASSUME ControlInv, ConnectToServer  PROVE Control'
<1>. USE DEF historyVars
<1>1. /\ TypeOK /\ StateOK /\ ClientOK /\ SourcesOK /\ state = "Unconnected" /\ unpulsed = 0
      /\ session' = session + 1 /\ session' \in Sessions /\ session \in Nat
      /\ state' = "Connecting" /\ clientAt' = "registering" /\ linked' = TRUE
      /\ thread' = [NoThread EXCEPT !.at = "receiving"] /\ pulses' = <<>>
      /\ UNCHANGED <<unpulsed, announces, sources, posted>>
  BY BoundsAreNaturals
  DEF ControlInv, ConnectToServer, Connectable, Free, TypeOK, NoThread, Sessions
<1>2. thread.at = "none" /\ clientAt # "registering" /\ ~linked
  BY <1>1 DEF TypeOK, NoThread, ClientOK
<1>3. ClientOK'
  BY <1>1 DEF ClientOK, NoThread
<1>4. InboxOK'
  <2>. DEFINE msg == [Message("Init", 0, <<>>) EXCEPT !.session = session + 1]
  <2>1. inbox' = Append(inbox, msg)
    BY DEF ConnectToServer
  <2>2. msg = [type |-> "Init", session |-> session', len |-> 0, payload |-> <<>>]
    BY <1>1 DEF Message
  <2>3. msg \in Messages
    <3>1. <<>> \in ByteStreams
      BY DEF ByteStreams
    <3>. QED  BY <1>1, <2>2, <3>1 DEF Messages
  <2>4. msg.type = "Init" /\ msg.session = session'
    BY <2>2
  <2>. HIDE DEF msg
  <2>5. \E m \in Messages : inbox' = Append(inbox, m) /\ Awaited(m)'
    <3>1. PICK m \in Messages : m = msg
      BY <2>3
    <3>. QED  BY <1>1, <2>1, <2>4, <3>1 DEF Awaited
  <2>6. PICK m \in Messages : inbox' = Append(inbox, m) /\ Awaited(m)'
    BY <2>5
  <2>7. \A x \in Messages : Ended(x) => Ended(x)'
    <3>1. \A x \in Messages : x.session \in Nat
      BY DEF Messages, Sessions
    <3>. QED  BY <1>1, <3>1 DEF Ended
  <2>8. \A i \in 1..Len(inbox) : Ended(inbox[i])
    BY <1>2, Quiet
  <2>. QED  BY <1>1, <2>6, <2>7, <2>8, InboxAdded
<1>5. SourcesOK'
  <2>1. \A s \in Sessions : Unborn(s)' => Unborn(s)
    BY <1>1 DEF Unborn, Sessions
  <2>2. Unborn(session')
    BY <1>1 DEF Unborn
  <2>3. \A i \in 1..Len(posted) : posted[i] # <<"onDisconnected", session'>>
    BY <1>1, <2>2 DEF SourcesOK
  <2>. QED  BY <1>1, <2>1, <2>3 DEF SourcesOK
<1>. QED  BY <1>3, <1>4, <1>5 DEF Control

LEMMA ControlWrite ==
  ASSUME ControlInv, NEW n \in Lengths, ClientWrite(n)  PROVE Control'
<1>. USE DEF threadVars, serverVars
<1>1. /\ StateOK /\ ClientOK /\ InboxOK /\ SourcesOK /\ clientAt = "free" /\ state = "Connected"
      /\ UNCHANGED <<session, state, clientAt, thread, pulses, linked, announces, inbox, sources,
                     posted>>
  BY DEF ControlInv, ClientWrite, Free
<1>2. ClientOK'
  BY <1>1 DEF ClientOK
<1>3. InboxOK'
  <2>1. \A m \in Messages : (Awaited(m)' <=> Awaited(m)) /\ (Ended(m) => Ended(m)')
    BY <1>1 DEF Awaited, Ended
  <2>. QED  BY <1>1, <2>1, InboxKept
<1>4. SourcesOK'
  BY <1>1 DEF SourcesOK, Unborn
<1>. QED  BY <1>2, <1>3, <1>4 DEF Control

\* The thread has read a pulse.
LEMMA PulsesLeft ==
  ASSUME ControlInv, NEW code, Receives(code)
  PROVE  /\ ClientOK /\ SourcesOK
         /\ \A i \in 1..Len(pulses') : pulses'[i].code = "Terminate" => clientAt = "joining"
         /\ code = "Terminate" => clientAt = "joining"
<1>1. ClientOK /\ SourcesOK
  BY DEF ControlInv
<1>2. /\ Head(pulses).code = code /\ Head(pulses) = pulses[1] /\ Len(pulses) \in Nat \ {0}
      /\ Len(Tail(pulses)) = Len(pulses) - 1
      /\ \A i \in 1..Len(pulses) - 1 : Tail(pulses)[i] = pulses[i + 1]
      /\ pulses' = IF code = "Terminate" THEN <<>> ELSE Tail(pulses)
  BY PulseRead
<1>3. \A i \in 1..Len(pulses) - 1 : i + 1 \in 1..Len(pulses)
  BY <1>2
<1>4. \A i \in 1..Len(Tail(pulses)) : Tail(pulses)[i].code = "Terminate" => clientAt = "joining"
  BY <1>1, <1>2, <1>3 DEF ClientOK
<1>5. code = "Terminate" => clientAt = "joining"
  BY <1>1, <1>2 DEF ClientOK
<1>. QED  BY <1>1, <1>2, <1>4, <1>5

LEMMA ControlReceive ==
  ASSUME ControlInv, ReceiveTxRequest \/ ReceiveWrite  PROVE Control'
<1>. DEFINE len == Head(pulses).len
<1>1. PICK c : Receives(c) /\ (c # "Terminate")
  BY DEF ReceiveTxRequest, ReceiveWrite
<1>2. /\ TypeOK /\ StateOK /\ ClientOK /\ SourcesOK /\ thread.at = "receiving"
      /\ session \in Sessions /\ state # "Unconnected" /\ clientAt # "registering"
      /\ len \in Nat
      /\ UNCHANGED <<session, state, clientAt, unpulsed, announces, sources, posted>>
      /\ \A i \in 1..Len(pulses') : pulses'[i].code = "Terminate" => clientAt = "joining"
  BY <1>1, PulseRead, PulsesLeft
<1>3. linked' = linked
  BY DEF ReceiveTxRequest, ReceiveWrite
<1>4. \A i \in 1..Len(inbox) : Ended(inbox[i])
  BY <1>2, Quiet
<1>5. thread' \in Threads
  BY TypeThread DEF ThreadStep, Typed, StateOK
<1>6. /\ thread'.at # "none" /\ (thread'.at # "sending" => thread'.payload = <<>>)
      /\ \A m \in Messages : Ended(m) => Ended(m)'
  <2>1. /\ thread'.at # "none" /\ (thread'.at # "sending" => thread'.payload = <<>>)
    BY <1>2 DEF ReceiveTxRequest, ReceiveWrite, StateOK, Threads, ClientOK
  <2>. QED  BY <1>2, <2>1 DEF Ended
<1>7. ClientOK'
  BY <1>2, <1>3, <1>6 DEF ClientOK
<1>8. SourcesOK'
  BY <1>2, <1>3 DEF SourcesOK, Unborn
<1>9. InboxOK'
  <2>1. \E m \in Messages : inbox' = inbox \/ (inbox' = Append(inbox, m) /\ Awaited(m)')
    <3>1. CASE ReceiveTxRequest
      <4>. DEFINE m == Message("Respond", len, <<>>)
      <4>1. /\ m \in Messages /\ m.type = "Respond" /\ m.session = session /\ m.len = len
        <5>1. <<>> \in ByteStreams
          BY DEF ByteStreams
        <5>. QED  BY <1>2, <5>1, MessageType
      <4>2. \/ inbox' = inbox
            \/ inbox' = Append(inbox, m) /\ linked /\ thread' = [thread EXCEPT !.at = "responding", !.want = len]
        BY <3>1 DEF ReceiveTxRequest, Sent
      <4>. HIDE DEF m
      <4>3. PICK x \in Messages : x = m
        BY <4>1
      <4>4. CASE inbox' = inbox
        BY <4>4, <4>3
      <4>5. CASE inbox' = Append(inbox, m) /\ linked /\ thread' = [thread EXCEPT !.at = "responding", !.want = len]
        <5>1. thread'.at = "responding" /\ thread'.want = len
          BY <1>2, <4>5 DEF StateOK, Threads
        <5>2. Awaited(x)'
          BY <1>2, <1>3, <4>1, <4>3, <4>5, <5>1 DEF Awaited
        <5>. QED  BY <4>3, <4>5, <5>2
      <4>. QED  BY <4>2, <4>4, <4>5
    <3>2. CASE ReceiveWrite
      <4>. DEFINE payload == Fit(First(obuffer), len)
                  m == Message("Receive", len, payload)
      <4>1. /\ m \in Messages /\ m.type = "Receive" /\ m.session = session
        <5>1. First(obuffer) \in ByteStreams
          BY <1>2, HeadAndTail DEF First, TypeOK, ByteStreams
        <5>2. payload \in ByteStreams
          BY <1>2, <5>1, FitType
        <5>. HIDE DEF payload
        <5>. QED  BY <1>2, <5>2, MessageType
      <4>2. /\ inbox' = inbox \/ (inbox' = Append(inbox, m) /\ linked)
            /\ thread' = [thread EXCEPT !.at = "sending", !.payload = First(obuffer)]
        BY <3>2 DEF ReceiveWrite, Sent
      <4>. HIDE DEF m
      <4>3. PICK x \in Messages : x = m
        BY <4>1
      <4>4. thread'.at = "sending"
        BY <1>2, <4>2 DEF StateOK, Threads
      <4>5. linked => Awaited(x)'
        BY <1>2, <1>3, <4>1, <4>3, <4>4 DEF Awaited
      <4>. QED  BY <4>2, <4>3, <4>5
    <3>. QED  BY <3>1, <3>2
  <2>2. PICK m \in Messages : inbox' = inbox \/ (inbox' = Append(inbox, m) /\ Awaited(m)')
    BY <2>1
  <2>. QED  BY <1>2, <1>4, <1>6, <2>2, InboxAdded
<1>. QED  BY <1>7, <1>8, <1>9 DEF Control

LEMMA ControlThread ==
  ASSUME ControlInv, AskForRest \/ ReceiveTerminate \/ SendFails  PROVE Control'
<1>1. CASE AskForRest
  <2>. USE DEF clientVars, clientData, serverVars, historyVars
  <2>1. /\ StateOK /\ ClientOK /\ SourcesOK /\ thread.at = "left"
        /\ session \in Sessions /\ state # "Unconnected" /\ thread.want \in Nat
        /\ thread' = [thread EXCEPT !.at = "repeating"]
        /\ UNCHANGED <<session, state, clientAt, unpulsed, pulses, linked, announces, sources,
                       posted>>
    BY <1>1, ThreadLives DEF AskForRest, ControlInv, StateOK, Threads
  <2>2. clientAt # "registering"
    BY <2>1 DEF ClientOK, NoThread
  <2>3. thread'.at = "repeating" /\ thread'.want = thread.want /\ thread'.payload = <<>>
    BY <2>1 DEF StateOK, Threads, ClientOK
  <2>4. ClientOK'
    BY <2>1, <2>2, <2>3 DEF ClientOK
  <2>5. SourcesOK'
    BY <2>1 DEF SourcesOK, Unborn
  <2>6. InboxOK'
    <3>. DEFINE m == Message("Repeat", thread.want, <<>>)
    <3>1. m \in Messages /\ m.type = "Repeat" /\ m.session = session /\ m.len = thread.want
      <4>1. <<>> \in ByteStreams
        BY DEF ByteStreams
      <4>. QED  BY <2>1, <4>1, MessageType
    <3>2. inbox' = inbox \/ (inbox' = Append(inbox, m) /\ linked)
      BY <1>1 DEF AskForRest, Sent
    <3>. HIDE DEF m
    <3>3. PICK x \in Messages : x = m
      BY <3>1
    <3>4. linked => Awaited(x)'
      BY <2>1, <2>3, <3>1, <3>3 DEF Awaited
    <3>5. \A y \in Messages : Ended(y) => Ended(y)'
      BY <2>1, <2>3 DEF Ended
    <3>. QED  BY <2>1, <2>2, <3>2, <3>3, <3>4, <3>5, Quiet, InboxAdded
  <2>. QED  BY <2>4, <2>5, <2>6 DEF Control
<1>2. CASE ReceiveTerminate
  <2>1. Receives("Terminate")
    BY <1>2 DEF ReceiveTerminate
  <2>2. /\ TypeOK /\ StateOK /\ ClientOK /\ SourcesOK /\ thread.at = "receiving"
        /\ session \in Sessions /\ state # "Unconnected" /\ clientAt = "joining"
        /\ pulses' = <<>>
        /\ UNCHANGED <<session, state, clientAt, unpulsed, announces, sources, posted>>
    BY <2>1, PulseRead, PulsesLeft
  <2>3. thread' = NoThread /\ linked' = FALSE
    BY <1>2 DEF ReceiveTerminate
  <2>4. ClientOK'
    BY <2>2, <2>3 DEF ClientOK, NoThread
  <2>5. SourcesOK'
    BY <2>2, <2>3 DEF SourcesOK, Unborn
  <2>6. InboxOK'
    <3>. DEFINE m == Message("Disconnect", 0, <<>>)
    <3>1. m \in Messages /\ m.type = "Disconnect" /\ m.session = session
      <4>1. <<>> \in ByteStreams
        BY DEF ByteStreams
      <4>. QED  BY <2>2, <4>1, MessageType
    <3>2. inbox' = inbox \/ inbox' = Append(inbox, m)
      BY <1>2 DEF ReceiveTerminate, Sent
    <3>. HIDE DEF m
    <3>3. PICK x \in Messages : x = m
      BY <3>1
    <3>4. Ended(x)'
      BY <2>2, <2>3, <3>1, <3>3 DEF Ended, NoThread
    <3>5. \A y \in Messages : Ended(y) => Ended(y)'
      BY <2>2, <2>3 DEF Ended
    <3>. QED  BY <2>2, <3>2, <3>3, <3>4, <3>5, Quiet, InboxAdded
  <2>. QED  BY <2>4, <2>5, <2>6 DEF Control
<1>3. CASE SendFails
  <2>. USE DEF clientVars, serverVars, historyVars
  <2>1. /\ StateOK /\ ClientOK /\ InboxOK /\ SourcesOK /\ ~linked
        /\ thread.at \in {"responding", "repeating", "sending"}
        /\ thread' = [thread EXCEPT !.at = "receiving", !.want = 0, !.payload = <<>>]
        /\ UNCHANGED <<session, state, clientAt, unpulsed, pulses, linked, announces, inbox,
                       sources, posted>>
    BY <1>3 DEF SendFails, ControlInv
  <2>2. clientAt # "registering"
    BY <2>1 DEF ClientOK, NoThread
  <2>3. thread'.at = "receiving" /\ thread'.payload = <<>>
    BY <2>1 DEF StateOK, Threads
  <2>4. ClientOK'
    BY <2>1, <2>2, <2>3 DEF ClientOK
  <2>5. SourcesOK'
    BY <2>1 DEF SourcesOK, Unborn
  <2>6. InboxOK'
    <3>1. \A m \in Messages : (Awaited(m)' <=> Awaited(m)) /\ (Ended(m) => Ended(m)')
      BY <2>1, <2>3 DEF Awaited, Ended
    <3>. QED  BY <2>1, <3>1, InboxKept
  <2>. QED  BY <2>4, <2>5, <2>6 DEF Control
<1>. QED  BY <1>1, <1>2, <1>3

LEMMA ControlServe ==
  ASSUME ControlInv, ServeStep  PROVE Control'
<1>1. PICK type : Serves(type) /\ (ServeDisconnect <=> type = "Disconnect")
  BY DEF ServeStep, ServeInit, ServeRespond, ServeRepeat, ServeReceive, ServeDisconnect, Serves
<1>2. /\ TypeOK /\ StateOK /\ ClientOK /\ InboxOK /\ SourcesOK /\ inbox # <<>>
      /\ inbox' = Tail(inbox) /\ Head(inbox).session \in Sessions
      /\ Head(inbox) \in Messages /\ Head(inbox).type = type
      /\ UNCHANGED <<session, unpulsed, pulses, linked, announces>>
  BY <1>1, MessageServed DEF ControlInv
<1>3. sources \in [Sessions -> Sources] /\ posted \in Seq(Events) /\ Len(posted) \in Nat
  BY <1>2, LenProperties DEF StateOK
<1>4. CASE ServeDisconnect
  <2>. DEFINE s == Head(inbox).session
  <2>1. Ended(Head(inbox)) /\ s \in Sessions
    BY <1>1, <1>2, <1>4, MessageServed
  <2>2. /\ sources' = [sources EXCEPT ![s].known = FALSE, ![s].serverClosing = TRUE]
        /\ posted' \in {posted, Append(posted, <<"onDisconnected", s>>)}
        /\ UNCHANGED <<thread, clientAt, state>>
    BY <1>4 DEF ServeDisconnect
  <2>. HIDE DEF s
  <2>3. ~Unborn(s) /\ (linked => s # session)
    <3>1. s < session \/ (s = session /\ thread.at = "none")
      BY <2>1 DEF Ended, s
    <3>2. thread.at = "none" => clientAt # "registering" /\ ~linked
      BY <1>2 DEF ClientOK, NoThread
    <3>3. s \in Nat /\ session \in Nat
      BY <1>2, <2>1 DEF TypeOK, Sessions
    <3>. QED  BY <3>1, <3>2, <3>3 DEF Unborn
  <2>4. ClientOK'
    BY <1>2, <2>2 DEF ClientOK
  <2>5. InboxOK'
    <3>1. \A m \in Messages : (Awaited(m)' <=> Awaited(m)) /\ (Ended(m) => Ended(m)')
      BY <1>2, <2>2 DEF Awaited, Ended
    <3>. QED  BY <1>2, <3>1, InboxTold
  <2>6. SourcesOK'
    <3>1. /\ \A t \in Sessions : t # s => sources'[t] = sources[t]
          /\ sources'[s].known = FALSE
      BY <1>3, <2>1, <2>2 DEF Sources
    <3>2. \A t \in Sessions : Unborn(t)' <=> Unborn(t)
      BY <1>2, <2>2 DEF Unborn
    <3>3. \A i \in 1..Len(posted') : (i \in 1..Len(posted) /\ posted'[i] = posted[i])
                                     \/ posted'[i] = <<"onDisconnected", s>>
      <4>1. CASE posted' = posted
        BY <4>1
      <4>2. CASE posted' = Append(posted, <<"onDisconnected", s>>)
        <5>1. Len(posted') = Len(posted) + 1
          BY <1>3, <4>2, AppendProperties
        <5>2. \A i \in 1..Len(posted') : i \in 1..Len(posted) \/ i = Len(posted) + 1
          BY <1>3, <5>1
        <5>. QED  BY <1>3, <4>2, <5>2, AppendProperties
      <4>. QED  BY <2>2, <4>1, <4>2
    <3>4. \A i \in 1..Len(posted') : posted'[i][2] = s \/ (i \in 1..Len(posted) /\ posted'[i] = posted[i])
      BY <3>3
    <3>5. linked' /\ clientAt' # "registering" => sources'[session'].known
      <4>1. linked => session \in Sessions
        BY <1>2 DEF ClientOK
      <4>. QED  BY <1>2, <2>2, <2>3, <3>1, <4>1 DEF SourcesOK
    <3>6. \A t \in Sessions : sources'[t].known => ~sources'[t].serverClosing
      BY <1>2, <3>1 DEF SourcesOK
    <3>7. \A t \in Sessions : Unborn(t)' =>
            /\ sources'[t] = NoSource /\ announces'[1] # t
            /\ \A i \in 1..Len(posted') : posted'[i][2] # t
      BY <1>2, <2>3, <3>1, <3>2, <3>4 DEF SourcesOK
    <3>8. linked' => \A i \in 1..Len(posted') : posted'[i] # <<"onDisconnected", session'>>
      BY <1>2, <2>3, <3>3 DEF SourcesOK
    <3>. QED  BY <3>5, <3>6, <3>7, <3>8 DEF SourcesOK
  <2>. QED  BY <2>4, <2>5, <2>6 DEF Control
<1>5. CASE ~ServeDisconnect
  <2>1. /\ Awaited(Head(inbox)) /\ linked /\ Head(inbox).session = session
        /\ session \in Sessions /\ state # "Unconnected"
    BY <1>1, <1>5, MessageServed
  <2>2. InboxOK'
    <3>1. thread.at # "none" /\ thread'.at # "none"
      BY <1>2, <1>5, <2>1
      DEF ServeStep, ServeInit, ServeRespond, ServeRepeat, ServeReceive, ClientOK, StateOK, Threads
    <3>2. \A m \in Messages : Ended(m) => Ended(m)'
      BY <1>2, <3>1 DEF Ended
    <3>. QED  BY <1>2, <2>1, <3>2, InboxServed
  <2>3. CASE ServeInit
    <3>1. clientAt = "registering"
      BY <1>2, <2>1, <2>3 DEF Awaited, ServeInit, Serves
    <3>2. /\ clientAt' = "free" /\ state' = "Connected" /\ thread' = thread
          /\ sources' = [sources EXCEPT ![session] = [NoSource EXCEPT !.known = TRUE]]
          /\ posted' = Append(posted, <<"newConnection", session>>)
      BY <2>1, <2>3 DEF ServeInit, CreateSource
    <3>3. ClientOK'
      BY <1>2, <2>1, <3>1, <3>2 DEF ClientOK, NoThread
    <3>4. /\ \A t \in Sessions : t # session => sources'[t] = sources[t]
          /\ sources'[session].known = TRUE /\ sources'[session].serverClosing = FALSE
      BY <1>3, <2>1, <3>2 DEF NoSource
    <3>5. \A t \in Sessions : Unborn(t)' => Unborn(t) /\ t # session
      <4>1. session \in Nat
        BY <2>1 DEF Sessions
      <4>. QED  BY <1>2, <3>2, <4>1 DEF Unborn
    <3>6. \A i \in 1..Len(posted') : (i \in 1..Len(posted) /\ posted'[i] = posted[i])
                                     \/ posted'[i] = <<"newConnection", session>>
      <4>1. Len(posted') = Len(posted) + 1
        BY <1>3, <3>2, AppendProperties
      <4>2. \A i \in 1..Len(posted') : i \in 1..Len(posted) \/ i = Len(posted) + 1
        BY <1>3, <4>1
      <4>. QED  BY <1>3, <3>2, <4>2, AppendProperties
    <3>7. \A t \in Sessions : Unborn(t)' =>
            /\ sources'[t] = NoSource /\ announces'[1] # t
            /\ \A i \in 1..Len(posted') : posted'[i][2] # t
      <4>1. \A i \in 1..Len(posted') : posted'[i][2] = session \/ (i \in 1..Len(posted) /\ posted'[i] = posted[i])
        BY <3>6
      <4>. QED  BY <1>2, <3>4, <3>5, <4>1 DEF SourcesOK
    <3>8. linked' => \A i \in 1..Len(posted') : posted'[i] # <<"onDisconnected", session'>>
      BY <1>2, <3>6 DEF SourcesOK
    <3>9. SourcesOK'
      BY <1>2, <2>1, <3>4, <3>7, <3>8 DEF SourcesOK
    <3>. QED  BY <2>2, <3>3, <3>9 DEF Control
  <2>4. CASE ServeRespond \/ ServeRepeat \/ ServeReceive
    <3>1. clientAt # "registering"
      BY <1>2, <2>1, <2>4
      DEF Awaited, ServeRespond, ServeRepeat, ServeReceive, Serves, ClientOK, NoThread
    <3>2. /\ clientAt' = clientAt /\ state' = state
          /\ posted' = posted \/ posted' = Append(posted, <<"readyRead", session>>)
      BY <2>1, <2>4 DEF ServeRespond, ServeRepeat, ServeReceive
    <3>3. thread'.at \in {"receiving", "left"} /\ thread'.payload = <<>>
      BY <1>2, <2>1, <2>4
      DEF Awaited, ServeRespond, ServeRepeat, ServeReceive, Serves, ClientOK, StateOK, Threads
    <3>4. /\ \A t \in Sessions : t # session => sources'[t] = sources[t]
          /\ sources'[session].known = TRUE /\ sources[session].known = TRUE
          /\ sources'[session].serverClosing = sources[session].serverClosing
      <4>1. /\ sources[session].known = TRUE
            /\ \E x, y : \/ sources' = [sources EXCEPT ![session].obuffer = x]
                         \/ sources' = [sources EXCEPT ![session].buffer = x,
                                                       ![session].early = y]
        <5>1. sources[session].known = TRUE
          BY <1>3, <2>1, <2>4 DEF ServeRespond, ServeRepeat, ServeReceive, Sources
        <5>2. CASE ServeRespond
          BY <2>1, <5>1, <5>2 DEF ServeRespond
        <5>3. CASE ServeRepeat
          BY <2>1, <5>1, <5>3 DEF ServeRepeat
        <5>4. CASE ServeReceive
          <6>. DEFINE all == sources[session].buffer \o Head(inbox).payload
                      untold == ~sources[session].attached
          <6>1. sources' = [sources EXCEPT ![session].buffer = all, ![session].early = untold]
            BY <2>1, <5>4 DEF ServeReceive
          <6>. HIDE DEF all, untold
          <6>. QED  BY <5>1, <6>1
        <5>. QED  BY <2>4, <5>2, <5>3, <5>4
      <4>2. PICK x, y : \/ sources' = [sources EXCEPT ![session].obuffer = x]
                        \/ sources' = [sources EXCEPT ![session].buffer = x,
                                                      ![session].early = y]
        BY <4>1
      <4>3. CASE sources' = [sources EXCEPT ![session].obuffer = x]
        BY <1>3, <2>1, <4>1, <4>3 DEF Sources
      <4>4. CASE sources' = [sources EXCEPT ![session].buffer = x, ![session].early = y]
        BY <1>3, <2>1, <4>1, <4>4 DEF Sources
      <4>. QED  BY <4>2, <4>3, <4>4
    <3>5. ClientOK'
      BY <1>2, <2>1, <3>1, <3>2, <3>3 DEF ClientOK
    <3>6. \A t \in Sessions : Unborn(t)' => Unborn(t) /\ t # session
      <4>1. session \in Nat
        BY <2>1 DEF Sessions
      <4>. QED  BY <1>2, <3>1, <3>2, <4>1 DEF Unborn
    <3>7. \A i \in 1..Len(posted') : (i \in 1..Len(posted) /\ posted'[i] = posted[i])
                                     \/ posted'[i] = <<"readyRead", session>>
      <4>1. CASE posted' = posted
        BY <4>1
      <4>2. CASE posted' = Append(posted, <<"readyRead", session>>)
        <5>1. Len(posted') = Len(posted) + 1
          BY <1>3, <4>2, AppendProperties
        <5>2. \A i \in 1..Len(posted') : i \in 1..Len(posted) \/ i = Len(posted) + 1
          BY <1>3, <5>1
        <5>. QED  BY <1>3, <4>2, <5>2, AppendProperties
      <4>. QED  BY <3>2, <4>1, <4>2
    <3>8. \A t \in Sessions : Unborn(t)' =>
            /\ sources'[t] = NoSource /\ announces'[1] # t
            /\ \A i \in 1..Len(posted') : posted'[i][2] # t
      <4>1. \A i \in 1..Len(posted') : posted'[i][2] = session \/ (i \in 1..Len(posted) /\ posted'[i] = posted[i])
        BY <3>7
      <4>. QED  BY <1>2, <3>4, <3>6, <4>1 DEF SourcesOK
    <3>9. linked' => \A i \in 1..Len(posted') : posted'[i] # <<"onDisconnected", session'>>
      BY <1>2, <3>7 DEF SourcesOK
    <3>10. \A t \in Sessions : sources'[t].known => ~sources'[t].serverClosing
      BY <1>2, <2>1, <3>4 DEF SourcesOK
    <3>11. SourcesOK'
      BY <1>2, <2>1, <3>4, <3>8, <3>9, <3>10 DEF SourcesOK
    <3>. QED  BY <2>2, <3>5, <3>11 DEF Control
  <2>. QED  BY <1>5, <2>3, <2>4 DEF ServeStep
<1>. QED  BY <1>4, <1>5

LEMMA ControlServer ==
  ASSUME ControlInv, NewConnection \/ OnDisconnected \/ ServerRead  PROVE Control'
<1>. DEFINE s == Head(posted)[2]
<1>1. PICK event : Handles(event) /\ (OnDisconnected => event = "onDisconnected")
  BY DEF NewConnection, OnDisconnected, ServerRead
<1>2. /\ TypeOK /\ StateOK /\ ClientOK /\ InboxOK /\ SourcesOK
      /\ s \in Sessions /\ ~Unborn(s) /\ (event = "onDisconnected" /\ linked => s # session)
      /\ Len(posted) \in Nat \ {0} /\ Len(posted') = Len(posted) - 1
      /\ \A i \in 1..Len(posted) - 1 : posted'[i] = posted[i + 1]
      /\ UNCHANGED <<session, state, clientAt, unpulsed, thread, pulses, linked, announces,
                     inbox>>
  BY <1>1, EventHandled DEF ControlInv
<1>3. /\ sources \in [Sessions -> Sources]
      /\ \A t \in Sessions : t # s => sources'[t] = sources[t]
      /\ sources'[s].known => sources[s].known
      /\ sources'[s].serverClosing => sources[s].serverClosing
      /\ linked /\ s = session => sources'[s].known = sources[s].known
  <2>1. sources \in [Sessions -> Sources]
    BY <1>2 DEF StateOK
  <2>2. CASE NewConnection
    <3>1. sources' = [sources EXCEPT ![s].attached = TRUE]
      BY <2>2 DEF NewConnection
    <3>. QED  BY <1>2, <2>1, <3>1 DEF Sources
  <2>3. CASE OnDisconnected
    <3>1. sources' = [sources EXCEPT ![s] = NoSource]
      BY <2>3 DEF OnDisconnected
    <3>. QED  BY <1>1, <1>2, <2>1, <2>3, <3>1 DEF NoSource
  <2>4. CASE ServerRead
    <3>. DEFINE all == sources[s].got \o sources[s].buffer
    <3>1. sources' = [sources EXCEPT ![s].got = all, ![s].buffer = <<>>]
      BY <2>4 DEF ServerRead
    <3>. HIDE DEF all
    <3>. QED  BY <1>2, <2>1, <3>1 DEF Sources
  <2>. QED  BY <2>2, <2>3, <2>4
<1>4. ClientOK'
  BY <1>2 DEF ClientOK
<1>5. InboxOK'
  <2>1. \A m \in Messages : (Awaited(m)' <=> Awaited(m)) /\ (Ended(m) => Ended(m)')
    BY <1>2 DEF Awaited, Ended
  <2>. QED  BY <1>2, <2>1, InboxKept
<1>6. SourcesOK'
  <2>. HIDE DEF s
  <2>1. \A t \in Sessions : Unborn(t)' <=> Unborn(t)
    BY <1>2 DEF Unborn
  <2>2. \A i \in 1..Len(posted') : \E j \in 1..Len(posted) : posted'[i] = posted[j]
    <3>1. \A i \in 1..Len(posted') : i + 1 \in 1..Len(posted) /\ posted'[i] = posted[i + 1]
      BY <1>2
    <3>. QED  BY <3>1
  <2>3. linked' /\ clientAt' # "registering" => sources'[session'].known
    <3>1. linked => session \in Sessions
      BY <1>2 DEF ClientOK
    <3>. QED  BY <1>2, <1>3, <3>1 DEF SourcesOK
  <2>4. \A t \in Sessions : sources'[t].known => ~sources'[t].serverClosing
    BY <1>2, <1>3 DEF SourcesOK
  <2>5. \A t \in Sessions : Unborn(t)' =>
          /\ sources'[t] = NoSource /\ announces'[1] # t
          /\ \A i \in 1..Len(posted') : posted'[i][2] # t
    BY <1>2, <1>3, <2>1, <2>2 DEF SourcesOK
  <2>6. linked' => \A i \in 1..Len(posted') : posted'[i] # <<"onDisconnected", session'>>
    BY <1>2, <2>2 DEF SourcesOK
  <2>. QED  BY <2>3, <2>4, <2>5, <2>6 DEF SourcesOK
<1>. QED  BY <1>4, <1>5, <1>6 DEF Control

LEMMA ControlAnnounce ==
  ASSUME ControlInv, ServerPulse \/ \E s \in Sessions, n \in Lengths : ServerWrite(s, n)
  PROVE  Control'
<1>. USE DEF clientVars, clientData, threadVars
<1>1. /\ TypeOK /\ StateOK /\ ClientOK /\ InboxOK /\ SourcesOK
      /\ UNCHANGED <<session, state, clientAt, unpulsed, thread, linked, inbox, posted>>
  BY DEF ControlInv, ServerPulse, ServerWrite
<1>2. sources \in [Sessions -> Sources] /\ pulses \in Seq(Pulses) /\ Len(pulses) \in Nat
  BY <1>1, LenProperties DEF StateOK
<1>3. InboxOK'
  <2>1. \A m \in Messages : (Awaited(m)' <=> Awaited(m)) /\ (Ended(m) => Ended(m)')
    BY <1>1 DEF Awaited, Ended
  <2>. QED  BY <1>1, <2>1, InboxKept
<1>4. \A t \in Sessions : Unborn(t)' <=> Unborn(t)
  BY <1>1 DEF Unborn
<1>5. CASE ServerPulse
  <2>. DEFINE pulse == Pulse("TxRequest", announces[2])
  <2>1. /\ announces' = <<0, 0>> /\ sources' = sources /\ announces[1] \in Sessions
        /\ \/ pulses' = pulses
           \/ Reachable(announces[1]) /\ pulses' = Append(pulses, pulse)
    BY <1>1, <1>5 DEF ServerPulse, NotAnnouncing, StateOK
  <2>2. pulse.code = "TxRequest"
    BY DEF Pulse
  <2>. HIDE DEF pulse
  <2>3. ClientOK'
    <3>1. CASE pulses' = pulses
      BY <1>1, <3>1 DEF ClientOK
    <3>2. CASE Reachable(announces[1]) /\ pulses' = Append(pulses, pulse)
      <4>1. thread.at # "none" /\ clientAt # "registering"
        <5>1. announces[1] = session /\ thread.at # "none"
          BY <3>2 DEF Reachable
        <5>2. ~Unborn(session)
          BY <1>1, <2>1, <5>1 DEF SourcesOK
        <5>. QED  BY <5>1, <5>2 DEF Unborn
      <4>2. \A i \in 1..Len(pulses') : pulses'[i].code = "Terminate" =>
              i \in 1..Len(pulses) /\ pulses'[i] = pulses[i]
        <5>1. Len(pulses') = Len(pulses) + 1 /\ pulses'[Len(pulses) + 1] = pulse
              /\ \A i \in 1..Len(pulses) : pulses'[i] = pulses[i]
          BY <1>2, <3>2, AppendProperties
        <5>2. \A i \in 1..Len(pulses') : i \in 1..Len(pulses) \/ i = Len(pulses) + 1
          BY <1>2, <5>1
        <5>. QED  BY <2>2, <5>1, <5>2
      <4>. QED  BY <1>1, <4>1, <4>2 DEF ClientOK
    <3>. QED  BY <2>1, <3>1, <3>2
  <2>4. SourcesOK'
    <3>1. \A t \in Sessions : announces'[1] # t
      BY <2>1 DEF Sessions
    <3>. QED  BY <1>1, <1>4, <2>1, <3>1 DEF SourcesOK
  <2>. QED  BY <1>3, <2>3, <2>4 DEF Control
<1>6. ASSUME NEW s \in Sessions, NEW n \in Lengths, ServerWrite(s, n)  PROVE Control'
  <2>1. /\ announces' = <<s, n>> /\ sources[s].attached /\ pulses' = pulses
        /\ \A t \in Sessions : t # s => sources'[t] = sources[t]
        /\ \A t \in Sessions : /\ sources'[t].known = sources[t].known
                               /\ sources'[t].serverClosing = sources[t].serverClosing
    BY <1>2, <1>6 DEF ServerWrite, Sources
  <2>2. ~Unborn(s)
    <3>1. sources[s] # NoSource
      BY <2>1 DEF NoSource
    <3>. QED  BY <1>1, <3>1 DEF SourcesOK
  <2>3. ClientOK'
    BY <1>1, <2>1 DEF ClientOK
  <2>4. SourcesOK'
    <3>1. linked' /\ clientAt' # "registering" => sources'[session'].known
      <4>1. linked => session \in Sessions
        BY <1>1 DEF ClientOK
      <4>. QED  BY <1>1, <2>1, <4>1 DEF SourcesOK
    <3>2. \A t \in Sessions : sources'[t].known => ~sources'[t].serverClosing
      BY <1>1, <2>1 DEF SourcesOK
    <3>3. \A t \in Sessions : Unborn(t)' =>
            /\ sources'[t] = NoSource /\ announces'[1] # t
            /\ \A i \in 1..Len(posted') : posted'[i][2] # t
      BY <1>1, <1>4, <2>1, <2>2 DEF SourcesOK
    <3>. QED  BY <1>1, <3>1, <3>2, <3>3 DEF SourcesOK
  <2>. QED  BY <1>3, <2>3, <2>4 DEF Control
<1>. QED  BY <1>5, <1>6

LEMMA ControlListen ==
  ASSUME ControlInv, ServerCloses \/ ServerListens \/ UNCHANGED vars  PROVE Control'
<1>. USE DEF clientVars, clientData, threadVars, serverVars, historyVars
<1>1. /\ TypeOK /\ StateOK /\ ClientOK /\ InboxOK /\ SourcesOK
      /\ UNCHANGED <<session, state, clientAt, unpulsed, thread, pulses, announces>>
  BY DEF ControlInv, ServerCloses, ServerListens, vars
<1>2. \A t \in Sessions : Unborn(t)' <=> Unborn(t)
  BY <1>1 DEF Unborn
<1>3. CASE ServerCloses
  <2>1. /\ linked' = FALSE /\ inbox' = <<>> /\ posted' = <<>>
        /\ \A t \in Sessions : sources'[t] = NoSource
    BY <1>3 DEF ServerCloses
  <2>2. ClientOK'
    BY <1>1, <2>1 DEF ClientOK
  <2>3. InboxOK'
    BY <2>1 DEF InboxOK
  <2>4. SourcesOK'
    BY <1>1, <1>2, <2>1 DEF SourcesOK, NoSource
  <2>. QED  BY <2>2, <2>3, <2>4 DEF Control
<1>4. CASE ServerListens \/ UNCHANGED vars
  <2>1. UNCHANGED <<linked, inbox, sources, posted>>
    BY <1>4 DEF ServerListens, vars
  <2>2. ClientOK'
    BY <1>1, <2>1 DEF ClientOK
  <2>3. InboxOK'
    <3>1. \A m \in Messages : (Awaited(m)' <=> Awaited(m)) /\ (Ended(m) => Ended(m)')
      BY <1>1, <2>1 DEF Awaited, Ended
    <3>. QED  BY <1>1, <2>1, <3>1, InboxKept
  <2>4. SourcesOK'
    BY <1>1, <1>2, <2>1 DEF SourcesOK
  <2>. QED  BY <2>2, <2>3, <2>4 DEF Control
<1>. QED  BY <1>3, <1>4

(* Every step keeps where the threads are and what the messages are about.  *)
LEMMA ControlStep ==
  ASSUME ControlInv, ToClientOK, [Next]_vars  PROVE ControlInv'
<1>1. Typed'
  BY TypeStep
<1>2. Control'
  <2>1. CASE ThreadStep
    BY <2>1, ControlReceive, ControlThread DEF ThreadStep
  <2>2. CASE ServeStep
    BY <2>2, ControlServe
  <2>3. CASE ClientStep \/ Close
    BY <2>3, ControlClient DEF ClientStep
  <2>4. CASE ServerStep
    BY <2>4, ControlServer, ControlAnnounce DEF ServerStep
  <2>5. CASE ConnectToServer
    BY <2>5, ControlConnect
  <2>6. CASE ServerCloses \/ ServerListens \/ UNCHANGED vars
    BY <2>6, ControlListen
  <2>7. CASE \E n \in Lengths : ClientWrite(n)
    BY <2>7, ControlWrite
  <2>8. CASE \E s \in Sessions, n \in Lengths : ServerWrite(s, n)
    BY <2>8, ControlAnnounce
  <2>. QED  BY <2>1, <2>2, <2>3, <2>4, <2>5, <2>6, <2>7, <2>8 DEF Next
<1>. QED  BY <1>1, <1>2 DEF Typed, Control, ControlInv

-----------------------------------------------------------------------------
(* What the client receives *)

\* The thread is as far with what it asks for as it was.
SameRequest ==
  /\ thread'.ignore = thread.ignore
  /\ \/ thread'.at = thread.at /\ thread'.want = thread.want
     \/ thread.at \in {"receiving", "sending"} /\ thread'.at \in {"receiving", "sending"}
     \/ thread.at = "left" /\ thread'.at = "repeating" /\ thread'.want = thread.want

\* What is announced has a length.
LEMMA AnnouncedType ==
  ASSUME StateOK  PROVE Announced \in Seq(Nat)
<1>1. announces = <<0, 0>> \/ announces[2] \in Lengths
  BY DEF StateOK
<1>2. announces = <<0, 0>> => announces[2] = 0
  OBVIOUS
<1>3. announces[2] \in Lengths => announces[2] \in Nat
  BY LengthsArePositive
<1>. QED  BY <1>1, <1>2, <1>3 DEF Announced

LEMMA ReceivingKept ==
  ASSUME NEW e, Receiving(e), SameRequest, UNCHANGED <<session, Announced>>,
         sources'[session].obuffer = sources[session].obuffer,
         got' \o buffer' = got \o buffer,
         \A t \in Seq(Nat) : Lens(pulses, "TxRequest", t) => Lens(pulses', "TxRequest", t)
  PROVE  Receiving(e)'
<1>. DEFINE chunks == sources[session].obuffer
<1>1. /\ got \o buffer = Chunk(session, 0, e[0])
      /\ thread.at \in {"responding", "left", "repeating"} => thread.ignore = 0
      /\ thread.at = "responding" => chunks # <<>> /\ thread.want = Len(chunks[1])
      /\ thread.at \in {"left", "repeating"} =>
           \E k \in 1..Len(chunks) : thread.want = e[k] - e[0]
  BY DEF Receiving
<1>2. PICK t \in Seq(Nat) : /\ Lens(pulses, "TxRequest", t)
                            /\ Owes(t \o Announced, thread.ignore, chunks, Asked)
  BY DEF Receiving
<1>3. chunks' = chunks /\ session' = session
  OBVIOUS
<1>4. Asked' = Asked
  BY DEF Asked, SameRequest
<1>5. Lens(pulses, "TxRequest", t)'
  BY <1>2
<1>6. Owes(t \o Announced, thread.ignore, chunks, Asked)'
  BY <1>2, <1>3, <1>4 DEF SameRequest, Owes
<1>7. /\ got' \o buffer' = Chunk(session', 0, e[0])
      /\ thread'.at \in {"responding", "left", "repeating"} => thread'.ignore = 0
      /\ thread'.at = "responding" => chunks' # <<>> /\ thread'.want = Len(chunks'[1])
      /\ thread'.at \in {"left", "repeating"} =>
           \E k \in 1..Len(chunks') : thread'.want = e[k] - e[0]
  BY <1>1, <1>3 DEF SameRequest
<1>. QED  BY <1>5, <1>6, <1>7 DEF Receiving

LEMMA ToClientKept ==
  ASSUME ToClientOK, linked' => linked /\ session' = session, lost \subseteq lost',
         \A s \in Sessions : /\ sources'[s].obuffer = sources[s].obuffer
                             /\ sources'[s].sent = sources[s].sent,
         linked' /\ <<"toClient", session>> \notin lost' =>
           \A e : Receiving(e) => Receiving(e)'
  PROVE  ToClientOK'
<1>. SUFFICES ASSUME NEW s \in Sessions  PROVE \E e : ToClient(s, e)'
  BY DEF ToClientOK
<1>1. PICK e : ToClient(s, e)
  BY DEF ToClientOK
<1>2. /\ sources'[s].obuffer = sources[s].obuffer /\ sources'[s].sent = sources[s].sent
  OBVIOUS
<1>3. s = session' /\ linked' /\ <<"toClient", s>> \notin lost' => Receiving(e)'
  BY <1>1 DEF ToClient
<1>4. ToClient(s, e)'
  BY <1>1, <1>2, <1>3 DEF ToClient, Cut
<1>. QED  BY <1>4

\* A pulse of another kind is sent.
LEMMA OtherPulse ==
  ASSUME pulses \in Seq(Pulses), NEW code, NEW pulse \in Pulses, pulse.code # code,
         pulses' \in {pulses, Append(pulses, pulse)}
  PROVE  \A t \in Seq(Nat) : Lens(pulses, code, t) => Lens(pulses', code, t)
<1>1. CASE pulses' = pulses
  BY <1>1
<1>2. CASE pulses' = Append(pulses, pulse)
  BY <1>2, LensOther
<1>. QED  BY <1>1, <1>2

LEMMA ToClientClient ==
  ASSUME ControlInv, ToClientOK,
         \/ RegisterFails \/ ClientPulse \/ ClientRead \/ Joined \/ Close
         \/ \E n \in Lengths : ClientWrite(n)
  PROVE  ToClientOK'
<1>. USE DEF clientVars, clientData, threadVars, serverVars, historyVars
<1>1. /\ TypeOK /\ StateOK /\ ClientOK
      /\ UNCHANGED <<session, thread, linked, announces, sources>>
      /\ lost \subseteq lost'
  BY DEF ControlInv, RegisterFails, ClientPulse, ClientRead, Joined, Close, ClientWrite
<1>2. Announced' = Announced /\ SameRequest
  BY <1>1 DEF Announced, SameRequest
<1>3. linked' => got' \o buffer' = got \o buffer
  <2>1. CASE ClientRead
    <3>1. got' = got \o buffer /\ buffer' = <<>>
      BY <2>1 DEF ClientRead
    <3>2. got \o buffer \in ByteStreams
      BY <1>1, ConcatProperties DEF TypeOK, ByteStreams
    <3>. QED  BY <3>1, <3>2, ConcatEmptySeq DEF ByteStreams
  <2>2. CASE Joined
    BY <1>1, <2>2 DEF Joined, ClientOK
  <2>3. CASE ~ClientRead /\ ~Joined
    BY <2>3 DEF RegisterFails, ClientPulse, Close, ClientWrite
  <2>. QED  BY <2>1, <2>2, <2>3
<1>4. \A t \in Seq(Nat) : Lens(pulses, "TxRequest", t) => Lens(pulses', "TxRequest", t)
  <2>1. \E pulse \in Pulses : pulse.code # "TxRequest" /\ pulses' \in {pulses, Append(pulses, pulse)}
    <3>1. Pulse("Terminate", 0) \in Pulses /\ Pulse("Write", unpulsed) \in Pulses
      BY <1>1, LengthsArePositive DEF Pulse, Pulses, TypeOK
    <3>2. \/ pulses' \in {pulses, Append(pulses, Pulse("Terminate", 0))}
          \/ pulses' \in {pulses, Append(pulses, Pulse("Write", unpulsed))}
      BY DEF RegisterFails, ClientPulse, ClientRead, Joined, Close, ClientWrite, StopThread
    <3>3. Pulse("Terminate", 0).code # "TxRequest" /\ Pulse("Write", unpulsed).code # "TxRequest"
      BY DEF Pulse
    <3>. QED  BY <3>1, <3>2, <3>3
  <2>. QED  BY <1>1, <2>1, OtherPulse DEF StateOK
<1>5. linked' => \A e : Receiving(e) => Receiving(e)'
  BY <1>1, <1>2, <1>3, <1>4, ReceivingKept
<1>. QED  BY <1>1, <1>5, ToClientKept

LEMMA ToClientThread ==
  ASSUME ControlInv, ToClientOK, ReceiveWrite \/ AskForRest \/ ReceiveTerminate \/ SendFails
  PROVE  ToClientOK'
<1>1. CASE ReceiveWrite
  <2>1. Receives("Write")
    BY <1>1 DEF ReceiveWrite
  <2>2. /\ StateOK /\ thread.at = "receiving" /\ pulses # <<>> /\ Head(pulses).code = "Write"
        /\ pulses' = Tail(pulses) /\ UNCHANGED <<session, buffer, got, announces, sources, lost>>
    BY <2>1, PulseRead
  <2>3. linked' = linked /\ thread' = [thread EXCEPT !.at = "sending", !.payload = First(obuffer)]
    BY <1>1 DEF ReceiveWrite
  <2>4. SameRequest
    BY <2>2, <2>3 DEF SameRequest, StateOK, Threads
  <2>5. \A t \in Seq(Nat) : Lens(pulses, "TxRequest", t) => Lens(pulses', "TxRequest", t)
    BY <2>2, LensPassed DEF StateOK
  <2>6. \A e : Receiving(e) => Receiving(e)'
    BY <2>2, <2>4, <2>5, ReceivingKept DEF Announced
  <2>. QED  BY <2>2, <2>3, <2>6, ToClientKept
<1>2. CASE AskForRest
  <2>. USE DEF clientVars, clientData, serverVars, historyVars
  <2>1. /\ StateOK /\ thread.at = "left" /\ thread' = [thread EXCEPT !.at = "repeating"]
        /\ UNCHANGED <<session, buffer, got, pulses, linked, announces, sources, lost>>
    BY <1>2 DEF AskForRest, ControlInv
  <2>2. SameRequest
    BY <2>1 DEF SameRequest, StateOK, Threads
  <2>3. \A e : Receiving(e) => Receiving(e)'
    BY <2>1, <2>2, ReceivingKept DEF Announced
  <2>. QED  BY <2>1, <2>3, ToClientKept
<1>3. CASE ReceiveTerminate
  <2>1. linked' = FALSE /\ UNCHANGED <<lost, sources>>
    BY <1>3, PulseRead DEF ReceiveTerminate
  <2>. QED  BY <2>1, ToClientKept
<1>4. CASE SendFails
  <2>1. ~linked /\ UNCHANGED <<linked, lost, sources>>
    BY <1>4 DEF SendFails, serverVars, historyVars
  <2>. QED  BY <2>1, ToClientKept
<1>. QED  BY <1>1, <1>2, <1>3, <1>4

LEMMA ToClientServer ==
  ASSUME ControlInv, ToClientOK,
         ServeInit \/ ServeReceive \/ ServeDisconnect \/ NewConnection \/ ServerRead
           \/ ServerListens \/ UNCHANGED vars
  PROVE  ToClientOK'
<1>. USE DEF clientVars, clientData, threadVars, serverVars, historyVars
<1>1. /\ StateOK /\ ClientOK /\ SourcesOK
      /\ UNCHANGED <<session, buffer, got, pulses, linked, announces, lost>>
  BY DEF ControlInv, ServeInit, ServeReceive, ServeDisconnect, Serves, NewConnection, ServerRead,
         Handles, ServerListens, vars
<1>2. SameRequest
  <2>1. CASE ServeReceive
    <3>1. Awaited(Head(inbox)) /\ Head(inbox).type = "Receive"
      BY <2>1, MessageServed DEF ServeReceive
    <3>2. thread.at = "sending" /\ thread' = [thread EXCEPT !.at = "receiving", !.payload = <<>>]
      BY <2>1, <3>1 DEF Awaited, ServeReceive
    <3>. QED  BY <1>1, <3>2 DEF SameRequest, StateOK, Threads
  <2>2. CASE ~ServeReceive
    <3>1. thread' = thread
      BY <2>2 DEF ServeInit, ServeDisconnect, NewConnection, ServerRead, Handles, ServerListens, vars
    <3>. QED  BY <3>1 DEF SameRequest
  <2>. QED  BY <2>1, <2>2
<1>3. \A s \in Sessions : /\ sources'[s].obuffer = sources[s].obuffer
                          /\ sources'[s].sent = sources[s].sent
  <2>1. sources \in [Sessions -> Sources]
    BY <1>1 DEF StateOK
  <2>2. CASE ServeInit
    <3>1. /\ session \in Sessions
          /\ sources' = [sources EXCEPT ![session] = [NoSource EXCEPT !.known = TRUE]]
      BY <2>2, InitServed
    <3>2. sources[session] = NoSource
      BY <2>2, InitServed
    <3>3. /\ sources'[session].obuffer = NoSource.obuffer
          /\ sources'[session].sent = NoSource.sent
      BY <2>1, <3>1 DEF NoSource
    <3>4. \A s \in Sessions : s # session => sources'[s] = sources[s]
      BY <2>1, <3>1
    <3>. QED  BY <3>2, <3>3, <3>4
  <2>3. CASE ServeReceive
    <3>. DEFINE s == Head(inbox).session
                all == sources[s].buffer \o Head(inbox).payload
                untold == ~sources[s].attached
    <3>1. sources' = [sources EXCEPT ![s].buffer = all, ![s].early = untold]
      BY <2>3 DEF ServeReceive
    <3>. HIDE DEF all, untold, s
    <3>. QED  BY <2>1, <3>1 DEF Sources
  <2>4. CASE ServeDisconnect
    <3>. DEFINE s == Head(inbox).session
    <3>1. sources' = [sources EXCEPT ![s].known = FALSE, ![s].serverClosing = TRUE]
      BY <2>4 DEF ServeDisconnect
    <3>. HIDE DEF s
    <3>. QED  BY <2>1, <3>1 DEF Sources
  <2>5. CASE NewConnection
    <3>. DEFINE s == Head(posted)[2]
    <3>1. sources' = [sources EXCEPT ![s].attached = TRUE]
      BY <2>5 DEF NewConnection
    <3>. HIDE DEF s
    <3>. QED  BY <2>1, <3>1 DEF Sources
  <2>6. CASE ServerRead
    <3>. DEFINE s == Head(posted)[2]
                all == sources[s].got \o sources[s].buffer
    <3>1. sources' = [sources EXCEPT ![s].got = all, ![s].buffer = <<>>]
      BY <2>6 DEF ServerRead
    <3>. HIDE DEF all, s
    <3>. QED  BY <2>1, <3>1 DEF Sources
  <2>7. CASE ServerListens \/ UNCHANGED vars
    BY <2>7 DEF ServerListens, vars
  <2>. QED  BY <2>2, <2>3, <2>4, <2>5, <2>6, <2>7
<1>4. linked' => \A e : Receiving(e) => Receiving(e)'
  <2>1. linked => sources'[session].obuffer = sources[session].obuffer
    BY <1>1, <1>3 DEF ClientOK
  <2>. QED  BY <1>1, <1>2, <2>1, ReceivingKept DEF Announced
<1>. QED  BY <1>1, <1>3, <1>4, ToClientKept

\* One session's source changes.
LEMMA ToClientOne ==
  ASSUME ToClientOK, NEW s \in Sessions, \E e : ToClient(s, e)',
         linked' => linked /\ session' = session, lost \subseteq lost',
         \A t \in Sessions : t # s => sources'[t] = sources[t],
         s # session /\ linked' => \A e : Receiving(e) => Receiving(e)'
  PROVE  ToClientOK'
<1>. SUFFICES ASSUME NEW t \in Sessions, t # s  PROVE \E e : ToClient(t, e)'
  BY DEF ToClientOK
<1>1. PICK e : ToClient(t, e)
  BY DEF ToClientOK
<1>2. sources'[t] = sources[t]
  OBVIOUS
<1>3. t = session' /\ linked' /\ <<"toClient", t>> \notin lost' => Receiving(e)'
  BY <1>1 DEF ToClient
<1>4. ToClient(t, e)'
  BY <1>1, <1>2, <1>3 DEF ToClient, Cut
<1>. QED  BY <1>4

LEMMA ToClientEnds ==
  ASSUME ControlInv, ToClientOK, ServerCloses \/ OnDisconnected  PROVE ToClientOK'
<1>1. \A s \in Sessions : \E e : Cut(<<>>, s, e) /\ e[Len(<<>>)] = 0
  BY CutNothing
<1>2. CASE ServerCloses
  <2>1. linked' = FALSE /\ \A s \in Sessions : sources'[s] = NoSource
    BY <1>2 DEF ServerCloses
  <2>2. ASSUME NEW s \in Sessions  PROVE \E e : ToClient(s, e)'
    <3>1. PICK e : Cut(<<>>, s, e) /\ e[Len(<<>>)] = 0
      BY <1>1
    <3>2. sources'[s].obuffer = <<>> /\ sources'[s].sent = 0
      BY <2>1 DEF NoSource
    <3>3. ToClient(s, e)'
      BY <2>1, <3>1, <3>2 DEF ToClient, Cut
    <3>. QED  BY <3>3
  <2>. QED  BY <2>2 DEF ToClientOK
<1>3. CASE OnDisconnected
  <2>1. Handles("onDisconnected")
    BY <1>3 DEF OnDisconnected
  <2>. PICK s \in Sessions : s = Head(posted)[2]
    BY <2>1, EventHandled
  <2>2. /\ StateOK /\ ClientOK /\ (linked => s # session)
        /\ UNCHANGED <<session, buffer, got, thread, pulses, linked, announces, lost>>
    BY <2>1, EventHandled DEF ControlInv
  <2>3. /\ sources'[s] = NoSource /\ \A t \in Sessions : t # s => sources'[t] = sources[t]
    <3>1. sources' = [sources EXCEPT ![s] = NoSource]
      BY <1>3 DEF OnDisconnected
    <3>. QED  BY <2>2, <3>1 DEF StateOK
  <2>4. \E e : ToClient(s, e)'
    <3>1. PICK e : Cut(<<>>, s, e) /\ e[Len(<<>>)] = 0
      BY <1>1, <2>2
    <3>2. sources'[s].obuffer = <<>> /\ sources'[s].sent = 0
      BY <2>3 DEF NoSource
    <3>3. ~(s = session' /\ linked')
      BY <2>2
    <3>4. ToClient(s, e)'
      BY <3>1, <3>2, <3>3 DEF ToClient, Cut
    <3>. QED  BY <3>4
  <2>5. ASSUME NEW t \in Sessions, t # s  PROVE \E e : ToClient(t, e)'
    <3>1. PICK e : ToClient(t, e)
      BY DEF ToClientOK
    <3>2. sources'[t] = sources[t]
      BY <2>3, <2>5
    <3>3. t = session /\ Receiving(e) => Receiving(e)'
      <4>1. SameRequest
        BY <2>2 DEF SameRequest
      <4>. QED  BY <2>2, <3>2, <4>1, ReceivingKept DEF Announced
    <3>4. t = session' /\ linked' /\ <<"toClient", t>> \notin lost' => Receiving(e)'
      BY <2>2, <3>1, <3>3 DEF ToClient
    <3>5. ToClient(t, e)'
      BY <3>1, <3>2, <3>4 DEF ToClient, Cut
    <3>. QED  BY <3>5
  <2>. QED  BY <2>4, <2>5 DEF ToClientOK
<1>. QED  BY <1>2, <1>3

LEMMA ToClientConnect ==
  ASSUME ControlInv, ToClientOK, ConnectToServer  PROVE ToClientOK'
<1>1. /\ TypeOK /\ StateOK /\ SourcesOK /\ state = "Unconnected"
      /\ session' = session + 1 /\ session' \in Sessions /\ session \in Nat
      /\ thread' = [NoThread EXCEPT !.at = "receiving"] /\ pulses' = pulses
      /\ got' = <<>> /\ buffer' = buffer
      /\ UNCHANGED <<announces, sources, lost>>
  BY BoundsAreNaturals
  DEF ControlInv, ConnectToServer, Connectable, TypeOK, Sessions, historyVars
<1>2. buffer' = <<>> /\ pulses' = <<>>
  BY <1>1 DEF TypeOK
<1>3. sources'[session'] = NoSource /\ announces'[1] # session'
  BY <1>1 DEF SourcesOK, Unborn
<1>4. \E e : ToClient(session, e)'
  <2>1. PICK e : Cut(<<>>, session', e) /\ e[Len(<<>>)] = 0 /\ e[0] = 0
    BY <1>1, CutNothing
  <2>2. sources'[session'].obuffer = <<>> /\ sources'[session'].sent = 0
    BY <1>3 DEF NoSource
  <2>3. Receiving(e)'
    <3>1. got' \o buffer' = Chunk(session', 0, e[0])
      BY <1>1, <1>2, <2>1 DEF Chunk
    <3>2. thread'.at = "receiving" /\ thread'.ignore = 0
      BY <1>1 DEF NoThread
    <3>3. Announced' = <<>> /\ Asked' = 0
      BY <1>3, <3>2 DEF Announced, Asked
    <3>4. <<>> \in Seq(Nat) /\ Lens(pulses', "TxRequest", <<>>)
      BY <1>2, LensNothing
    <3>5. Owes(<<>>, 0, <<>>, 0)
      BY DEF Owes
    <3>6. <<>> \o Announced' = <<>>
      BY <3>3
    <3>7. \E t \in Seq(Nat) : /\ Lens(pulses', "TxRequest", t)
                              /\ Owes(t \o Announced', thread'.ignore,
                                      sources'[session'].obuffer, Asked')
      BY <2>2, <3>2, <3>3, <3>4, <3>5, <3>6
    <3>. QED  BY <3>1, <3>2, <3>7 DEF Receiving
  <2>4. ToClient(session, e)'
    BY <2>1, <2>2, <2>3 DEF ToClient, Cut
  <2>. QED  BY <2>4
<1>5. ASSUME NEW t \in Sessions, t # session'  PROVE \E e : ToClient(t, e)'
  <2>1. PICK e : ToClient(t, e)
    BY DEF ToClientOK
  <2>2. sources'[t] = sources[t]
    BY <1>1
  <2>3. ToClient(t, e)'
    BY <1>5, <2>1, <2>2 DEF ToClient, Cut
  <2>. QED  BY <2>3
<1>. QED  BY <1>4, <1>5 DEF ToClientOK

LEMMA ToClientWrite ==
  ASSUME ControlInv, ToClientOK, NEW s \in Sessions, NEW n \in Lengths, ServerWrite(s, n)
  PROVE  ToClientOK'
<1>. DEFINE chunks == sources[s].obuffer
            total == sources[s].sent
            chunk == Chunk(s, total, n)
<1>1. /\ StateOK /\ ClientOK /\ n \in Nat \ {0} /\ announces = <<0, 0>> /\ announces' = <<s, n>>
      /\ sources' = [sources EXCEPT ![s].obuffer = Append(@, chunk), ![s].sent = @ + n]
      /\ UNCHANGED <<session, buffer, got, thread, pulses, linked, lost>>
  BY LengthsArePositive
  DEF ServerWrite, NotAnnouncing, ControlInv, clientVars, clientData, threadVars
<1>2. PICK e : ToClient(s, e)
  BY DEF ToClientOK
<1>3. /\ chunks \in Seq(ByteStreams) /\ total \in Nat /\ chunk \in ByteStreams /\ Len(chunk) = n
      /\ Cut(chunks, s, e) /\ e[Len(chunks)] = total
  <2>1. chunks \in Seq(ByteStreams) /\ total \in Nat
    BY <1>1 DEF StateOK, Sources
  <2>2. chunk \in ByteStreams /\ Len(chunk) = n
    BY <1>1, <2>1, ChunkType
  <2>. QED  BY <1>2, <2>1, <2>2 DEF ToClient
<1>4. /\ sources'[s].obuffer = Append(chunks, chunk) /\ sources'[s].sent = total + n
      /\ \A t \in Sessions : t # s => sources'[t] = sources[t]
  BY <1>1 DEF StateOK, Sources
<1>5. PICK f : /\ Cut(Append(chunks, chunk), s, f)
               /\ f[Len(Append(chunks, chunk))] = total + n
               /\ \A i \in 0..Len(chunks) : f[i] = e[i]
  <2>1. chunk = Chunk(s, e[Len(chunks)], n)
    BY <1>3
  <2>. HIDE DEF chunks, total, chunk
  <2>. QED  BY <1>1, <1>3, <2>1, CutMore
<1>6. ASSUME s = session', linked', <<"toClient", s>> \notin lost'  PROVE Receiving(f)'
  <2>1. Receiving(e) /\ s = session
    BY <1>1, <1>2, <1>6 DEF ToClient
  <2>2. Announced = <<>> /\ Announced' = <<n>>
    BY <1>1, <2>1 DEF Announced, Sessions
  <2>3. PICK t \in Seq(Nat) : /\ Lens(pulses, "TxRequest", t)
                              /\ Owes(t \o Announced, thread.ignore, chunks, Asked)
    BY <2>1 DEF Receiving
  <2>4. t \o Announced = t /\ t \o Announced' = Append(t, n)
    BY <1>1, <2>2, ConcatEmptySeq, AppendIsConcat
  <2>5. /\ thread.at = "responding" => chunks # <<>> /\ thread.want = Len(chunks[1])
        /\ thread.at \in {"responding", "left", "repeating"} => thread.ignore = 0
        /\ thread.at \in {"left", "repeating"} =>
             \E k \in 1..Len(chunks) : thread.want = e[k] - e[0]
        /\ got \o buffer = Chunk(session, 0, e[0])
    BY <2>1 DEF Receiving
  <2>. HIDE DEF chunks, total, chunk
  <2>6. /\ Len(chunks) \in Nat /\ Len(Append(chunks, chunk)) = Len(chunks) + 1
        /\ \A i \in 1..Len(chunks) : Append(chunks, chunk)[i] = chunks[i]
        /\ Append(chunks, chunk) # <<>>
        /\ chunks # <<>> => 1 \in 1..Len(chunks)
    BY <1>3, LenProperties, AppendProperties, EmptySeq
  <2>7. Owes(Append(t, n), thread.ignore, Append(chunks, chunk), Asked)
    <3>1. thread.ignore \in Nat /\ Asked \in {0, 1}
      BY <1>1, BoundsAreNaturals DEF Asked, StateOK, Threads
    <3>2. Asked <= Len(chunks)
      BY <2>5, <2>6 DEF Asked
    <3>3. Owes(t, thread.ignore, chunks, Asked)
      BY <2>3, <2>4
    <3>. QED  BY <1>1, <1>3, <3>1, <3>2, <3>3, OwesMore
  <2>8. sources'[session'].obuffer = Append(chunks, chunk)
    BY <1>1, <1>4, <2>1
  <2>9. /\ f[0] = e[0] /\ \A k \in 1..Len(chunks) : f[k] = e[k] /\ k \in 1..Len(chunks) + 1
    <3>1. 0 \in 0..Len(chunks) /\ \A k \in 1..Len(chunks) : k \in 0..Len(chunks)
      BY <2>6
    <3>. QED  BY <1>5, <2>6, <3>1
  <2>10. got' \o buffer' = Chunk(session', 0, f[0])
    BY <1>1, <2>5, <2>9
  <2>11. /\ thread'.at = "responding" => /\ sources'[session'].obuffer # <<>>
                                         /\ thread'.want = Len(sources'[session'].obuffer[1])
         /\ thread'.at \in {"responding", "left", "repeating"} => thread'.ignore = 0
    BY <1>1, <2>5, <2>6, <2>8
  <2>12. thread'.at \in {"left", "repeating"} =>
           \E k \in 1..Len(sources'[session'].obuffer) : thread'.want = f[k] - f[0]
    BY <1>1, <2>5, <2>6, <2>8, <2>9
  <2>13. \E u \in Seq(Nat) : /\ Lens(pulses', "TxRequest", u)
                             /\ Owes(u \o Announced', thread'.ignore,
                                     sources'[session'].obuffer, Asked')
    <3>1. Asked' = Asked
      BY <1>1 DEF Asked
    <3>2. Owes(t \o Announced', thread'.ignore, sources'[session'].obuffer, Asked')
      BY <1>1, <2>4, <2>7, <2>8, <3>1
    <3>. QED  BY <1>1, <2>3, <3>2
  <2>. QED  BY <2>10, <2>11, <2>12, <2>13 DEF Receiving
<1>7. \E g : ToClient(s, g)'
  <2>1. ToClient(s, f)'
    <3>1. Cut(sources'[s].obuffer, s, f) /\ f[Len(sources'[s].obuffer)] = sources'[s].sent
      BY <1>4, <1>5
    <3>. QED  BY <1>6, <3>1 DEF ToClient, Cut
  <2>. QED  BY <2>1
<1>8. s # session /\ linked' => \A g : Receiving(g) => Receiving(g)'
  <2>. SUFFICES ASSUME s # session, linked', NEW g, Receiving(g)  PROVE Receiving(g)'
    OBVIOUS
  <2>1. session \in Sessions /\ session # 0
    BY <1>1 DEF ClientOK, Sessions
  <2>2. Announced' = Announced /\ SameRequest
    BY <1>1, <2>1 DEF Announced, SameRequest
  <2>3. sources'[session] = sources[session]
    BY <1>4, <2>1
  <2>. QED  BY <1>1, <2>2, <2>3, ReceivingKept
<1>. QED  BY <1>1, <1>4, <1>7, <1>8, ToClientOne

LEMMA ToClientPulse ==
  ASSUME ControlInv, ToClientOK, ServerPulse  PROVE ToClientOK'
<1>. DEFINE pulse == Pulse("TxRequest", announces[2])
<1>1. /\ StateOK /\ ClientOK /\ SourcesOK /\ announces \in Sessions \X Lengths
      /\ announces[2] \in Nat /\ announces' = <<0, 0>>
      /\ UNCHANGED <<session, clientAt, buffer, got, thread, linked, sources>> /\ lost \subseteq lost'
  BY LengthsArePositive
  DEF ControlInv, ServerPulse, NotAnnouncing, StateOK, clientVars, clientData
<1>2. ASSUME linked', <<"toClient", session>> \notin lost', NEW e, Receiving(e)
      PROVE  Receiving(e)'
  <2>1. session \in Sessions /\ session # 0 /\ thread.at # "none"
    BY <1>1, <1>2 DEF ClientOK, Sessions
  <2>2. SameRequest /\ Announced' = <<>>
    BY <1>1, <2>1 DEF SameRequest, Announced
  <2>3. CASE announces[1] # session
    <3>1. pulses' = pulses /\ Announced = <<>>
      BY <2>3 DEF ServerPulse, Reachable, Announced
    <3>. QED  BY <1>1, <1>2, <2>2, <3>1, ReceivingKept
  <2>4. CASE announces[1] = session
    <3>1. ~sources[session].serverClosing
      <4>1. ~Unborn(session)
        BY <1>1, <2>1, <2>4 DEF SourcesOK
      <4>. QED  BY <1>1, <1>2, <2>1, <4>1 DEF SourcesOK, Unborn
    <3>2. pulses' = Append(pulses, pulse)
      BY <1>2, <2>1, <2>4, <3>1 DEF ServerPulse, Reachable
    <3>3. PICK t \in Seq(Nat) :
            /\ Lens(pulses, "TxRequest", t)
            /\ Owes(t \o Announced, thread.ignore, sources[session].obuffer, Asked)
      BY <1>2 DEF Receiving
    <3>. DEFINE u == Append(t, announces[2])
    <3>4. Lens(pulses', "TxRequest", u) /\ u \in Seq(Nat)
      <4>1. pulse \in Pulses /\ pulse.code = "TxRequest" /\ pulse.len = announces[2]
        BY <1>1 DEF Pulse, Pulses
      <4>. HIDE DEF pulse
      <4>2. Lens(Append(pulses, pulse), "TxRequest", Append(t, pulse.len))
        BY <1>1, <3>3, <4>1, LensMore DEF StateOK
      <4>. QED  BY <1>1, <3>2, <4>1, <4>2, AppendProperties
    <3>5. t \o Announced = u /\ u \o Announced' = u
      <4>1. Announced = <<announces[2]>>
        BY <2>4 DEF Announced
      <4>2. u = t \o <<announces[2]>>
        BY <1>1, AppendIsConcat
      <4>. HIDE DEF u
      <4>. QED  BY <2>2, <3>4, <4>1, <4>2, ConcatEmptySeq
    <3>. HIDE DEF u
    <3>6. Owes(u \o Announced', thread'.ignore, sources'[session'].obuffer, Asked')
      <4>1. Asked' = Asked
        BY <1>1 DEF Asked
      <4>. QED  BY <1>1, <3>3, <3>5, <4>1
    <3>7. \E v \in Seq(Nat) : /\ Lens(pulses', "TxRequest", v)
                              /\ Owes(v \o Announced', thread'.ignore,
                                      sources'[session'].obuffer, Asked')
      BY <3>4, <3>6
    <3>. QED  BY <1>1, <1>2, <3>7 DEF Receiving
  <2>. QED  BY <2>3, <2>4
<1>. QED  BY <1>1, <1>2, ToClientKept

LEMMA ToClientRequest ==
  ASSUME ControlInv, ToClientOK, ReceiveTxRequest  PROVE ToClientOK'
<1>. DEFINE chunks == sources[session].obuffer
            len == Head(pulses).len
<1>1. Receives("TxRequest")
  BY DEF ReceiveTxRequest
<1>2. /\ StateOK /\ thread.at = "receiving" /\ pulses # <<>> /\ session \in Sessions
      /\ Head(pulses).code = "TxRequest" /\ pulses' = Tail(pulses)
      /\ UNCHANGED <<session, buffer, got, announces, sources, lost>>
  BY <1>1, PulseRead
<1>3. linked' = linked
  BY DEF ReceiveTxRequest
<1>4. /\ pulses \in Seq(Pulses) /\ thread.ignore \in Nat /\ chunks \in Seq(ByteStreams)
      /\ announces \in {<<0, 0>>} \cup (Sessions \X Lengths)
  BY <1>2, BoundsAreNaturals DEF StateOK, Threads, Sources
<1>5. ASSUME NEW e, Receiving(e)  PROVE Receiving(e)'
  <2>1. PICK t \in Seq(Nat) : /\ Lens(pulses, "TxRequest", t)
                              /\ Owes(t \o Announced, thread.ignore, chunks, Asked)
    BY <1>5 DEF Receiving
  <2>2. /\ t # <<>> /\ t[1] = len /\ Lens(Tail(pulses), "TxRequest", Tail(t))
        /\ Tail(t) \in Seq(Nat)
    BY <1>2, <1>4, <2>1, LensFirst, HeadAndTail
  <2>3. Announced \in Seq(Nat) /\ Announced' = Announced /\ Asked = 0
    <3>1. Announced' = Announced /\ Asked = 0
      BY <1>2 DEF Announced, Asked
    <3>. QED  BY <1>2, <3>1, AnnouncedType
  <2>. DEFINE u == t \o Announced
  <2>4. /\ u \in Seq(Nat) /\ u # <<>> /\ u[1] = len /\ Tail(u) = Tail(t) \o Announced
        /\ Owes(u, thread.ignore, chunks, 0)
    BY <2>1, <2>2, <2>3, TailThenMore, ConcatProperties
  <2>. HIDE DEF u, chunks
  <2>5. chunks' = chunks /\ got' \o buffer' = got \o buffer
    BY <1>2 DEF chunks
  <2>6. got \o buffer = Chunk(session, 0, e[0])
    BY <1>5 DEF Receiving
  <2>7. CASE thread.ignore > 0
    <3>1. thread'.at = "receiving" /\ thread'.ignore = thread.ignore - 1
      BY <1>2, <2>7 DEF ReceiveTxRequest, StateOK, Threads
    <3>2. Owes(Tail(u), thread.ignore - 1, chunks, 0)
      BY <1>4, <2>4, <2>7, OwesIgnored
    <3>3. Asked' = 0
      BY <3>1 DEF Asked
    <3>4. \E v \in Seq(Nat) : /\ Lens(pulses', "TxRequest", v)
                              /\ Owes(v \o Announced', thread'.ignore, chunks', Asked')
      BY <1>2, <2>2, <2>3, <2>4, <2>5, <3>1, <3>2, <3>3
    <3>. QED  BY <1>2, <2>5, <2>6, <3>1, <3>4 DEF Receiving, chunks
  <2>8. CASE ~(thread.ignore > 0)
    <3>1. thread'.at = "responding" /\ thread'.want = len /\ thread'.ignore = 0 /\ thread.ignore = 0
      <4>1. thread.ignore = 0 /\ thread \in Threads
        BY <1>2, <1>4, <2>8 DEF StateOK
      <4>2. thread' = [thread EXCEPT !.at = "responding", !.want = len]
        BY <2>8 DEF ReceiveTxRequest
      <4>. QED  BY <4>1, <4>2 DEF Threads
    <3>2. chunks # <<>> /\ u[1] = Len(chunks[1]) /\ Owes(Tail(u), 0, chunks, 1)
      BY <1>4, <2>4, <3>1, OwesAsked
    <3>3. Asked' = 1
      BY <3>1 DEF Asked
    <3>4. \E v \in Seq(Nat) : /\ Lens(pulses', "TxRequest", v)
                              /\ Owes(v \o Announced', thread'.ignore, chunks', Asked')
      BY <1>2, <2>2, <2>3, <2>4, <2>5, <3>1, <3>2, <3>3
    <3>5. chunks' # <<>> /\ thread'.want = Len(chunks'[1])
      BY <2>4, <2>5, <3>1, <3>2
    <3>. QED  BY <1>2, <2>5, <2>6, <3>1, <3>4, <3>5 DEF Receiving, chunks
  <2>. QED  BY <2>7, <2>8
<1>. QED  BY <1>2, <1>3, <1>5, ToClientKept

LEMMA ToClientRespond ==
  ASSUME ControlInv, ToClientOK, ServeRespond  PROVE ToClientOK'
<1>1. Serves("Respond") /\ Head(inbox).type = "Respond"
  BY DEF ServeRespond, Serves
<1>2. /\ TypeOK /\ StateOK /\ Awaited(Head(inbox)) /\ linked /\ Head(inbox).session = session
      /\ session \in Sessions
      /\ UNCHANGED <<session, got, pulses, linked, announces, lost>>
  BY <1>1, MessageServed
<1>3. PICK s \in Sessions : s = session
  BY <1>2
<1>. DEFINE chunks == sources[s].obuffer
            rest == Rest(chunks)
            left == Len(Bytes(rest))
<1>4. thread.at = "responding" /\ Head(inbox).len = thread.want
  BY <1>1, <1>2 DEF Awaited
<1>5. /\ sources' = [sources EXCEPT ![s].obuffer = rest]
      /\ buffer' = buffer \o Fit(First(chunks), thread.want)
      /\ thread' = [thread EXCEPT !.at = IF left = 0 THEN "receiving" ELSE "left",
                                  !.want = left]
  BY <1>2, <1>3, <1>4 DEF ServeRespond
<1>6. /\ chunks \in Seq(ByteStreams) /\ sources'[s].obuffer = rest
      /\ sources'[s].sent = sources[s].sent
      /\ \A t \in Sessions : t # s => sources'[t] = sources[t]
      /\ thread \in Threads
  BY <1>2, <1>5 DEF StateOK, Sources
<1>7. PICK e : ToClient(s, e)
  BY DEF ToClientOK
<1>8. Cut(chunks, s, e) /\ e[Len(chunks)] = sources[s].sent
  BY <1>7 DEF ToClient
<1>9. left \in Nat
  BY <1>2, PartsType
<1>. HIDE DEF left, rest, chunks
<1>10. CASE chunks = <<>>
  <2>1. rest = chunks
    BY <1>10 DEF Rest, rest
  <2>2. ~(<<"toClient", s>> \notin lost)
    <3>1. <<"toClient", s>> \notin lost => chunks # <<>>
      BY <1>2, <1>3, <1>4, <1>7 DEF ToClient, Receiving, chunks
    <3>. QED  BY <1>10, <3>1
  <2>3. ToClient(s, e)'
    <3>1. Cut(sources'[s].obuffer, s, e) /\ e[Len(sources'[s].obuffer)] = sources'[s].sent
      BY <1>6, <1>8, <2>1
    <3>. QED  BY <1>2, <2>2, <3>1 DEF ToClient, Cut
  <2>. QED  BY <1>2, <1>3, <1>6, <2>3, ToClientOne
<1>11. CASE chunks # <<>>
  <2>1. /\ rest = SubSeq(chunks, 2, Len(chunks)) /\ First(chunks) = chunks[1]
        /\ 1 \in 0..Len(chunks) /\ 1 \in 1..Len(chunks) /\ Len(chunks) \in Nat
    BY <1>6, <1>11, RestIsPart, LenProperties DEF rest
  <2>2. /\ rest \in Seq(ByteStreams) /\ Len(rest) = Len(chunks) - 1
        /\ \A i \in 1..Len(chunks) - 1 : rest[i] = chunks[i + 1]
        /\ \E f : /\ Cut(rest, s, f) /\ f[Len(rest)] = e[Len(chunks)]
                  /\ \A i \in 0..Len(rest) : f[i] = e[i + 1]
    <3>. DEFINE part == SubSeq(chunks, 1 + 1, Len(chunks))
    <3>1. /\ part \in Seq(ByteStreams) /\ Len(part) = Len(chunks) - 1
          /\ \A i \in 1..Len(chunks) - 1 : part[i] = chunks[i + 1]
          /\ \E f : /\ Cut(part, s, f) /\ f[Len(part)] = e[Len(chunks)]
                    /\ \A i \in 0..Len(part) : f[i] = e[i + 1]
      BY <1>6, <1>8, <2>1, CutRest
    <3>2. rest = part
      BY <2>1
    <3>. HIDE DEF part
    <3>. QED  BY <3>1, <3>2
  <2>3. PICK f : /\ Cut(rest, s, f) /\ f[Len(rest)] = e[Len(chunks)]
                 /\ \A i \in 0..Len(rest) : f[i] = e[i + 1]
    BY <2>2
  <2>4. f[0] = e[1]
    <3>1. 0 \in 0..Len(rest) /\ 0 + 1 = 1
      BY <2>1, <2>2
    <3>. QED  BY <2>3, <3>1
  <2>5. ASSUME <<"toClient", s>> \notin lost'  PROVE Receiving(f)'
    <3>1. Receiving(e)
      BY <1>2, <1>3, <1>7, <2>5 DEF ToClient
    <3>2. /\ got \o buffer = Chunk(s, 0, e[0]) /\ thread.ignore = 0
          /\ thread.want = Len(chunks[1])
      BY <1>3, <1>4, <3>1 DEF Receiving, chunks
    <3>3. PICK t \in Seq(Nat) : /\ Lens(pulses, "TxRequest", t)
                                /\ Owes(t \o Announced, 0, chunks, 1)
      BY <1>3, <1>4, <3>1, <3>2 DEF Receiving, chunks, Asked
    <3>4. got' \o buffer' = Chunk(s, 0, f[0])
      <4>1. /\ e[0] \in Nat /\ e[1] - e[0] \in Nat /\ chunks[1] \in ByteStreams
            /\ chunks[1] = Chunk(s, e[0], e[1] - e[0]) /\ e[1] \in Nat
        <5>1. 1 - 1 = 0
          OBVIOUS
        <5>. QED  BY <1>6, <1>8, <2>1, <5>1, CutType
      <4>2. buffer' = buffer \o chunks[1] /\ got' = got
        BY <1>2, <1>5, <2>1, <3>2, <4>1, FitsAll
      <4>3. got \o (buffer \o chunks[1]) = (got \o buffer) \o chunks[1]
        BY <1>2, <4>1, StreamsJoin DEF TypeOK
      <4>4. PICK m \in Nat, n \in Nat : m = e[0] /\ n = e[1] - e[0]
        BY <4>1
      <4>5. m + n = e[1] /\ 0 + m = m /\ 0 \in Nat
        BY <4>1, <4>4
      <4>6. Chunk(s, 0, m) \o Chunk(s, 0 + m, n) = Chunk(s, 0, m + n)
        BY ChunkOn
      <4>. QED  BY <2>4, <3>2, <4>1, <4>2, <4>3, <4>4, <4>5, <4>6
    <3>5. Owes(t \o Announced, 0, rest, 0)
      <4>1. t \o Announced \in Seq(Nat)
        <5>1. Announced \in Seq(Nat)
          BY <1>2, AnnouncedType
        <5>. QED  BY <5>1, ConcatProperties
      <4>. QED  BY <1>6, <1>11, <2>2, <3>3, <4>1, OwesRead
    <3>6. /\ thread'.at \in {"receiving", "left"} /\ thread'.ignore = 0
          /\ thread'.at = "left" => left # 0 /\ thread'.want = left
      BY <1>5, <1>6, <3>2 DEF Threads
    <3>7. left # 0 => \E k \in 1..Len(rest) : left = f[k] - f[0]
      <4>. SUFFICES ASSUME left # 0  PROVE \E k \in 1..Len(rest) : left = f[k] - f[0]
        OBVIOUS
      <4>1. Bytes(rest) = Chunk(s, f[0], f[Len(rest)] - f[0])
        BY <2>2, <2>3, CutBytes
      <4>2. f[0] \in Nat /\ f[Len(rest)] \in Nat /\ Len(rest) \in Nat
        BY <2>2, <2>3, CutType
      <4>3. Len(rest) # 0
        <5>. SUFFICES ASSUME Len(rest) = 0  PROVE FALSE
          OBVIOUS
        <5>1. f[Len(rest)] - f[0] = 0
          BY <4>2
        <5>2. Len(Chunk(s, f[0], 0)) = 0
          BY <4>2, ChunkType
        <5>. QED  BY <4>1, <5>1, <5>2 DEF left
      <4>4. 0 \in 0..Len(rest) /\ Len(rest) \in 0..Len(rest) /\ 0 < Len(rest)
        BY <4>2, <4>3
      <4>5. f[0] < f[Len(rest)]
        BY <2>2, <2>3, <4>4, CutRises
      <4>6. PICK a \in Nat, n \in Nat : a = f[0] /\ n = f[Len(rest)] - f[0]
        BY <4>2, <4>5
      <4>7. Bytes(rest) = Chunk(s, a, n) /\ Len(Chunk(s, a, n)) = n
        BY <4>1, <4>6, ChunkType
      <4>. QED  BY <4>2, <4>3, <4>6, <4>7 DEF left
    <3>8. Announced' = Announced /\ Asked' = 0
      BY <1>2, <3>6 DEF Announced, Asked
    <3>9. session' = s /\ sources'[session'].obuffer = rest
      BY <1>2, <1>3, <1>6
    <3>10. \E u \in Seq(Nat) : /\ Lens(pulses', "TxRequest", u)
                               /\ Owes(u \o Announced', thread'.ignore,
                                       sources'[session'].obuffer, Asked')
      BY <1>2, <3>3, <3>5, <3>6, <3>8, <3>9
    <3>. QED  BY <3>4, <3>6, <3>7, <3>9, <3>10 DEF Receiving
  <2>6. ToClient(s, f)'
    <3>1. Cut(sources'[s].obuffer, s, f) /\ f[Len(sources'[s].obuffer)] = sources'[s].sent
      BY <1>6, <1>8, <2>3
    <3>. QED  BY <2>5, <3>1 DEF ToClient, Cut
  <2>. QED  BY <1>2, <1>3, <1>6, <2>6, ToClientOne
<1>. QED  BY <1>10, <1>11

LEMMA ToClientRepeat ==
  ASSUME ControlInv, ToClientOK, ServeRepeat  PROVE ToClientOK'
<1>1. Serves("Repeat") /\ Head(inbox).type = "Repeat"
  BY DEF ServeRepeat, Serves
<1>2. /\ TypeOK /\ StateOK /\ Awaited(Head(inbox)) /\ linked /\ Head(inbox).session = session
      /\ session \in Sessions
      /\ UNCHANGED <<session, got, pulses, linked, announces, lost>>
  BY <1>1, MessageServed
<1>3. PICK s \in Sessions : s = session
  BY <1>2
<1>. DEFINE chunks == sources[s].obuffer
            n == Reads(chunks, thread.want)
            taken == SubSeq(chunks, 1, Min({n, Len(chunks)}))
            rest == SubSeq(chunks, Len(taken) + 1, Len(chunks))
<1>4. thread.at = "repeating" /\ Head(inbox).len = thread.want
  BY <1>1, <1>2 DEF Awaited
<1>5. /\ sources' = [sources EXCEPT ![s].obuffer = rest]
      /\ buffer' = buffer \o Fit(Bytes(taken), thread.want)
      /\ thread' = [thread EXCEPT !.at = "receiving", !.want = 0, !.ignore = n]
  BY <1>2, <1>3, <1>4 DEF ServeRepeat
<1>6. /\ chunks \in Seq(ByteStreams) /\ sources'[s].obuffer = rest
      /\ sources'[s].sent = sources[s].sent
      /\ \A t \in Sessions : t # s => sources'[t] = sources[t]
      /\ thread \in Threads
  <2>1. chunks \in Seq(ByteStreams) /\ thread \in Threads
    BY <1>2 DEF StateOK, Sources
  <2>. HIDE DEF rest
  <2>. QED  BY <1>2, <1>5, <2>1 DEF StateOK, Sources
<1>7. PICK e : ToClient(s, e)
  BY DEF ToClientOK
<1>8. Cut(chunks, s, e) /\ e[Len(chunks)] = sources[s].sent
  BY <1>7 DEF ToClient
<1>9. Len(chunks) \in Nat /\ n \in 0..Len(chunks) + 1
  BY <1>6, ReadsType, LenProperties
<1>. HIDE DEF chunks, n
<1>10. PICK k \in 0..Len(chunks) : k = Min({n, Len(chunks)}) /\ (n <= Len(chunks) => k = n)
  <2>1. n \in Nat
    BY <1>9
  <2>2. Min({n, Len(chunks)}) = IF n <= Len(chunks) THEN n ELSE Len(chunks)
    BY <1>9, <2>1, MinOfTwo
  <2>. QED  BY <1>9, <2>1, <2>2
<1>11. taken = SubSeq(chunks, 1, k) /\ Len(taken) = k /\ rest = SubSeq(chunks, k + 1, Len(chunks))
  <2>1. Len(SubSeq(chunks, 1, k)) = k
    BY <1>2, PartsType DEF chunks
  <2>. QED  BY <1>10, <2>1
<1>. HIDE DEF taken, rest
<1>12. /\ rest \in Seq(ByteStreams) /\ Len(rest) = Len(chunks) - k
       /\ \A i \in 1..Len(chunks) - k : rest[i] = chunks[i + k]
       /\ \E f : /\ Cut(rest, s, f) /\ f[Len(rest)] = e[Len(chunks)]
                 /\ \A i \in 0..Len(rest) : f[i] = e[i + k]
  <2>. DEFINE part == SubSeq(chunks, k + 1, Len(chunks))
  <2>1. /\ part \in Seq(ByteStreams) /\ Len(part) = Len(chunks) - k
        /\ \A i \in 1..Len(chunks) - k : part[i] = chunks[i + k]
        /\ \E f : /\ Cut(part, s, f) /\ f[Len(part)] = e[Len(chunks)]
                  /\ \A i \in 0..Len(part) : f[i] = e[i + k]
    BY <1>6, <1>8, CutRest
  <2>2. rest = part
    BY <1>11
  <2>. HIDE DEF part
  <2>. QED  BY <2>1, <2>2
<1>13. PICK f : /\ Cut(rest, s, f) /\ f[Len(rest)] = e[Len(chunks)]
                /\ \A i \in 0..Len(rest) : f[i] = e[i + k]
  BY <1>12
<1>14. f[0] = e[k]
  <2>1. 0 \in 0..Len(rest) /\ 0 + k = k
    BY <1>9, <1>12
  <2>. QED  BY <1>13, <2>1
<1>15. ASSUME <<"toClient", s>> \notin lost'  PROVE Receiving(f)'
  <2>1. Receiving(e)
    BY <1>2, <1>3, <1>7, <1>15 DEF ToClient
  <2>2. /\ got \o buffer = Chunk(s, 0, e[0]) /\ thread.ignore = 0
        /\ \E j \in 1..Len(chunks) : thread.want = e[j] - e[0]
    BY <1>3, <1>4, <2>1 DEF Receiving, chunks
  <2>3. n = k /\ thread.want = e[k] - e[0] /\ k # 0
    <3>1. PICK j \in 1..Len(chunks) : thread.want = e[j] - e[0]
      BY <2>2
    <3>2. Reads(chunks, e[j] - e[0]) = j
      BY <1>6, <1>8, <1>9, <3>1, ReadsExactly
    <3>3. n = j
      BY <3>1, <3>2 DEF n
    <3>. QED  BY <1>9, <1>10, <3>1, <3>3
  <2>4. PICK t \in Seq(Nat) : /\ Lens(pulses, "TxRequest", t)
                              /\ Owes(t \o Announced, 0, chunks, 0)
    <3>1. Asked = 0
      BY <1>4 DEF Asked
    <3>. QED  BY <1>3, <1>4, <2>1, <2>2, <3>1 DEF Receiving, chunks
  <2>5. got' \o buffer' = Chunk(s, 0, f[0])
    <3>1. PICK a \in Nat, m \in Nat : a = e[0] /\ m = e[k] - e[0]
      <4>1. 0 \in 0..Len(chunks) /\ 0 < k
        BY <1>9, <2>3
      <4>2. e[0] < e[k] /\ e[0] \in Nat /\ e[k] \in Nat
        BY <1>6, <1>8, <4>1, CutRises, CutType
      <4>. QED  BY <4>2
    <3>2. a + m = e[k] /\ 0 + a = a /\ 0 \in Nat
      <4>1. e[0] \in Nat /\ e[k] \in Nat
        BY <1>6, <1>8, <1>9, CutType
      <4>. QED  BY <3>1, <4>1
    <3>3. Bytes(taken) = Chunk(s, a, m)
      BY <1>6, <1>8, <1>11, <3>1, CutFirst
    <3>4. Chunk(s, a, m) \in ByteStreams /\ Len(Chunk(s, a, m)) = m
      BY ChunkType
    <3>5. buffer' = buffer \o Chunk(s, a, m) /\ got' = got
      <4>1. Fit(Chunk(s, a, m), m) = Chunk(s, a, m)
        BY <3>4, FitsAll
      <4>. QED  BY <1>2, <1>5, <2>3, <3>1, <3>3, <4>1
    <3>6. got \o (buffer \o Chunk(s, a, m)) = (got \o buffer) \o Chunk(s, a, m)
      BY <1>2, <3>4, StreamsJoin DEF TypeOK
    <3>7. Chunk(s, 0, a) \o Chunk(s, 0 + a, m) = Chunk(s, 0, a + m)
      BY ChunkOn
    <3>. QED  BY <1>14, <2>2, <3>1, <3>2, <3>5, <3>6, <3>7
  <2>6. Owes(t \o Announced, k, rest, 0)
    <3>1. t \o Announced \in Seq(Nat)
      BY <1>2, AnnouncedType, ConcatProperties
    <3>. QED  BY <1>6, <1>12, <2>4, <3>1, OwesTaken
  <2>7. thread'.at = "receiving" /\ thread'.ignore = k
    BY <1>5, <1>6, <2>3 DEF Threads
  <2>8. Announced' = Announced /\ Asked' = 0
    BY <1>2, <2>7 DEF Announced, Asked
  <2>9. session' = s /\ sources'[session'].obuffer = rest
    BY <1>2, <1>3, <1>6
  <2>10. \E u \in Seq(Nat) : /\ Lens(pulses', "TxRequest", u)
                             /\ Owes(u \o Announced', thread'.ignore,
                                     sources'[session'].obuffer, Asked')
    BY <1>2, <2>4, <2>6, <2>7, <2>8, <2>9
  <2>. QED  BY <2>5, <2>7, <2>9, <2>10 DEF Receiving
<1>16. ToClient(s, f)'
  <2>1. Cut(sources'[s].obuffer, s, f) /\ f[Len(sources'[s].obuffer)] = sources'[s].sent
    BY <1>6, <1>8, <1>13
  <2>. QED  BY <1>15, <2>1 DEF ToClient, Cut
<1>. QED  BY <1>2, <1>3, <1>6, <1>16, ToClientOne

(* Every step keeps what the client receives. *)
LEMMA ToClientStep ==
  ASSUME ControlInv, ToClientOK, [Next]_vars  PROVE ToClientOK'
<1>1. CASE ThreadStep
  BY <1>1, ToClientRequest, ToClientThread DEF ThreadStep
<1>2. CASE ServeStep
  BY <1>2, ToClientServer, ToClientRespond, ToClientRepeat DEF ServeStep
<1>3. CASE ClientStep \/ Close \/ \E n \in Lengths : ClientWrite(n)
  BY <1>3, ToClientClient DEF ClientStep
<1>4. CASE ServerStep
  BY <1>4, ToClientServer, ToClientEnds, ToClientPulse DEF ServerStep
<1>5. CASE ConnectToServer
  BY <1>5, ToClientConnect
<1>6. CASE ServerCloses \/ ServerListens \/ UNCHANGED vars
  BY <1>6, ToClientServer, ToClientEnds
<1>7. CASE \E s \in Sessions, n \in Lengths : ServerWrite(s, n)
  BY <1>7, ToClientWrite
<1>. QED  BY <1>1, <1>2, <1>3, <1>4, <1>5, <1>6, <1>7 DEF Next

-----------------------------------------------------------------------------
(* What the server receives *)

Arrived == sources[session].got \o sources[session].buffer

\* A payload that is on its way was before.
SamePayloads ==
  \A i \in 1..Len(inbox') : inbox'[i].type = "Receive" =>
    \E j \in 1..Len(inbox) : inbox'[i] = inbox[j]

LEMMA ToServerKept ==
  ASSUME ToServerOK, lost \subseteq lost',
         linked' => /\ linked /\ SamePayloads /\ thread'.payload = thread.payload
                    /\ UNCHANGED <<session, obuffer, sent, Unpulsed, Arrived>>
                    /\ \A t \in Seq(Nat) : Lens(pulses, "Write", t) => Lens(pulses', "Write", t)
  PROVE  ToServerOK'
<1>. SUFFICES ASSUME linked', <<"toServer", session'>> \notin lost'
              PROVE  \E e : \E b \in Nat : ToServer(e, b)'
  BY DEF ToServerOK
<1>1. /\ linked /\ SamePayloads /\ thread'.payload = thread.payload
      /\ UNCHANGED <<session, obuffer, sent, Unpulsed>> /\ Arrived' = Arrived
      /\ \A t \in Seq(Nat) : Lens(pulses, "Write", t) => Lens(pulses', "Write", t)
  OBVIOUS
<1>0. PICK e : \E b \in Nat : ToServer(e, b)
  <2>1. <<"toServer", session>> \notin lost
    BY <1>1
  <2>. QED  BY <1>1, <2>1 DEF ToServerOK
<1>2. PICK b \in Nat : ToServer(e, b)
  BY <1>0
<1>3. PICK t \in Seq(Nat) : Lens(pulses, "Write", t) /\ Owes(t \o Unpulsed, 0, obuffer, 0)
  BY <1>2 DEF ToServer
<1>4. \E u \in Seq(Nat) : Lens(pulses', "Write", u) /\ Owes(u \o Unpulsed', 0, obuffer', 0)
  BY <1>1, <1>3
<1>5. \A i \in 1..Len(inbox') : inbox'[i].type = "Receive" => inbox'[i].payload = thread'.payload
  <2>1. \A j \in 1..Len(inbox) : inbox[j].type = "Receive" => inbox[j].payload = thread.payload
    BY <1>2 DEF ToServer
  <2>. QED  BY <1>1, <2>1 DEF SamePayloads
<1>6. /\ Cut(obuffer', session', e) /\ e[Len(obuffer')] = sent'
      /\ Arrived' = Chunk(session', 0, b)
      /\ b <= e[0] /\ thread'.payload = Chunk(session', b, e[0] - b)
  BY <1>1, <1>2 DEF ToServer, Arrived
<1>7. ToServer(e, b)'
  BY <1>4, <1>5, <1>6 DEF ToServer, Arrived, Cut
<1>. QED  BY <1>7

\* A message of another kind is sent.
LEMMA OtherSent ==
  ASSUME inbox \in Seq(Messages), NEW m \in Messages, m.type # "Receive",
         inbox' \in {inbox, Append(inbox, m)}
  PROVE  SamePayloads
<1>1. CASE inbox' = inbox
  BY <1>1 DEF SamePayloads
<1>2. CASE inbox' = Append(inbox, m)
  <2>1. /\ Len(inbox') = Len(inbox) + 1 /\ inbox'[Len(inbox) + 1] = m /\ Len(inbox) \in Nat
        /\ \A i \in 1..Len(inbox) : inbox'[i] = inbox[i]
    BY <1>2, AppendProperties, LenProperties
  <2>2. \A i \in 1..Len(inbox') : i \in 1..Len(inbox) \/ i = Len(inbox) + 1
    BY <2>1
  <2>. QED  BY <2>1, <2>2 DEF SamePayloads
<1>. QED  BY <1>1, <1>2

LEMMA ToServerClient ==
  ASSUME ControlInv, ToServerOK, RegisterFails \/ ClientRead \/ Joined \/ Close
  PROVE  ToServerOK'
<1>. USE DEF clientVars, clientData, threadVars, serverVars, historyVars
<1>1. /\ TypeOK /\ StateOK /\ ClientOK
      /\ UNCHANGED <<session, unpulsed, sent, thread, linked, inbox, sources, lost>>
  BY DEF ControlInv, RegisterFails, ClientRead, Joined, Close
<1>2. SamePayloads /\ Unpulsed' = Unpulsed /\ Arrived' = Arrived
  BY <1>1 DEF SamePayloads, Unpulsed, Arrived
<1>3. linked' => obuffer' = obuffer
  <2>1. CASE Joined
    BY <1>1, <2>1 DEF Joined, ClientOK
  <2>2. CASE ~Joined
    BY <2>2 DEF RegisterFails, ClientRead, Close
  <2>. QED  BY <2>1, <2>2
<1>4. \A t \in Seq(Nat) : Lens(pulses, "Write", t) => Lens(pulses', "Write", t)
  <2>1. Pulse("Terminate", 0) \in Pulses /\ Pulse("Terminate", 0).code # "Write"
    BY DEF Pulse, Pulses
  <2>2. pulses' \in {pulses, Append(pulses, Pulse("Terminate", 0))}
    BY DEF RegisterFails, ClientRead, Joined, Close, StopThread
  <2>. QED  BY <1>1, <2>1, <2>2, OtherPulse DEF StateOK
<1>. QED  BY <1>1, <1>2, <1>3, <1>4, ToServerKept

LEMMA ToServerThread ==
  ASSUME ControlInv, ToServerOK,
         ReceiveTxRequest \/ AskForRest \/ ReceiveTerminate \/ SendFails
  PROVE  ToServerOK'
<1>. USE DEF clientVars, clientData, serverVars, historyVars
<1>1. CASE ReceiveTxRequest
  <2>1. Receives("TxRequest")
    BY <1>1 DEF ReceiveTxRequest
  <2>2. /\ StateOK /\ pulses # <<>> /\ Head(pulses).code = "TxRequest" /\ session \in Sessions
        /\ pulses' = Tail(pulses) /\ UNCHANGED <<session, sent, unpulsed, sources, lost>>
    BY <2>1, PulseRead
  <2>3. UNCHANGED <<obuffer, linked>> /\ thread'.payload = thread.payload
    BY <1>1, <2>2 DEF ReceiveTxRequest, StateOK, Threads
  <2>4. SamePayloads
    <3>. DEFINE m == Message("Respond", Head(pulses).len, <<>>)
    <3>1. inbox' \in {inbox, Append(inbox, m)} /\ m.type # "Receive"
      BY <1>1 DEF ReceiveTxRequest, Sent, Message
    <3>2. m \in Messages
      <4>1. <<>> \in ByteStreams /\ Head(pulses).len \in Nat
        BY <2>1, PulseRead DEF ByteStreams
      <4>. QED  BY <2>2, <4>1, MessageType
    <3>. HIDE DEF m
    <3>. QED  BY <2>2, <3>1, <3>2, OtherSent DEF StateOK
  <2>5. \A t \in Seq(Nat) : Lens(pulses, "Write", t) => Lens(pulses', "Write", t)
    BY <2>2, LensPassed DEF StateOK
  <2>. QED  BY <2>2, <2>3, <2>4, <2>5, ToServerKept DEF Unpulsed, Arrived
<1>2. CASE AskForRest
  <2>1. /\ StateOK /\ thread.want \in Nat /\ session \in Sessions
        /\ thread' = [thread EXCEPT !.at = "repeating"]
        /\ UNCHANGED <<session, obuffer, sent, unpulsed, pulses, linked, sources, lost>>
    BY <1>2, ThreadLives DEF AskForRest, ControlInv, StateOK, Threads
  <2>2. SamePayloads
    <3>. DEFINE m == Message("Repeat", thread.want, <<>>)
    <3>1. inbox' \in {inbox, Append(inbox, m)} /\ m.type # "Receive"
      BY <1>2 DEF AskForRest, Sent, Message
    <3>2. m \in Messages
      <4>1. <<>> \in ByteStreams
        BY DEF ByteStreams
      <4>. QED  BY <2>1, <4>1, MessageType
    <3>. HIDE DEF m
    <3>. QED  BY <2>1, <3>1, <3>2, OtherSent DEF StateOK
  <2>3. thread'.payload = thread.payload
    BY <2>1 DEF StateOK, Threads
  <2>. QED  BY <2>1, <2>2, <2>3, ToServerKept DEF Unpulsed, Arrived
<1>3. CASE ReceiveTerminate
  <2>1. linked' = FALSE /\ lost' = lost
    BY <1>3, PulseRead DEF ReceiveTerminate
  <2>. QED  BY <2>1, ToServerKept
<1>4. CASE SendFails
  <2>1. ~linked /\ UNCHANGED <<linked, lost>>
    BY <1>4 DEF SendFails
  <2>. QED  BY <2>1, ToServerKept
<1>. QED  BY <1>1, <1>2, <1>3, <1>4

LEMMA ToServerServe ==
  ASSUME ControlInv, ToServerOK, ServeInit \/ ServeRespond \/ ServeRepeat \/ ServeDisconnect
  PROVE  ToServerOK'
<1>1. PICK type : Serves(type)
  BY DEF ServeInit, ServeRespond, ServeRepeat, ServeDisconnect
<1>2. /\ StateOK /\ ClientOK /\ SourcesOK /\ Len(inbox) \in Nat \ {0} /\ Len(inbox') = Len(inbox) - 1
      /\ \A i \in 1..Len(inbox) - 1 : inbox'[i] = inbox[i + 1]
      /\ UNCHANGED <<session, unpulsed, obuffer, sent, pulses, linked, lost>>
  BY <1>1, MessageServed DEF ControlInv
<1>3. SamePayloads
  <2>1. \A i \in 1..Len(inbox') : i + 1 \in 1..Len(inbox) /\ inbox'[i] = inbox[i + 1]
    BY <1>2
  <2>. QED  BY <2>1 DEF SamePayloads
<1>4. thread'.payload = thread.payload
  <2>1. thread \in Threads
    BY <1>2 DEF StateOK
  <2>. QED  BY <2>1 DEF ServeInit, ServeRespond, ServeRepeat, ServeDisconnect, Threads
<1>5. linked => Arrived' = Arrived
  <2>. SUFFICES ASSUME linked  PROVE Arrived' = Arrived
    OBVIOUS
  <2>0. PICK s \in Sessions : s = session
    BY <1>2 DEF ClientOK
  <2>1. sources \in [Sessions -> Sources] /\ session' = s
    BY <1>2, <2>0 DEF StateOK
  <2>2. CASE ServeInit
    <3>1. sources' = [sources EXCEPT ![s] = [NoSource EXCEPT !.known = TRUE]]
      BY <2>0, <2>2, InitServed
    <3>2. sources[s] = NoSource
      BY <2>0, <2>2, InitServed
    <3>3. sources'[s].got = NoSource.got /\ sources'[s].buffer = NoSource.buffer
      BY <2>1, <3>1 DEF NoSource
    <3>. QED  BY <2>0, <2>1, <3>2, <3>3 DEF Arrived
  <2>3. CASE ServeRespond \/ ServeRepeat
    <3>1. \E x : sources' = [sources EXCEPT ![s].obuffer = x]
      <4>1. Head(inbox).session = s
        <5>1. PICK code : Serves(code) /\ code # "Disconnect"
          <6>1. ServeRespond => Serves("Respond")
            BY DEF ServeRespond
          <6>2. ServeRepeat => Serves("Repeat")
            BY DEF ServeRepeat
          <6>3. \E code \in {"Respond", "Repeat"} : Serves(code)
            BY <2>3, <6>1, <6>2
          <6>. QED  BY <6>3
        <5>2. Head(inbox).session = session
          BY <5>1, MessageServed
        <5>. QED  BY <2>0, <5>2
      <4>2. CASE ServeRespond
        BY <4>1, <4>2 DEF ServeRespond
      <4>3. CASE ServeRepeat
        BY <4>1, <4>3 DEF ServeRepeat
      <4>. QED  BY <2>3, <4>2, <4>3
    <3>2. PICK x : sources' = [sources EXCEPT ![s].obuffer = x]
      BY <3>1
    <3>3. sources'[s].got = sources[s].got /\ sources'[s].buffer = sources[s].buffer
      BY <2>1, <3>2 DEF Sources
    <3>. QED  BY <2>0, <2>1, <3>3 DEF Arrived
  <2>4. CASE ServeDisconnect
    <3>. DEFINE t == Head(inbox).session
    <3>1. sources' = [sources EXCEPT ![t].known = FALSE, ![t].serverClosing = TRUE]
      BY <2>4 DEF ServeDisconnect
    <3>. HIDE DEF t
    <3>2. sources'[s].got = sources[s].got /\ sources'[s].buffer = sources[s].buffer
      BY <2>1, <3>1 DEF Sources
    <3>. QED  BY <2>0, <2>1, <3>2 DEF Arrived
  <2>. QED  BY <2>2, <2>3, <2>4
<1>. QED  BY <1>2, <1>3, <1>4, <1>5, ToServerKept DEF Unpulsed

LEMMA ToServerServer ==
  ASSUME ControlInv, ToServerOK,
         \/ NewConnection \/ OnDisconnected \/ ServerRead \/ ServerPulse
         \/ ServerCloses \/ ServerListens \/ UNCHANGED vars
         \/ \E s \in Sessions, n \in Lengths : ServerWrite(s, n)
  PROVE  ToServerOK'
<1>. USE DEF clientVars, clientData, threadVars, serverVars, historyVars
<1>1. /\ StateOK /\ ClientOK /\ lost \subseteq lost'
      /\ linked' => linked
      /\ UNCHANGED <<session, unpulsed, obuffer, sent, thread>>
      /\ linked' => inbox' = inbox
  <2>1. StateOK /\ ClientOK
    BY DEF ControlInv
  <2>2. CASE NewConnection \/ OnDisconnected \/ ServerRead
    <3>1. \E event : Handles(event)
      <4>1. CASE NewConnection
        BY <4>1 DEF NewConnection
      <4>2. CASE OnDisconnected
        BY <4>2 DEF OnDisconnected
      <4>3. CASE ServerRead
        BY <4>3 DEF ServerRead
      <4>. QED  BY <2>2, <4>1, <4>2, <4>3
    <3>. QED  BY <2>1, <3>1 DEF Handles
  <2>3. CASE ServerPulse
    BY <2>1, <2>3 DEF ServerPulse
  <2>4. CASE ServerCloses
    BY <2>1, <2>4 DEF ServerCloses
  <2>5. CASE ServerListens \/ UNCHANGED vars
    BY <2>1, <2>5 DEF ServerListens, vars
  <2>6. CASE \E s \in Sessions, n \in Lengths : ServerWrite(s, n)
    BY <2>1, <2>6 DEF ServerWrite
  <2>. QED  BY <2>2, <2>3, <2>4, <2>5, <2>6
<1>2. linked' => SamePayloads
  BY <1>1 DEF SamePayloads
<1>3. \A t \in Seq(Nat) : Lens(pulses, "Write", t) => Lens(pulses', "Write", t)
  <2>1. CASE ServerPulse
    <3>1. announces[2] \in Nat
      BY <1>1, <2>1, LengthsArePositive DEF ServerPulse, NotAnnouncing, StateOK
    <3>. DEFINE pulse == Pulse("TxRequest", announces[2])
    <3>2. pulse \in Pulses /\ pulse.code # "Write"
      BY <3>1 DEF Pulse, Pulses
    <3>3. pulses' \in {pulses, Append(pulses, pulse)}
      BY <2>1 DEF ServerPulse
    <3>. HIDE DEF pulse
    <3>. QED  BY <1>1, <3>2, <3>3, OtherPulse DEF StateOK
  <2>2. CASE ~ServerPulse
    <3>1. pulses' = pulses
      BY <2>2 DEF NewConnection, OnDisconnected, ServerRead, Handles, ServerCloses, ServerListens,
                  ServerWrite, vars
    <3>. QED  BY <3>1
  <2>. QED  BY <2>1, <2>2
<1>4. linked' => Arrived' = Arrived
  <2>. SUFFICES ASSUME linked'  PROVE Arrived' = Arrived
    OBVIOUS
  <2>0. PICK s \in Sessions : s = session
    BY <1>1 DEF ClientOK
  <2>1. sources \in [Sessions -> Sources] /\ session' = s
    BY <1>1, <2>0 DEF StateOK
  <2>2. CASE NewConnection
    <3>. DEFINE t == Head(posted)[2]
    <3>1. sources' = [sources EXCEPT ![t].attached = TRUE]
      BY <2>2 DEF NewConnection
    <3>. HIDE DEF t
    <3>2. sources'[s].got = sources[s].got /\ sources'[s].buffer = sources[s].buffer
      BY <2>1, <3>1 DEF Sources
    <3>. QED  BY <2>0, <2>1, <3>2 DEF Arrived
  <2>3. CASE OnDisconnected
    <3>1. Head(posted)[2] # s
      BY <1>1, <2>0, <2>3, EventHandled DEF OnDisconnected
    <3>2. sources'[s] = sources[s]
      BY <2>1, <2>3, <3>1 DEF OnDisconnected
    <3>. QED  BY <2>0, <2>1, <3>2 DEF Arrived
  <2>4. CASE ServerRead
    <3>. DEFINE t == Head(posted)[2]
                all == sources[t].got \o sources[t].buffer
    <3>1. sources' = [sources EXCEPT ![t].got = all, ![t].buffer = <<>>]
      BY <2>4 DEF ServerRead
    <3>2. t = s => all = Arrived /\ Arrived \in ByteStreams
      <4>1. sources[s].got \in ByteStreams /\ sources[s].buffer \in ByteStreams
        BY <2>1 DEF Sources
      <4>. QED  BY <2>0, <4>1, StreamsJoin DEF Arrived
    <3>. HIDE DEF all, t
    <3>3. CASE t = s
      <4>1. sources'[s].got = all /\ sources'[s].buffer = <<>>
        BY <2>1, <3>1, <3>3 DEF Sources
      <4>2. all \o <<>> = all
        BY <3>2, <3>3, ConcatEmptySeq DEF ByteStreams
      <4>. QED  BY <2>0, <2>1, <3>2, <3>3, <4>1, <4>2 DEF Arrived
    <3>4. CASE t # s
      <4>1. sources'[s] = sources[s]
        BY <2>1, <3>1, <3>4
      <4>. QED  BY <2>0, <2>1, <4>1 DEF Arrived
    <3>. QED  BY <3>3, <3>4
  <2>5. ASSUME NEW t \in Sessions, NEW n \in Lengths, ServerWrite(t, n)  PROVE Arrived' = Arrived
    <3>1. sources' = [sources EXCEPT ![t].obuffer = Append(@, Chunk(t, sources[t].sent, n)),
                                     ![t].sent = @ + n]
      BY <2>5 DEF ServerWrite
    <3>2. sources'[s].got = sources[s].got /\ sources'[s].buffer = sources[s].buffer
      BY <2>1, <3>1 DEF Sources
    <3>. QED  BY <2>0, <2>1, <3>2 DEF Arrived
  <2>6. CASE ServerPulse \/ ServerListens \/ UNCHANGED vars
    BY <2>6 DEF Arrived, ServerPulse, ServerListens, vars
  <2>7. ~ServerCloses
    BY DEF ServerCloses
  <2>. QED  BY <2>2, <2>3, <2>4, <2>5, <2>6, <2>7
<1>. QED  BY <1>1, <1>2, <1>3, <1>4, ToServerKept DEF Unpulsed

\* Nothing is the chunk of no bytes.
LEMMA NoBytes ==
  ASSUME NEW s, NEW from, NEW n \in Nat
  PROVE  Chunk(s, from, 0) = <<>> /\ (Chunk(s, from, n) = <<>> => n = 0)
<1>1. Chunk(s, from, 0) = <<>>
  BY DEF Chunk
<1>2. Len(Chunk(s, from, n)) = n
  BY DEF Chunk
<1>. QED  BY <1>1, <1>2

LEMMA ToServerConnect ==
  ASSUME ControlInv, ConnectToServer  PROVE ToServerOK'
<1>1. /\ TypeOK /\ StateOK /\ SourcesOK /\ state = "Unconnected" /\ unpulsed = 0
      /\ session' = session + 1 /\ session' \in Sessions /\ session \in Nat
      /\ thread' = [NoThread EXCEPT !.at = "receiving"]
      /\ inbox' = Append(inbox, [Message("Init", 0, <<>>) EXCEPT !.session = session + 1])
      /\ sent' = 0 /\ UNCHANGED <<obuffer, pulses, unpulsed, sources>>
  BY BoundsAreNaturals
  DEF ControlInv, ConnectToServer, Connectable, Free, TypeOK, Sessions
<1>2. /\ thread = NoThread /\ pulses' = <<>> /\ obuffer' = <<>> /\ Unpulsed' = <<>>
      /\ thread'.payload = <<>>
  BY <1>1 DEF TypeOK, Unpulsed, NoThread
<1>3. PICK s \in Sessions : s = session'
  BY <1>1
<1>4. sources'[s].got = <<>> /\ sources'[s].buffer = <<>>
  <2>1. sources[s] = NoSource
    BY <1>1, <1>3 DEF SourcesOK, Unborn
  <2>. QED  BY <1>1, <2>1 DEF NoSource
<1>5. PICK e : Cut(<<>>, s, e) /\ e[0] = 0 /\ e[Len(<<>>)] = 0
  BY CutNothing
<1>6. \A i \in 1..Len(inbox') : inbox'[i].type # "Receive"
  <2>. DEFINE m == [Message("Init", 0, <<>>) EXCEPT !.session = session + 1]
  <2>1. m.type = "Init" /\ m \in Messages
    <3>1. m = [type |-> "Init", session |-> s, len |-> 0, payload |-> <<>>]
      BY <1>1, <1>3 DEF Message
    <3>2. <<>> \in ByteStreams
      BY DEF ByteStreams
    <3>. QED  BY <3>1, <3>2 DEF Messages
  <2>2. \A i \in 1..Len(inbox) : inbox[i].type # "Receive"
    <3>1. clientAt # "registering" /\ thread.at = "none"
      BY <1>1, <1>2 DEF ConnectToServer, Connectable, Free, NoThread
    <3>. QED  BY <3>1, Quiet DEF Ended
  <2>. HIDE DEF m
  <2>3. /\ Len(inbox') = Len(inbox) + 1 /\ inbox'[Len(inbox) + 1] = m /\ Len(inbox) \in Nat
        /\ \A i \in 1..Len(inbox) : inbox'[i] = inbox[i]
    BY <1>1, <2>1, AppendProperties, LenProperties DEF StateOK, m
  <2>4. \A i \in 1..Len(inbox') : i \in 1..Len(inbox) \/ i = Len(inbox) + 1
    BY <2>3
  <2>. QED  BY <2>1, <2>2, <2>3, <2>4
<1>7. \E t \in Seq(Nat) : Lens(pulses', "Write", t) /\ Owes(t \o Unpulsed', 0, obuffer', 0)
  <2>1. <<>> \in Seq(Nat) /\ Lens(<<>>, "Write", <<>>) /\ <<>> \o <<>> = <<>>
    BY LensNothing
  <2>2. Owes(<<>>, 0, <<>>, 0)
    BY DEF Owes
  <2>. QED  BY <1>2, <2>1, <2>2
<1>8. /\ sources'[session'].got \o sources'[session'].buffer = Chunk(session', 0, 0)
      /\ thread'.payload = Chunk(session', 0, e[0] - 0) /\ 0 <= e[0]
  BY <1>2, <1>3, <1>4, <1>5, NoBytes
<1>9. ToServer(e, 0)'
  BY <1>1, <1>2, <1>3, <1>5, <1>6, <1>7, <1>8 DEF ToServer, Cut
<1>. QED  BY <1>9 DEF ToServerOK

LEMMA ToServerWrite ==
  ASSUME ControlInv, ToServerOK, NEW n \in Lengths, ClientWrite(n)  PROVE ToServerOK'
<1>. DEFINE chunk == Chunk(session, sent, n)
            more == Append(obuffer, chunk)
<1>1. /\ TypeOK /\ StateOK /\ ClientOK /\ n \in Nat \ {0} /\ unpulsed = 0 /\ obuffer' = more
      /\ sent' = sent + n /\ unpulsed' = n
      /\ UNCHANGED <<session, thread, pulses, linked, inbox, sources, lost>>
  BY LengthsArePositive DEF ClientWrite, Free, ControlInv, threadVars, serverVars
<1>. SUFFICES ASSUME linked', <<"toServer", session'>> \notin lost'
              PROVE  \E f : \E b \in Nat : ToServer(f, b)'
  BY DEF ToServerOK
<1>2. session \in Sessions /\ linked /\ <<"toServer", session>> \notin lost
  BY <1>1 DEF ClientOK
<1>3. PICK e : \E b \in Nat : ToServer(e, b)
  BY <1>2 DEF ToServerOK
<1>4. PICK b \in Nat : ToServer(e, b)
  BY <1>3
<1>5. Cut(obuffer, session, e) /\ e[Len(obuffer)] = sent /\ obuffer \in Seq(ByteStreams) /\ sent \in Nat
  BY <1>1, <1>4 DEF ToServer, TypeOK
<1>6. chunk \in ByteStreams /\ Len(chunk) = n /\ chunk = Chunk(session, e[Len(obuffer)], n)
  BY <1>1, <1>2, <1>5, ChunkType
<1>. HIDE DEF chunk, more
<1>7. PICK f : /\ Cut(more, session, f) /\ f[Len(more)] = sent + n
               /\ \A i \in 0..Len(obuffer) : f[i] = e[i]
  BY <1>1, <1>2, <1>5, <1>6, CutMore DEF more
<1>8. f[0] = e[0]
  <2>1. 0 \in 0..Len(obuffer)
    BY <1>5, LenProperties
  <2>. QED  BY <1>7, <2>1
<1>9. \E t \in Seq(Nat) : Lens(pulses', "Write", t) /\ Owes(t \o Unpulsed', 0, obuffer', 0)
  <2>1. PICK t \in Seq(Nat) : Lens(pulses, "Write", t) /\ Owes(t \o Unpulsed, 0, obuffer, 0)
    BY <1>4 DEF ToServer
  <2>2. Unpulsed = <<>> /\ Unpulsed' = <<n>>
    BY <1>1 DEF Unpulsed
  <2>3. t \o Unpulsed = t /\ t \o Unpulsed' = Append(t, n)
    BY <1>1, <2>2, ConcatEmptySeq, AppendIsConcat
  <2>4. Owes(Append(t, n), 0, more, 0)
    <3>1. 0 <= Len(obuffer) /\ 0 \in Nat /\ 0 \in {0, 1}
      BY <1>5, LenProperties
    <3>2. Owes(t, 0, obuffer, 0)
      BY <2>1, <2>3
    <3>. QED  BY <1>1, <1>5, <1>6, <3>1, <3>2, OwesMore DEF more
  <2>. QED  BY <1>1, <2>1, <2>3, <2>4
<1>10. /\ Cut(obuffer', session', f) /\ f[Len(obuffer')] = sent'
       /\ sources'[session'].got \o sources'[session'].buffer = Chunk(session', 0, b)
       /\ b <= f[0] /\ thread'.payload = Chunk(session', b, f[0] - b)
       /\ \A i \in 1..Len(inbox') : inbox'[i].type = "Receive" => inbox'[i].payload = thread'.payload
  BY <1>1, <1>4, <1>7, <1>8 DEF ToServer
<1>11. ToServer(f, b)'
  BY <1>9, <1>10 DEF ToServer, Cut
<1>. QED  BY <1>11

LEMMA ToServerPulse ==
  ASSUME ControlInv, ToServerOK, ClientPulse  PROVE ToServerOK'
<1>. DEFINE pulse == Pulse("Write", unpulsed)
<1>1. /\ TypeOK /\ StateOK /\ ClientOK /\ unpulsed # 0 /\ unpulsed' = 0 /\ unpulsed \in Nat
      /\ UNCHANGED <<session, obuffer, sent, thread, linked, inbox, sources>>
      /\ lost \subseteq lost'
  BY LengthsArePositive DEF ClientPulse, ControlInv, clientData, serverVars, TypeOK
<1>. SUFFICES ASSUME linked', <<"toServer", session'>> \notin lost'
              PROVE  \E e : \E b \in Nat : ToServer(e, b)'
  BY DEF ToServerOK
<1>2. /\ session \in Sessions /\ linked /\ <<"toServer", session>> \notin lost
      /\ pulses' = Append(pulses, pulse)
  BY <1>1 DEF ClientOK, ClientPulse
<1>3. PICK e : \E b \in Nat : ToServer(e, b)
  BY <1>2 DEF ToServerOK
<1>4. PICK b \in Nat : ToServer(e, b)
  BY <1>3
<1>5. PICK t \in Seq(Nat) : Lens(pulses, "Write", t) /\ Owes(t \o Unpulsed, 0, obuffer, 0)
  BY <1>4 DEF ToServer
<1>. DEFINE u == Append(t, unpulsed)
<1>6. Lens(pulses', "Write", u) /\ u \in Seq(Nat)
  <2>1. pulse \in Pulses /\ pulse.code = "Write" /\ pulse.len = unpulsed
    BY <1>1 DEF Pulse, Pulses
  <2>. HIDE DEF pulse
  <2>2. Lens(Append(pulses, pulse), "Write", Append(t, pulse.len))
    BY <1>1, <1>5, <2>1, LensMore DEF StateOK
  <2>. QED  BY <1>1, <1>2, <2>1, <2>2, AppendProperties
<1>7. t \o Unpulsed = u /\ u \o Unpulsed' = u
  <2>1. Unpulsed = <<unpulsed>> /\ Unpulsed' = <<>>
    BY <1>1 DEF Unpulsed
  <2>2. u = t \o <<unpulsed>>
    BY <1>1, AppendIsConcat
  <2>. HIDE DEF u
  <2>. QED  BY <1>6, <2>1, <2>2, ConcatEmptySeq
<1>. HIDE DEF u
<1>8. \E v \in Seq(Nat) : Lens(pulses', "Write", v) /\ Owes(v \o Unpulsed', 0, obuffer', 0)
  BY <1>1, <1>5, <1>6, <1>7
<1>9. /\ Cut(obuffer', session', e) /\ e[Len(obuffer')] = sent'
      /\ sources'[session'].got \o sources'[session'].buffer = Chunk(session', 0, b)
      /\ b <= e[0] /\ thread'.payload = Chunk(session', b, e[0] - b)
      /\ \A i \in 1..Len(inbox') : inbox'[i].type = "Receive" => inbox'[i].payload = thread'.payload
  BY <1>1, <1>4 DEF ToServer
<1>10. ToServer(e, b)'
  BY <1>8, <1>9 DEF ToServer, Cut
<1>. QED  BY <1>10

LEMMA ToServerReceiveWrite ==
  ASSUME ControlInv, ToServerOK, ReceiveWrite  PROVE ToServerOK'
<1>. DEFINE len == Head(pulses).len
            first == First(obuffer)
            rest == Rest(obuffer)
            m == Message("Receive", len, Fit(first, len))
<1>1. Receives("Write")
  BY DEF ReceiveWrite
<1>2. /\ TypeOK /\ StateOK /\ ClientOK /\ thread.at = "receiving" /\ session \in Sessions
      /\ clientAt # "registering" /\ pulses # <<>> /\ Head(pulses).code = "Write" /\ len \in Nat
      /\ pulses' = Tail(pulses)
      /\ UNCHANGED <<session, unpulsed, sent, sources, lost>>
  BY <1>1, PulseRead DEF ControlInv
<1>3. /\ thread' = [thread EXCEPT !.at = "sending", !.payload = first]
      /\ obuffer' = rest /\ linked' = linked
      /\ inbox' = IF linked THEN Append(inbox, m) ELSE inbox
  BY DEF ReceiveWrite, Sent
<1>. SUFFICES ASSUME linked', <<"toServer", session'>> \notin lost'
              PROVE  \E f : \E b \in Nat : ToServer(f, b)'
  BY DEF ToServerOK
<1>4. linked /\ <<"toServer", session>> \notin lost
  BY <1>2, <1>3
<1>5. PICK e : \E b \in Nat : ToServer(e, b)
  BY <1>4 DEF ToServerOK
<1>6. PICK b \in Nat : ToServer(e, b)
  BY <1>5
<1>7. PICK t \in Seq(Nat) : Lens(pulses, "Write", t) /\ Owes(t \o Unpulsed, 0, obuffer, 0)
  BY <1>6 DEF ToServer
<1>8. /\ Cut(obuffer, session, e) /\ e[Len(obuffer)] = sent /\ obuffer \in Seq(ByteStreams)
      /\ Unpulsed \in Seq(Nat) /\ Unpulsed' = Unpulsed /\ b <= e[0]
      /\ Chunk(session, b, e[0] - b) = <<>>
  <2>1. unpulsed \in Nat
    BY <1>2, LengthsArePositive DEF TypeOK
  <2>. QED  BY <1>2, <1>6, <2>1 DEF ToServer, TypeOK, Unpulsed, ClientOK
<1>. DEFINE u == t \o Unpulsed
<1>9. /\ t[1] = len /\ Lens(Tail(pulses), "Write", Tail(t)) /\ Tail(t) \in Seq(Nat)
      /\ u \in Seq(Nat) /\ u # <<>> /\ u[1] = len /\ Tail(u) = Tail(t) \o Unpulsed
      /\ Owes(u, 0, obuffer, 0)
  <2>1. t # <<>> /\ t[1] = len /\ Lens(Tail(pulses), "Write", Tail(t))
    BY <1>2, <1>7, LensFirst DEF StateOK
  <2>2. Tail(t) \in Seq(Nat)
    BY <2>1, HeadAndTail
  <2>3. /\ u \in Seq(Nat) /\ u # <<>> /\ u[1] = len /\ Tail(u) = Tail(t) \o Unpulsed
    BY <1>8, <2>1, TailThenMore, ConcatProperties
  <2>. QED  BY <1>7, <2>1, <2>2, <2>3
<1>. HIDE DEF u
<1>10. obuffer # <<>> /\ len = Len(obuffer[1]) /\ Owes(Tail(u), 0, obuffer, 1)
  BY <1>8, <1>9, OwesAsked
<1>11. /\ rest = SubSeq(obuffer, 2, Len(obuffer)) /\ first = obuffer[1]
       /\ 1 \in 0..Len(obuffer) /\ 1 \in 1..Len(obuffer) /\ Len(obuffer) \in Nat
  BY <1>8, <1>10, RestIsPart, LenProperties
<1>12. /\ rest \in Seq(ByteStreams) /\ Len(rest) = Len(obuffer) - 1
       /\ \A i \in 1..Len(obuffer) - 1 : rest[i] = obuffer[i + 1]
       /\ \E f : /\ Cut(rest, session, f) /\ f[Len(rest)] = e[Len(obuffer)]
                 /\ \A i \in 0..Len(rest) : f[i] = e[i + 1]
  <2>. DEFINE part == SubSeq(obuffer, 1 + 1, Len(obuffer))
  <2>1. /\ part \in Seq(ByteStreams) /\ Len(part) = Len(obuffer) - 1
        /\ \A i \in 1..Len(obuffer) - 1 : part[i] = obuffer[i + 1]
        /\ \E f : /\ Cut(part, session, f) /\ f[Len(part)] = e[Len(obuffer)]
                  /\ \A i \in 0..Len(part) : f[i] = e[i + 1]
    <3>1. PICK s \in Sessions, k \in 0..Len(obuffer) : s = session /\ k = 1
      BY <1>2, <1>11
    <3>. DEFINE after == SubSeq(obuffer, k + 1, Len(obuffer))
    <3>2. /\ after \in Seq(ByteStreams) /\ Len(after) = Len(obuffer) - k
          /\ \A i \in 1..Len(obuffer) - k : after[i] = obuffer[i + k]
          /\ \E f : /\ Cut(after, s, f) /\ f[Len(after)] = e[Len(obuffer)]
                    /\ \A i \in 0..Len(after) : f[i] = e[i + k]
      <4>1. Cut(obuffer, s, e) /\ obuffer \in Seq(ByteStreams)
        BY <1>8, <3>1
      <4>. QED  BY <4>1, CutRest
    <3>3. after = part
      BY <3>1
    <3>. HIDE DEF after, part
    <3>. QED  BY <3>1, <3>2, <3>3
  <2>2. rest = part
    BY <1>11
  <2>. HIDE DEF part, rest
  <2>. QED  BY <2>1, <2>2
<1>13. PICK f : /\ Cut(rest, session, f) /\ f[Len(rest)] = e[Len(obuffer)]
                /\ \A i \in 0..Len(rest) : f[i] = e[i + 1]
  BY <1>12
<1>14. /\ f[0] = e[1] /\ e[0] \in Nat /\ e[1] \in Nat /\ e[0] < e[1]
       /\ first = Chunk(session, e[0], e[1] - e[0]) /\ first \in ByteStreams
  <2>1. 0 \in 0..Len(rest) /\ 0 + 1 = 1 /\ 1 - 1 = 0
    BY <1>11, <1>12
  <2>2. f[0] = e[1]
    BY <1>13, <2>1
  <2>. QED  BY <1>2, <1>8, <1>11, <2>1, <2>2, CutType
<1>15. b = e[0]
  <2>1. PICK n \in Nat : n = e[0] - b
    BY <1>8, <1>14
  <2>2. n = 0
    BY <1>8, <2>1, NoBytes
  <2>. QED  BY <1>14, <2>1, <2>2
<1>16. Fit(first, len) = first
  BY <1>10, <1>11, <1>14, FitsAll
<1>17. thread'.payload = first
  BY <1>2, <1>3, <1>14 DEF StateOK, Threads
<1>. HIDE DEF first, rest, len
<1>18. \A i \in 1..Len(inbox') : inbox'[i].type = "Receive" => inbox'[i].payload = thread'.payload
  <2>1. m \in Messages /\ m.payload = first
    BY <1>2, <1>14, <1>16, MessageType
  <2>2. \A i \in 1..Len(inbox) : inbox[i].type # "Receive"
    BY <1>2, Quiet DEF Ended
  <2>. HIDE DEF m
  <2>3. /\ Len(inbox') = Len(inbox) + 1 /\ inbox'[Len(inbox) + 1] = m /\ Len(inbox) \in Nat
        /\ \A i \in 1..Len(inbox) : inbox'[i] = inbox[i]
    BY <1>2, <1>3, <1>4, <2>1, AppendProperties, LenProperties DEF StateOK
  <2>4. \A i \in 1..Len(inbox') : i \in 1..Len(inbox) \/ i = Len(inbox) + 1
    BY <2>3
  <2>. QED  BY <1>17, <2>1, <2>2, <2>3, <2>4
<1>19. \E v \in Seq(Nat) : Lens(pulses', "Write", v) /\ Owes(v \o Unpulsed', 0, obuffer', 0)
  <2>1. Tail(u) \in Seq(Nat)
    BY <1>9, HeadAndTail
  <2>2. Owes(Tail(u), 0, rest, 0)
    BY <1>8, <1>10, <1>12, <2>1, OwesRead
  <2>. QED  BY <1>2, <1>3, <1>8, <1>9, <2>2
<1>20. /\ Cut(obuffer', session', f) /\ f[Len(obuffer')] = sent'
       /\ sources'[session'].got \o sources'[session'].buffer = Chunk(session', 0, b)
       /\ b <= f[0] /\ thread'.payload = Chunk(session', b, f[0] - b)
  <2>1. Cut(obuffer', session', f) /\ f[Len(obuffer')] = sent'
    BY <1>2, <1>3, <1>8, <1>13
  <2>2. sources'[session'].got \o sources'[session'].buffer = Chunk(session', 0, b)
    BY <1>2, <1>6 DEF ToServer
  <2>3. b <= f[0] /\ thread'.payload = Chunk(session', b, f[0] - b)
    BY <1>2, <1>14, <1>15, <1>17
  <2>. QED  BY <2>1, <2>2, <2>3
<1>21. ToServer(f, b)'
  BY <1>18, <1>19, <1>20 DEF ToServer, Cut
<1>. QED  BY <1>21

LEMMA ToServerReceived ==
  ASSUME ControlInv, ToServerOK, ServeReceive  PROVE ToServerOK'
<1>1. Serves("Receive")
  BY DEF ServeReceive
<1>2. /\ StateOK /\ InboxOK /\ Awaited(Head(inbox)) /\ linked /\ Head(inbox).session = session
      /\ session \in Sessions /\ Head(inbox).type = "Receive" /\ Head(inbox) = inbox[1]
      /\ Head(inbox).payload \in ByteStreams
      /\ 1 \in 1..Len(inbox) /\ Len(inbox) \in Nat /\ Len(inbox') = Len(inbox) - 1
      /\ \A i \in 1..Len(inbox) - 1 : inbox'[i] = inbox[i + 1]
      /\ UNCHANGED <<session, unpulsed, obuffer, sent, pulses, linked, lost>>
  BY <1>1, MessageServed DEF ControlInv
<1>. SUFFICES ASSUME linked', <<"toServer", session'>> \notin lost'
              PROVE  \E f : \E b \in Nat : ToServer(f, b)'
  BY DEF ToServerOK
<1>3. PICK e : \E b \in Nat : ToServer(e, b)
  BY <1>2 DEF ToServerOK
<1>4. PICK b \in Nat : ToServer(e, b)
  BY <1>3
<1>5. PICK s \in Sessions : s = session
  BY <1>2
<1>. DEFINE payload == Head(inbox).payload
            old == sources[s].buffer
            untold == ~sources[s].attached
<1>6. payload = Chunk(s, b, e[0] - b) /\ b <= e[0] /\ e[0] \in Nat
  <2>1. payload = thread.payload
    BY <1>2, <1>4 DEF ToServer
  <2>2. e[0] \in Nat
    <3>1. Cut(obuffer, session, e) /\ 0 \in 0..Len(obuffer)
      <4>1. obuffer \in Seq(ByteStreams)
        BY DEF ControlInv, TypeOK
      <4>. QED  BY <1>4, <4>1, LenProperties DEF ToServer
    <3>. QED  BY <3>1 DEF Cut
  <2>. QED  BY <1>4, <1>5, <2>1, <2>2 DEF ToServer
<1>7. /\ thread' = [thread EXCEPT !.at = "receiving", !.payload = <<>>]
      /\ sources' = [sources EXCEPT ![s].buffer = old \o payload, ![s].early = untold]
  BY <1>2, <1>5 DEF ServeReceive
<1>8. /\ thread'.payload = <<>> /\ sources[s].got \in ByteStreams /\ old \in ByteStreams
      /\ sources'[s].got = sources[s].got /\ sources'[s].buffer = old \o payload
  <2>1. sources \in [Sessions -> Sources] /\ thread \in Threads
    BY <1>2 DEF StateOK
  <2>2. thread'.payload = <<>> /\ sources[s].got \in ByteStreams /\ old \in ByteStreams
    BY <1>7, <2>1 DEF Sources, Threads
  <2>. HIDE DEF old, payload, untold
  <2>. QED  BY <1>7, <2>1, <2>2 DEF Sources
<1>9. sources'[s].got \o sources'[s].buffer = Chunk(s, 0, e[0])
  <2>1. PICK m \in Nat : m = e[0] - b /\ b + m = e[0]
    BY <1>6
  <2>2. sources[s].got \o (old \o payload) = (sources[s].got \o old) \o payload
    BY <1>2, <1>8, StreamsJoin
  <2>3. sources[s].got \o old = Chunk(s, 0, b)
    BY <1>4, <1>5 DEF ToServer
  <2>4. Chunk(s, 0, b) \o Chunk(s, 0 + b, m) = Chunk(s, 0, b + m)
    BY ChunkOn
  <2>5. 0 + b = b
    OBVIOUS
  <2>. QED  BY <1>6, <1>8, <2>1, <2>2, <2>3, <2>4, <2>5
<1>10. \A i \in 1..Len(inbox') : inbox'[i].type # "Receive"
  <2>1. \A i \in 1..Len(inbox') : i + 1 \in 1..Len(inbox) /\ i + 1 # 1 /\ inbox'[i] = inbox[i + 1]
    BY <1>2
  <2>2. \A i \in 1..Len(inbox) : i # 1 => Ended(inbox[i])
    BY <1>2 DEF InboxOK
  <2>. QED  BY <2>1, <2>2 DEF Ended
<1>11. \E v \in Seq(Nat) : Lens(pulses', "Write", v) /\ Owes(v \o Unpulsed', 0, obuffer', 0)
  BY <1>2, <1>4 DEF ToServer, Unpulsed
<1>12. /\ Cut(obuffer', session', e) /\ e[Len(obuffer')] = sent'
       /\ sources'[session'].got \o sources'[session'].buffer = Chunk(session', 0, e[0])
       /\ e[0] <= e[0] /\ thread'.payload = Chunk(session', e[0], e[0] - e[0])
  <2>1. e[0] - e[0] = 0 /\ e[0] <= e[0]
    BY <1>6
  <2>2. Cut(obuffer', session', e) /\ e[Len(obuffer')] = sent'
    BY <1>2, <1>4 DEF ToServer
  <2>. QED  BY <1>2, <1>5, <1>8, <1>9, <2>1, <2>2, NoBytes
<1>13. ToServer(e, e[0])'
  BY <1>10, <1>11, <1>12 DEF ToServer, Cut
<1>. QED  BY <1>6, <1>13

(* Every step keeps what the server receives. *)
LEMMA ToServerStep ==
  ASSUME ControlInv, ToServerOK, [Next]_vars  PROVE ToServerOK'
<1>1. CASE ThreadStep
  BY <1>1, ToServerThread, ToServerReceiveWrite DEF ThreadStep
<1>2. CASE ServeStep
  BY <1>2, ToServerServe, ToServerReceived DEF ServeStep
<1>3. CASE ClientStep \/ Close
  BY <1>3, ToServerClient, ToServerPulse DEF ClientStep
<1>4. CASE \E n \in Lengths : ClientWrite(n)
  BY <1>4, ToServerWrite
<1>5. CASE ConnectToServer
  BY <1>5, ToServerConnect
<1>6. CASE \/ ServerStep \/ ServerCloses \/ ServerListens \/ UNCHANGED vars
           \/ \E s \in Sessions, n \in Lengths : ServerWrite(s, n)
  BY <1>6, ToServerServer DEF ServerStep
<1>. QED  BY <1>1, <1>2, <1>3, <1>4, <1>5, <1>6 DEF Next

-----------------------------------------------------------------------------
(* What has been received *)

LEMMA ChunkFirst ==
  ASSUME NEW s, NEW n \in Nat  PROVE FirstOf(s, Chunk(s, 0, n))
BY DEF FirstOf, Chunk

\* All but the last message of a session are served in one of these ways.
LEMMA OtherServed ==
  ASSUME ServeStep, ~ServeDisconnect
  PROVE  \E type : Serves(type) /\ type # "Disconnect"
<1>1. ServeInit => Serves("Init")
  BY DEF ServeInit
<1>2. ServeRespond => Serves("Respond")
  BY DEF ServeRespond
<1>3. ServeRepeat => Serves("Repeat")
  BY DEF ServeRepeat
<1>4. ServeReceive => Serves("Receive")
  BY DEF ServeReceive
<1>5. \E type \in {"Init", "Respond", "Repeat", "Receive"} : Serves(type)
  BY <1>1, <1>2, <1>3, <1>4 DEF ServeStep
<1>. QED  BY <1>5

\* What the client has of a session that is not up stays, or what it has not read goes.
LEMMA ClientHas ==
  ASSUME ControlInv, [Next]_vars, ~linked'
  PROVE  /\ session' = session
         /\ got' \o buffer' = got \o buffer \/ (got' = got /\ buffer' = <<>>)
<1>. USE DEF clientVars, clientData, threadVars, serverVars, historyVars
<1>1. CASE ClientStep
  <2>1. CASE ClientRead
    <3>1. session' = session /\ got' = got \o buffer /\ buffer' = <<>>
      BY <2>1 DEF ClientRead
    <3>2. got \in ByteStreams /\ buffer \in ByteStreams
      BY DEF ControlInv, TypeOK
    <3>3. got \o buffer \in ByteStreams
      BY <3>2, StreamsJoin
    <3>. QED  BY <3>1, <3>3, ConcatEmptySeq DEF ByteStreams
  <2>2. CASE Joined
    BY <2>2 DEF Joined
  <2>3. CASE RegisterFails \/ ClientPulse
    BY <2>3 DEF RegisterFails, ClientPulse
  <2>. QED  BY <1>1, <2>1, <2>2, <2>3 DEF ClientStep
<1>2. CASE ThreadStep
  <2>1. CASE ReceiveTxRequest \/ ReceiveWrite \/ ReceiveTerminate
    BY <2>1 DEF ReceiveTxRequest, ReceiveWrite, ReceiveTerminate, Receives
  <2>2. CASE AskForRest \/ SendFails
    BY <2>2 DEF AskForRest, SendFails
  <2>. QED  BY <1>2, <2>1, <2>2 DEF ThreadStep
<1>3. CASE ServeStep
  <2>1. CASE ServeDisconnect
    BY <2>1 DEF ServeDisconnect, Serves
  <2>2. CASE ~ServeDisconnect
    <3>1. PICK type : Serves(type) /\ type # "Disconnect"
      BY <1>3, <2>2, OtherServed
    <3>2. linked /\ linked' = linked
      BY <3>1, MessageServed
    <3>. QED  BY <3>2
  <2>. QED  BY <2>1, <2>2
<1>4. CASE ServerStep
  BY <1>4 DEF ServerStep, NewConnection, OnDisconnected, ServerRead, Handles, ServerPulse
<1>5. CASE Close \/ ServerCloses \/ ServerListens \/ UNCHANGED vars
  BY <1>5 DEF Close, ServerCloses, ServerListens, vars
<1>6. CASE \/ \E n \in Lengths : ClientWrite(n)
           \/ \E s \in Sessions, n \in Lengths : ServerWrite(s, n)
  BY <1>6 DEF ClientWrite, ServerWrite
<1>7. ~ConnectToServer
  BY DEF ConnectToServer
<1>. QED  BY <1>1, <1>2, <1>3, <1>4, <1>5, <1>6, <1>7 DEF Next

\* What the server has of such a session stays, or goes with its source.
LEMMA ServerHas ==
  ASSUME ControlInv, [Next]_vars, NEW s \in Sessions, ~(s = session' /\ linked')
  PROVE  sources'[s].got \o sources'[s].buffer
           \in {sources[s].got \o sources[s].buffer, <<>>}
<1>. USE DEF clientVars, clientData, threadVars, serverVars, historyVars
<1>0. sources \in [Sessions -> Sources]
  BY DEF ControlInv, StateOK
<1>1. CASE ClientStep \/ Close \/ ConnectToServer \/ \E n \in Lengths : ClientWrite(n)
  BY <1>1 DEF ClientStep, RegisterFails, ClientPulse, ClientRead, Joined, Close, ConnectToServer,
              ClientWrite
<1>2. CASE ThreadStep
  BY <1>2 DEF ThreadStep, ReceiveTxRequest, ReceiveWrite, ReceiveTerminate, Receives, AskForRest,
              SendFails
<1>3. CASE ServeStep
  <2>1. CASE ServeDisconnect
    <3>. DEFINE t == Head(inbox).session
    <3>1. sources' = [sources EXCEPT ![t].known = FALSE, ![t].serverClosing = TRUE]
      BY <2>1 DEF ServeDisconnect
    <3>. HIDE DEF t
    <3>2. sources'[s].got = sources[s].got /\ sources'[s].buffer = sources[s].buffer
      BY <1>0, <3>1 DEF Sources
    <3>. QED  BY <3>2
  <2>2. CASE ~ServeDisconnect
    <3>1. PICK type : Serves(type) /\ type # "Disconnect"
      BY <1>3, <2>2, OtherServed
    <3>2. PICK t \in Sessions : t = session /\ t # s /\ Head(inbox).session = t
      <4>1. linked /\ linked' = linked /\ session' = session /\ session \in Sessions
            /\ Head(inbox).session = session
        BY <3>1, MessageServed
      <4>. QED  BY <4>1
    <3>3. \E x : \/ sources' = [sources EXCEPT ![t] = x]
                 \/ sources' = [sources EXCEPT ![t].obuffer = x]
                 \/ \E y : sources' = [sources EXCEPT ![t].buffer = x, ![t].early = y]
      <4>1. CASE ServeInit
        BY <3>2, <4>1 DEF ServeInit, CreateSource
      <4>2. CASE ServeRespond
        BY <3>2, <4>2 DEF ServeRespond
      <4>3. CASE ServeRepeat
        BY <3>2, <4>3 DEF ServeRepeat
      <4>4. CASE ServeReceive
        <5>. DEFINE all == sources[t].buffer \o Head(inbox).payload
                    untold == ~sources[t].attached
        <5>1. sources' = [sources EXCEPT ![t].buffer = all, ![t].early = untold]
          BY <3>2, <4>4 DEF ServeReceive
        <5>. HIDE DEF all, untold
        <5>. QED  BY <5>1
      <4>. QED  BY <1>3, <2>2, <4>1, <4>2, <4>3, <4>4 DEF ServeStep
    <3>4. sources'[s] = sources[s]
      BY <1>0, <3>2, <3>3
    <3>. QED  BY <3>4
  <2>. QED  BY <2>1, <2>2
<1>4. CASE ServerStep
  <2>. DEFINE t == Head(posted)[2]
  <2>1. CASE NewConnection
    <3>1. sources' = [sources EXCEPT ![t].attached = TRUE]
      BY <2>1 DEF NewConnection
    <3>. HIDE DEF t
    <3>2. sources'[s].got = sources[s].got /\ sources'[s].buffer = sources[s].buffer
      BY <1>0, <3>1 DEF Sources
    <3>. QED  BY <3>2
  <2>2. CASE OnDisconnected
    <3>1. sources' = [sources EXCEPT ![t] = NoSource]
      BY <2>2 DEF OnDisconnected
    <3>2. CASE s = t
      <4>1. sources'[s].got = <<>> /\ sources'[s].buffer = <<>>
        BY <1>0, <3>1, <3>2 DEF NoSource
      <4>. QED  BY <4>1
    <3>3. CASE s # t
      <4>. HIDE DEF t
      <4>. QED  BY <1>0, <3>1, <3>3
    <3>. QED  BY <3>2, <3>3
  <2>3. CASE ServerRead
    <3>. DEFINE all == sources[t].got \o sources[t].buffer
    <3>1. sources' = [sources EXCEPT ![t].got = all, ![t].buffer = <<>>]
      BY <2>3 DEF ServerRead
    <3>2. t = s => all = sources[s].got \o sources[s].buffer /\ all \in ByteStreams
      BY <1>0, StreamsJoin DEF Sources
    <3>. HIDE DEF all, t
    <3>3. CASE t = s
      <4>1. sources'[s].got = all /\ sources'[s].buffer = <<>>
        BY <1>0, <3>1, <3>3 DEF Sources
      <4>2. all \o <<>> = all
        BY <3>2, <3>3, ConcatEmptySeq DEF ByteStreams
      <4>. QED  BY <3>2, <3>3, <4>1, <4>2
    <3>4. CASE t # s
      <4>1. sources'[s] = sources[s]
        BY <1>0, <3>1, <3>4
      <4>. QED  BY <4>1
    <3>. QED  BY <3>3, <3>4
  <2>4. CASE ServerPulse
    BY <2>4 DEF ServerPulse
  <2>. QED  BY <1>4, <2>1, <2>2, <2>3, <2>4 DEF ServerStep
<1>5. CASE ServerCloses
  <2>1. sources'[s].got = <<>> /\ sources'[s].buffer = <<>>
    BY <1>5 DEF ServerCloses, NoSource
  <2>. QED  BY <2>1
<1>6. CASE ServerListens \/ UNCHANGED vars
  BY <1>6 DEF ServerListens, vars
<1>7. ASSUME NEW t \in Sessions, NEW n \in Lengths, ServerWrite(t, n)
      PROVE  sources'[s].got = sources[s].got /\ sources'[s].buffer = sources[s].buffer
  <2>1. sources' = [sources EXCEPT ![t].obuffer = Append(@, Chunk(t, sources[t].sent, n)),
                                   ![t].sent = @ + n]
    BY <1>7 DEF ServerWrite
  <2>. QED  BY <1>0, <2>1 DEF Sources
<1>. QED  BY <1>1, <1>2, <1>3, <1>4, <1>5, <1>6, <1>7 DEF Next

\* Bytes that were lost stay so.
LEMMA LostKept ==
  ASSUME [Next]_vars  PROVE lost \subseteq lost'
<1>. USE DEF historyVars
<1>1. CASE ClientStep
  BY <1>1 DEF ClientStep, RegisterFails, ClientPulse, ClientRead, Joined
<1>2. CASE ThreadStep
  BY <1>2 DEF ThreadStep, ReceiveTxRequest, ReceiveWrite, ReceiveTerminate, Receives, AskForRest,
              SendFails
<1>3. CASE ServeStep
  <2>1. \E type : Serves(type)
    BY <1>3, OtherServed DEF ServeDisconnect
  <2>. QED  BY <2>1 DEF Serves
<1>4. CASE ServerStep
  BY <1>4 DEF ServerStep, NewConnection, OnDisconnected, ServerRead, Handles, ServerPulse
<1>5. CASE ConnectToServer \/ Close \/ ServerCloses \/ ServerListens \/ UNCHANGED vars
  BY <1>5 DEF ConnectToServer, Close, ServerCloses, ServerListens, vars
<1>6. CASE \/ \E n \in Lengths : ClientWrite(n)
           \/ \E s \in Sessions, n \in Lengths : ServerWrite(s, n)
  BY <1>6 DEF ClientWrite, ServerWrite
<1>. QED  BY <1>1, <1>2, <1>3, <1>4, <1>5, <1>6 DEF Next

(* Of bytes that are the first of a session, the first are. *)
LEMMA FirstBytes ==
  ASSUME NEW s, NEW a \in ByteStreams, NEW b \in ByteStreams, FirstOf(s, a \o b)
  PROVE  FirstOf(s, a)
<1>. DEFINE S == (Sessions \cup {0}) \X Nat
<1>1. a \in Seq(S) /\ b \in Seq(S)
  BY DEF ByteStreams
<1>. HIDE DEF S
<1>2. /\ Len(a) \in Nat /\ Len(b) \in Nat /\ Len(a \o b) = Len(a) + Len(b)
      /\ a \o b \in Seq(S) /\ \A i \in 1..Len(a) + Len(b) : i <= Len(a) => (a \o b)[i] = a[i]
  BY <1>1, ConcatProperties, LenProperties
<1>3. DOMAIN a = 1..Len(a) /\ DOMAIN (a \o b) = 1..Len(a) + Len(b)
  BY <1>1, <1>2, LenProperties
<1>4. ASSUME NEW i \in DOMAIN a  PROVE a[i] = <<s, i>>
  <2>1. i \in 1..Len(a) + Len(b) /\ i <= Len(a) /\ i \in DOMAIN (a \o b)
    BY <1>2, <1>3
  <2>. QED  BY <1>2, <2>1 DEF FirstOf
<1>. QED  BY <1>4 DEF FirstOf

(* Every step keeps what has been received: while the session is up, the    *)
(* streams say what it is; afterwards, nothing is added to it.              *)
LEMMA ReadStep ==
  ASSUME ControlInv, ReadOK, ControlInv', ToClientOK', ToServerOK', [Next]_vars
  PROVE  ReadOK'
<1>0. lost \subseteq lost'
  BY LostKept
<1>1. ASSUME <<"toClient", session'>> \notin lost', linked'
      PROVE  FirstOf(session', got' \o buffer')
  <2>1. PICK s \in Sessions : s = session'
    BY <1>1 DEF ControlInv, ClientOK
  <2>2. PICK e : ToClient(s, e)'
    BY <2>1 DEF ToClientOK
  <2>3. Receiving(e)' /\ Cut(sources'[s].obuffer, s, e)
    BY <1>1, <2>1, <2>2 DEF ToClient
  <2>4. PICK n \in Nat : n = e[0]
    <3>1. sources'[s].obuffer \in Seq(ByteStreams)
      BY DEF ControlInv, StateOK, Sources
    <3>2. 0 \in 0..Len(sources'[s].obuffer)
      BY <3>1, LenProperties
    <3>. QED  BY <2>3, <3>2 DEF Cut
  <2>5. got' \o buffer' = Chunk(s, 0, n)
    BY <2>1, <2>3, <2>4 DEF Receiving
  <2>. QED  BY <2>1, <2>5, ChunkFirst
<1>2. ASSUME <<"toClient", session'>> \notin lost', ~linked'
      PROVE  FirstOf(session', got' \o buffer')
  <2>1. /\ session' = session
        /\ got' \o buffer' = got \o buffer \/ (got' = got /\ buffer' = <<>>)
    BY <1>2, ClientHas
  <2>2. FirstOf(session, got \o buffer)
    BY <1>0, <1>2, <2>1 DEF ReadOK
  <2>3. got \in ByteStreams /\ buffer \in ByteStreams
    BY DEF ControlInv, TypeOK
  <2>4. FirstOf(session, got) /\ got \o <<>> = got
    BY <2>2, <2>3, FirstBytes, ConcatEmptySeq DEF ByteStreams
  <2>. QED  BY <2>1, <2>2, <2>4
<1>3. ASSUME NEW s \in Sessions, <<"toServer", s>> \notin lost', s = session', linked'
      PROVE  FirstOf(s, sources'[s].got \o sources'[s].buffer)
  <2>1. (\E e : \E b \in Nat : ToServer(e, b))'
    <3>1. linked' /\ <<"toServer", session'>> \notin lost'
      BY <1>3
    <3>. QED  BY <3>1 DEF ToServerOK
  <2>2. PICK b \in Nat : \E e : ToServer(e, b)'
    BY <2>1
  <2>3. sources'[s].got \o sources'[s].buffer = Chunk(s, 0, b)
    BY <1>3, <2>2 DEF ToServer
  <2>. QED  BY <2>3, ChunkFirst
<1>4. ASSUME NEW s \in Sessions, <<"toServer", s>> \notin lost', ~(s = session' /\ linked')
      PROVE  FirstOf(s, sources'[s].got \o sources'[s].buffer)
  <2>1. FirstOf(s, sources[s].got \o sources[s].buffer)
    BY <1>0, <1>4 DEF ReadOK
  <2>2. FirstOf(s, <<>>)
    BY DEF FirstOf
  <2>. QED  BY <1>4, <2>1, <2>2, ServerHas
<1>. QED  BY <1>1, <1>2, <1>3, <1>4 DEF ReadOK

-----------------------------------------------------------------------------
(* The theorems *)

(* At first nothing is under way. *)
LEMMA StreamInit ==
  ASSUME Init  PROVE StreamInv
<1>. USE DEF Init
<1>0. /\ <<>> \in ByteStreams /\ <<>> \in Seq(ByteStreams) /\ Len(<<>>) = 0
      /\ 0 \in 0..MaxWrites /\ 0 \in 0..MaxSessions /\ 0 \in 0..(MaxWrites + 1)
      /\ <<>> \o <<>> = <<>>
  BY BoundsAreNaturals, EmptySeq, ConcatEmptySeq DEF ByteStreams
<1>1. \A s \in Sessions : sources[s] = NoSource /\ s # 0 /\ s > 0
  BY DEF Sessions
<1>2. TypeOK
  BY <1>0, <1>1 DEF TypeOK, NoThread, NoSource
<1>3. StateOK
  <2>1. /\ pulses \in Seq(Pulses) /\ inbox \in Seq(Messages) /\ posted \in Seq(Events)
        /\ thread \in Threads
    BY <1>0, EmptySeq DEF NoThread, Threads
  <2>2. NoSource \in Sources
    BY <1>0 DEF NoSource, Sources
  <2>3. \A s \in Sessions : Len(sources[s].obuffer) <= writes
    BY <1>0, <1>1 DEF NoSource
  <2>. QED  BY <1>0, <2>1, <2>2, <2>3 DEF StateOK
<1>4. ClientOK /\ InboxOK
  BY <1>0 DEF ClientOK, InboxOK, NoThread
<1>5. SourcesOK
  <2>1. ~linked /\ announces[1] = 0 /\ 1..Len(posted) = {}
    BY <1>0
  <2>2. \A s \in Sessions : ~sources[s].known /\ sources[s] = NoSource /\ s # 0
    BY <1>1 DEF NoSource
  <2>. HIDE DEF Init
  <2>. QED  BY <2>1, <2>2 DEF SourcesOK
<1>6. ToClientOK
  <2>. SUFFICES ASSUME NEW s \in Sessions  PROVE \E e : ToClient(s, e)
    BY DEF ToClientOK
  <2>1. PICK e : e = [i \in 0..0 |-> 0]
    OBVIOUS
  <2>2. sources[s].obuffer = <<>> /\ sources[s].sent = 0
    BY <1>1 DEF NoSource
  <2>3. Cut(<<>>, s, e)
    BY <1>0, <2>1 DEF Cut
  <2>4. ToClient(s, e)
    BY <1>0, <2>1, <2>2, <2>3 DEF ToClient
  <2>. QED  BY <2>4
<1>7. ToServerOK
  BY DEF ToServerOK
<1>8. ReadOK
  <2>1. \A s \in Sessions : sources[s].got = <<>> /\ sources[s].buffer = <<>>
    BY <1>1 DEF NoSource
  <2>2. \A s : FirstOf(s, <<>> \o <<>>)
    BY <1>0 DEF FirstOf
  <2>3. got = <<>> /\ buffer = <<>>
    OBVIOUS
  <2>. HIDE DEF Init
  <2>. QED  BY <2>1, <2>2, <2>3 DEF ReadOK
<1>. QED  BY <1>2, <1>3, <1>4, <1>5, <1>6, <1>7, <1>8 DEF StreamInv, ControlInv

(* Every step keeps all of it. *)
LEMMA StreamStep ==
  ASSUME StreamInv, [Next]_vars  PROVE StreamInv'
<1>1. ControlInv /\ ToClientOK /\ ToServerOK /\ ReadOK
  BY DEF StreamInv
<1>2. ControlInv' /\ ToClientOK' /\ ToServerOK'
  BY <1>1, ControlStep, ToClientStep, ToServerStep
<1>3. ReadOK'
  BY <1>1, <1>2, ReadStep
<1>. QED  BY <1>2, <1>3 DEF StreamInv

(* It is as the properties say. *)
LEMMA StreamsFollow ==
  ASSUME StreamInv  PROVE TypeOK /\ Streams
<1>1. TypeOK /\ StateOK /\ ReadOK /\ InboxOK /\ SourcesOK
  BY DEF StreamInv, ControlInv
<1>2. ASSUME NEW i \in DOMAIN inbox, inbox[i].type \in {"Respond", "Repeat", "Receive"}
      PROVE  sources[inbox[i].session].known
  <2>1. i \in 1..Len(inbox)
    BY <1>1, LenProperties DEF StateOK
  <2>2. Awaited(inbox[i])
    BY <1>1, <1>2, <2>1 DEF InboxOK, Ended
  <2>3. linked /\ inbox[i].session = session
    BY <2>2 DEF Awaited
  <2>4. clientAt # "registering"
    <3>1. thread.at \in {"responding", "repeating", "sending"}
      BY <1>2, <2>2 DEF Awaited
    <3>. QED  BY <3>1 DEF StreamInv, ControlInv, ClientOK, NoThread
  <2>. QED  BY <1>1, <2>3, <2>4 DEF SourcesOK
<1>. QED  BY <1>1, <1>2 DEF Streams, ReadOK

(* Types, and that between connections the device holds nothing: neither a  *)
(* pulse nor a byte of a session that has ended can be taken for one of the *)
(* next, since disconnectFromServer waits for the thread.                   *)
THEOREM TypeCorrect == Spec => []TypeOK
<1>1. Init => StreamInv
  BY StreamInit
<1>2. StreamInv /\ [Next]_vars => StreamInv'
  BY StreamStep
<1>3. StreamInv => TypeOK
  BY StreamsFollow
<1>. QED  BY <1>1, <1>2, <1>3, PTL DEF Spec

(* QQnxNativeIo and QIOQnxSource give their readers the first bytes of the  *)
(* other side's session, in order and once, as long as no pulse of the      *)
(* session has been refused; and the server's thread knows the source of    *)
(* every request and payload it serves: so the asserts of                   *)
(* QQnxNativeServer::thread_func on the length, the number of pulses and    *)
(* the source hold, for writes of all lengths.                              *)
THEOREM StreamsAreRight == Spec => []Streams
<1>1. Init => StreamInv
  BY StreamInit
<1>2. StreamInv /\ [Next]_vars => StreamInv'
  BY StreamStep
<1>3. StreamInv => Streams
  BY StreamsFollow
<1>. QED  BY <1>1, <1>2, <1>3, PTL DEF Spec

=============================================================================
