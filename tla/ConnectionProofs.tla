-------------------------- MODULE ConnectionProofs --------------------------
(***************************************************************************)
(* Theorems about Connection, for any urls, hosts and greetings: a device  *)
(* that has to try again does, only devices that once spoke to a           *)
(* compatible host take over what another one lists, and a device reads    *)
(* whole packets unless it lost a connection in the middle of one.         *)
(***************************************************************************)
EXTENDS Connection, SequenceTheorems, FiniteSetTheorems, TLAPS

-----------------------------------------------------------------------------
(* Retries *)

(* What RetryArmed rests on: a device is made, and its socket tries, only  *)
(* for a url that was requested, so that onShouldReconnect finds the url   *)
(* again; and the timer runs as long as its list is not empty.             *)
DevicesOK ==
  /\ device \in [Urls -> {"none", "alive", "deleted"}]
  /\ socket \in [Urls -> {"Unconnected", "Connecting", "Connected"}]
  /\ \A u \in Urls :
       device[u] # "none" \/ socket[u] # "Unconnected" => u \in requestedUrls

TimerOK ==
  /\ pendingReconnect \subseteq requestedUrls
  /\ pendingReconnect # {} => timerActive

RetryInv == DevicesOK /\ TimerOK /\ RetryArmed

(* An attempt is made, or the socket is left as it is. *)
LEMMA AttemptedType ==
  ASSUME DevicesOK, NEW u \in Urls, NEW resolved
  PROVE  Attempted(u, resolved) \in {"Connecting", socket[u]}
BY DEF Attempted

(* A socket that goes down while its url is requested is on the list. *)
LEMMA RetryAfterLoss ==
  ASSUME RetryInv, NEW u \in Urls, socket[u] # "Unconnected",
         socket' = [socket EXCEPT ![u] = "Unconnected"],
         UNCHANGED <<requestedUrls, device, closing, gaveUp, unresolved>>,
         OnShouldReconnect(u)
  PROVE  RetryInv'
<1>1. /\ u \in requestedUrls /\ timerActive' = TRUE
      /\ pendingReconnect' = pendingReconnect \cup {u}
  BY DEF RetryInv, DevicesOK, OnShouldReconnect, Pending
<1>2. DevicesOK' /\ TimerOK'
  BY <1>1 DEF RetryInv, DevicesOK, TimerOK
<1>3. RetryArmed'
  BY <1>1 DEF RetryInv, DevicesOK, RetryArmed, SocketUrls, Urls
<1>. QED  BY <1>2, <1>3 DEF RetryInv

(* initConnection leaves a new device connecting, or marks it as one whose *)
(* host has no address.                                                    *)
LEMMA RetryInit ==
  ASSUME NEW u \in Urls, RetryInv, InitConnection(u)  PROVE RetryInv'
<1>1. PICK resolved \in SUBSET ({u} \cap TcpUrls) :
        /\ socket' = [socket EXCEPT ![u] = Attempted(u, resolved)]
        /\ unresolved' = IF u \in TcpUrls \ resolved THEN unresolved \cup {u}
                                                     ELSE unresolved
  BY DEF InitConnection
<1>2. /\ requestedUrls' = requestedUrls \cup {u}
      /\ device' = IF Creates(u) THEN [device EXCEPT ![u] = "alive"] ELSE device
      /\ UNCHANGED <<closing, pendingReconnect, timerActive, gaveUp>>
  BY DEF InitConnection, timerVars
<1>3. Attempted(u, resolved) \in {"Connecting", socket[u]}
  BY AttemptedType DEF RetryInv
<1>4. DevicesOK' /\ TimerOK'
  BY <1>1, <1>2, <1>3 DEF RetryInv, DevicesOK, TimerOK
<1>5. ASSUME NEW v \in SocketUrls, device'[v] = "alive", v \notin closing',
             socket'[v] = "Unconnected"
      PROVE  v \in gaveUp' \cup unresolved' \/ (v \in pendingReconnect' /\ timerActive')
  <2>1. CASE v # u
    <3>1. device[v] = "alive" /\ socket[v] = "Unconnected" /\ v \in Urls
      BY <1>1, <1>2, <1>5, <2>1 DEF RetryInv, DevicesOK, Urls
    <3>. QED  BY <1>1, <1>2, <1>5, <3>1 DEF RetryInv, RetryArmed
  <2>2. CASE v = u
    <3>1. socket'[u] = Attempted(u, resolved)
      BY <1>1 DEF RetryInv, DevicesOK
    <3>2. u \notin resolved /\ u \notin LocalUrls
      BY <1>2, <1>5, <2>2, <3>1
      DEF Attempted, Open, TcpCanTry, LocalCanTry, RetryInv, DevicesOK
    <3>. QED  BY <1>1, <2>2, <3>2 DEF SocketUrls
  <2>. QED  BY <2>1, <2>2
<1>6. RetryArmed'
  BY <1>5 DEF RetryArmed
<1>. QED  BY <1>4, <1>6 DEF RetryInv

(* The timer takes off its list only devices that are open, and stops      *)
(* only when the list is empty.                                            *)
LEMMA RetryTimer ==
  ASSUME RetryInv, TimerEvent  PROVE RetryInv'
<1>1. PICK resolved :
        socket' = [u \in Urls |-> IF u \in pendingReconnect
                                  THEN Attempted(u, resolved) ELSE socket[u]]
  BY DEF TimerEvent
<1>2. /\ pendingReconnect' = {u \in pendingReconnect : ~Open(u)}
      /\ timerActive' = (pendingReconnect' # {})
      /\ UNCHANGED <<requestedUrls, device, closing, gaveUp, unresolved>>
      /\ \A u \in pendingReconnect : device[u] # "deleted"
  BY DEF TimerEvent
<1>3. ASSUME NEW u \in Urls
      PROVE  socket'[u] = IF u \in pendingReconnect THEN Attempted(u, resolved)
                          ELSE socket[u]
  BY <1>1
<1>4. ASSUME NEW u \in SocketUrls, device'[u] = "alive", u \notin closing',
             socket'[u] = "Unconnected"
      PROVE  u \in gaveUp' \cup unresolved' \/ (u \in pendingReconnect' /\ timerActive')
  <2>1. socket[u] = "Unconnected" /\ u \in Urls
    BY <1>3, <1>4 DEF Attempted, Urls
  <2>2. u \in gaveUp \cup unresolved \/ u \in pendingReconnect
    BY <1>2, <1>4, <2>1 DEF RetryInv, RetryArmed
  <2>3. ~Open(u)
    BY <2>1 DEF Open
  <2>. QED  BY <1>2, <2>2, <2>3
<1>5. DevicesOK'
  <2>1. \A u \in Urls : Attempted(u, resolved) \in {"Connecting", socket[u]}
    BY AttemptedType DEF RetryInv
  <2>2. \A u \in pendingReconnect : u \in requestedUrls
    BY DEF RetryInv, TimerOK
  <2>. QED  BY <1>1, <1>2, <2>1, <2>2 DEF RetryInv, DevicesOK
<1>6. RetryArmed' /\ TimerOK'
  BY <1>2, <1>4 DEF RetryInv, RetryArmed, TimerOK
<1>. QED  BY <1>5, <1>6 DEF RetryInv

(* Devices that are closed, deleted or connected need no retry. *)
LEMMA RetryOther ==
  ASSUME RetryInv, NEW u \in Urls, UNCHANGED <<requestedUrls, timerVars, unresolved>>,
         \/ UNCHANGED <<device, closing, socket, gaveUp>>
         \/ /\ socket[u] # "Unconnected" /\ gaveUp' = gaveUp \ {u}
            /\ socket' = [socket EXCEPT ![u] = "Connected"]
            /\ UNCHANGED <<device, closing>>
         \/ /\ socket[u] # "Unconnected" /\ gaveUp' = gaveUp \cup {u}
            /\ socket' = [socket EXCEPT ![u] = "Unconnected"]
            /\ UNCHANGED <<device, closing>>
         \/ /\ closing' = closing \cup {u} /\ UNCHANGED <<device, gaveUp>>
            /\ socket' = [socket EXCEPT ![u] = "Unconnected"]
         \/ /\ device' = [device EXCEPT ![u] = "deleted"] /\ device[u] = "alive"
            /\ UNCHANGED <<closing, socket, gaveUp>>
  PROVE  RetryInv'
BY DEF RetryInv, DevicesOK, TimerOK, RetryArmed, timerVars, SocketUrls, Urls

(* Every step keeps the retries armed. *)
LEMMA RetryStep == RetryInv /\ [Next]_vars => RetryInv'
<1>. SUFFICES ASSUME RetryInv, [Next]_vars  PROVE RetryInv'
  OBVIOUS
<1>. USE DEF timerVars, streamVars, historyVars
<1>1. CASE TimerEvent
  BY <1>1, RetryTimer
<1>2. ASSUME NEW h \in Hosts, HostGone(h) \/ \E u \in Urls : SetHostUrl(h, u)
      PROVE  RetryInv'
  BY <1>2 DEF HostGone, SetHostUrl, RetryInv, DevicesOK, TimerOK, RetryArmed
<1>3. ASSUME NEW u \in Urls, InitConnection(u)
      PROVE  RetryInv'
  BY <1>3, RetryInit
<1>4. ASSUME NEW u \in Urls, Connected(u)
      PROVE  RetryInv'
  BY <1>4, RetryOther DEF Connected
<1>5. ASSUME NEW u \in Urls, Lost(u)
      PROVE  RetryInv'
  BY <1>5, RetryAfterLoss DEF Lost, AfterClosing
<1>6. ASSUME NEW u \in Urls, NEW error, ConnectFails(u, error)
      PROVE  RetryInv'
  <2>1. /\ socket[u] # "Unconnected"
        /\ socket' = [socket EXCEPT ![u] = "Unconnected"]
        /\ UNCHANGED <<requestedUrls, device, closing, unresolved>>
        /\ \/ OnShouldReconnect(u) /\ UNCHANGED gaveUp
           \/ gaveUp' = gaveUp \cup {u} /\ UNCHANGED timerVars
    BY <1>6 DEF ConnectFails
  <2>. QED  BY <2>1, RetryAfterLoss, RetryOther
<1>7. ASSUME NEW u \in Urls, DeleteLater(u)
      PROVE  RetryInv'
  BY <1>7, RetryOther DEF DeleteLater
<1>8. ASSUME NEW u \in Urls, ReadIncomplete(u) \/ ReadInvalid(u)
      PROVE  RetryInv'
  BY <1>8, RetryOther DEF ReadIncomplete, ReadInvalid
<1>9. ASSUME NEW u \in Urls, ReadPacket(u)
      PROVE  RetryInv'
  <2>1. /\ UNCHANGED <<requestedUrls, device, timerVars, gaveUp, unresolved>>
        /\ \/ UNCHANGED <<closing, socket>>
           \/ Close(u)
    BY <1>9 DEF ReadPacket
  <2>. QED  BY <2>1, RetryOther DEF Close, DoClose
<1>10. ASSUME NEW u \in Urls, NEW n, Arrive(u, n)
       PROVE  RetryInv'
  BY <1>10, RetryOther DEF Arrive
<1>11. CASE UNCHANGED vars
  BY <1>11 DEF vars, RetryInv, DevicesOK, TimerOK, RetryArmed
<1>. QED  BY <1>1, <1>2, <1>3, <1>4, <1>5, <1>6, <1>7, <1>8, <1>9, <1>10, <1>11
          DEF Next, Read

(* A device that is neither connected nor connecting nor closed is on the  *)
(* list of the reconnect timer, which runs, unless its last attempt ended  *)
(* in an error that onError ignores or initConnection found no address:    *)
(* for any number of urls, whatever hosts come and go (timerEvent,         *)
(* onShouldReconnect, initConnection).                                     *)
THEOREM RetriesAreArmed == Spec => []RetryArmed
<1>1. Init => RetryInv
  BY DEF Init, RetryInv, DevicesOK, TimerOK, RetryArmed, SocketUrls, Urls
<1>2. RetryInv => RetryArmed
  BY DEF RetryInv
<1>. QED  BY <1>1, <1>2, RetryStep, PTL DEF Spec

-----------------------------------------------------------------------------
(* Versions *)

(* A codec comes with a compatible handshake only. *)
VersionInv ==
  /\ connectedSources \in [Urls -> {"ObjectList", "OtherObjectList", None}]
  /\ codec \subseteq spoke
  /\ VersionChecked

(* A codec is only set by a handshake with a compatible host, and an       *)
(* object list only read with a codec.                                     *)
LEMMA VersionStep == VersionInv /\ [Next]_vars => VersionInv'
<1>. SUFFICES ASSUME VersionInv, [Next]_vars  PROVE VersionInv'
  OBVIOUS
<1>. USE DEF VersionInv, VersionChecked, streamVars, historyVars
<1>1. ASSUME NEW u \in Urls, ReadPacket(u)
      PROVE  VersionInv'
  <2>1. PICK type :
          /\ codec' = IF type = "Handshake" THEN codec \cup {u} ELSE codec
          /\ spoke' = IF type = "Handshake" THEN spoke \cup {u} ELSE spoke
          /\ connectedSources' =
               IF type \in {"ObjectList", "OtherObjectList"}
                  /\ ~ExpectsHandshake(u, type)
               THEN [connectedSources EXCEPT ![u] = type]
               ELSE connectedSources
    BY <1>1 DEF ReadPacket
  <2>. QED  BY <2>1 DEF ExpectsHandshake
<1>2. ASSUME NEW u \in Urls, OnShouldReconnect(u), UNCHANGED <<codec, spoke>>
      PROVE  VersionInv'
  BY <1>2, NoneIsNoList DEF OnShouldReconnect
<1>3. ASSUME UNCHANGED <<connectedSources, codec, spoke>>
      PROVE  VersionInv'
  BY <1>3
<1>4. ASSUME NEW u \in Urls, Lost(u)
      PROVE  VersionInv'
  BY <1>2, <1>4 DEF Lost
<1>5. ASSUME NEW u \in Urls, NEW error, ConnectFails(u, error)
      PROVE  VersionInv'
  <2>1. UNCHANGED <<codec, spoke>>
        /\ (OnShouldReconnect(u) \/ UNCHANGED connectedSources)
    BY <1>5 DEF ConnectFails
  <2>. QED  BY <1>2, <1>3, <2>1
<1>6. ASSUME NEW u \in Urls,
             \/ InitConnection(u) \/ Connected(u) \/ DeleteLater(u)
             \/ ReadIncomplete(u) \/ ReadInvalid(u) \/ \E n \in 1..5 : Arrive(u, n)
      PROVE  VersionInv'
  BY <1>3, <1>6 DEF InitConnection, Connected, DeleteLater, ReadIncomplete, ReadInvalid,
                    Arrive
<1>7. CASE TimerEvent
  BY <1>3, <1>7 DEF TimerEvent
<1>8. ASSUME NEW h \in Hosts, HostGone(h) \/ \E u \in Urls : SetHostUrl(h, u)
      PROVE  VersionInv'
  BY <1>3, <1>8 DEF HostGone, SetHostUrl
<1>9. CASE UNCHANGED vars
  BY <1>3, <1>9 DEF vars
<1>. QED  BY <1>1, <1>4, <1>5, <1>6, <1>7, <1>8, <1>9 DEF Next, Read

(* A device that never spoke to a compatible host takes over nothing from  *)
(* a host of another version: its handshake, or the lack of one, closes    *)
(* the connection before its object list is read (onClientRead).           *)
THEOREM VersionsAreChecked == Spec => []VersionChecked
<1>1. Init => VersionInv
  BY NoneIsNoList DEF Init, VersionInv, VersionChecked
<1>2. VersionInv => VersionChecked
  BY DEF VersionInv
<1>. QED  BY <1>1, <1>2, VersionStep, PTL DEF Spec

-----------------------------------------------------------------------------
(* Types *)

\* The timer's list is counted, so that it has to be finite: its urls were
\* requested, one at a time.
TypeInv ==
  /\ TypeOK
  /\ pendingReconnect \subseteq requestedUrls /\ IsFiniteSet(requestedUrls)

(* A packet is its header and the units of its body. *)
LEMMA PacketType ==
  ASSUME NEW type \in Kinds, NEW size \in 1..2
  PROVE  /\ Packet(type, size) \in Seq(Units) /\ Len(Packet(type, size)) = size + 1
         /\ \A i \in 1..size + 1 : Packet(type, size)[i] = Unit(type, size, i - 1)
<1>1. \A i \in 1..size + 1 : Unit(type, size, i - 1) \in Units
  BY DEF Unit, Units
<1>. QED  BY <1>1 DEF Packet

(* A greeting is a packet of three units and one of two. *)
LEMMA GreetingType ==
  ASSUME NEW h
  PROVE  /\ Greeting(h) \in Seq(Units) /\ Len(Greeting(h)) = 5
         /\ Greeting(h)[1].size = 2 /\ Greeting(h)[4].size = 1
         /\ Greeting(h)[2].pos = 1 /\ Greeting(h)[5].pos = 1
<1>1. PICK first \in Kinds, second \in Kinds :
        Greeting(h) = Packet(first, 2) \o Packet(second, 1)
  BY DEF Greeting, Kinds
<1>. DEFINE p == Packet(first, 2)
            q == Packet(second, 1)
<1>2. /\ p \in Seq(Units) /\ Len(p) = 3 /\ q \in Seq(Units) /\ Len(q) = 2
      /\ p[1] = Unit(first, 2, 0) /\ p[2] = Unit(first, 2, 1)
      /\ q[1] = Unit(second, 1, 0) /\ q[2] = Unit(second, 1, 1)
  BY PacketType
<1>3. Greeting(h) = p \o q
  BY <1>1
<1>. HIDE DEF p, q
<1>4. /\ p \o q \in Seq(Units) /\ Len(p \o q) = 5
      /\ (p \o q)[1] = p[1] /\ (p \o q)[2] = p[2] /\ (p \o q)[4] = q[1] /\ (p \o q)[5] = q[2]
  <2>1. /\ p \o q \in Seq(Units) /\ Len(p \o q) = Len(p) + Len(q)
        /\ \A i \in 1..Len(p) + Len(q) :
             (p \o q)[i] = IF i <= Len(p) THEN p[i] ELSE q[i - Len(p)]
    BY <1>2, ConcatProperties
  <2>. QED  BY <1>2, <2>1
<1>5. /\ Greeting(h)[1] = Unit(first, 2, 0) /\ Greeting(h)[4] = Unit(second, 1, 0)
      /\ Greeting(h)[2] = Unit(first, 2, 1) /\ Greeting(h)[5] = Unit(second, 1, 1)
      /\ Greeting(h) \in Seq(Units) /\ Len(Greeting(h)) = 5
  BY <1>2, <1>3, <1>4
<1>. QED  BY <1>5 DEF Unit

(* What read takes off the buffer are units, and a packet is no more than  *)
(* the buffer holds.                                                        *)
LEMMA HeaderType ==
  ASSUME TypeOK, NEW u \in Urls, buffer[u] # <<>>
  PROVE  /\ Header(u).size \in Nat \ {0} /\ Header(u).rest \in Seq(Units)
         /\ Head(buffer[u]) \in Units /\ Tail(buffer[u]) \in Seq(Units)
<1>1. buffer[u] \in Seq(Units) /\ curReadSize[u] \in Nat
  BY DEF TypeOK
<1>2. Head(buffer[u]) \in Units /\ Tail(buffer[u]) \in Seq(Units)
  BY <1>1, HeadTailProperties
<1>3. Head(buffer[u]).size \in 1..2
  BY <1>2 DEF Units
<1>. QED  BY <1>1, <1>2, <1>3 DEF Header, Huge

(* Each turn of the loop keeps the types. *)
LEMMA TypeRead ==
  ASSUME TypeInv, NEW u \in Urls, Read(u)  PROVE TypeInv'
<1>. USE DEF streamVars, historyVars, hostVars, timerVars
<1>1. /\ Header(u).size \in Nat \ {0} /\ Header(u).rest \in Seq(Units)
      /\ Head(buffer[u]) \in Units /\ Tail(buffer[u]) \in Seq(Units)
  BY HeaderType DEF TypeInv, Read, ReadIncomplete, ReadInvalid, ReadPacket
<1>2. CASE ReadIncomplete(u)
  BY <1>1, <1>2 DEF ReadIncomplete, TypeInv, TypeOK
<1>3. CASE ReadInvalid(u)
  BY <1>1, <1>3 DEF ReadInvalid, TypeInv, TypeOK
<1>4. CASE ReadPacket(u)
  <2>. DEFINE body == Header(u).rest
              rest == Drop(body, Header(u).size)
              type == Head(body).type
  <2>1. /\ curReadSize' = [curReadSize EXCEPT ![u] = 0]
        /\ buffer' = [buffer EXCEPT ![u] = rest] /\ reading' \in {None, u}
        /\ codec' \in {codec \cup {u}, codec} /\ spoke' \in {spoke \cup {u}, spoke}
        /\ connectedSources' \in {[connectedSources EXCEPT ![u] = type], connectedSources}
        /\ connectedSources' # connectedSources => type \in {"ObjectList", "OtherObjectList"}
        /\ Close(u) \/ UNCHANGED <<closing, socket, peer, wire>>
        /\ UNCHANGED <<hostVars, requestedUrls, device, skewed, timerVars,
                       cut, gaveUp, unresolved, losses, failures>>
    BY <1>4 DEF ReadPacket, SizeAfterPacket
  <2>2. rest \in Seq(Units)
    BY <1>1 DEF Drop
  <2>3. /\ curReadSize' \in [Urls -> Nat] /\ buffer' \in [Urls -> Seq(Units)]
        /\ connectedSources' \in [Urls -> {"ObjectList", "OtherObjectList", None}]
    <3>. HIDE DEF rest, type
    <3>1. curReadSize' \in [Urls -> Nat]
      BY <2>1 DEF TypeInv, TypeOK
    <3>2. buffer' \in [Urls -> Seq(Units)]
      BY <2>1, <2>2 DEF TypeInv, TypeOK
    <3>3. connectedSources \in [Urls -> {"ObjectList", "OtherObjectList", None}]
      BY DEF TypeInv, TypeOK
    <3>4. connectedSources' \in [Urls -> {"ObjectList", "OtherObjectList", None}]
      BY <2>1, <3>3
    <3>. QED  BY <3>1, <3>2, <3>4
  <2>4. /\ closing' \in {closing \cup {u}, closing} /\ wire' \in [Urls -> Seq(Units)]
        /\ socket' \in [Urls -> {"Unconnected", "Connecting", "Connected"}]
        /\ peer' \in [Urls -> Hosts \cup {None}]
    <3>1. CASE Close(u)
      <4>1. <<>> \in Seq(Units)
        OBVIOUS
      <4>. QED  BY <3>1, <4>1 DEF Close, DoClose, TypeInv, TypeOK
    <3>2. CASE UNCHANGED <<closing, socket, peer, wire>>
      BY <3>2 DEF TypeInv, TypeOK
    <3>. QED  BY <2>1, <3>1, <3>2
  <2>. HIDE DEF rest, type
  <2>5. /\ requestedUrls' \cup closing' \cup codec' \cup skewed' \cup cut' \cup gaveUp'
             \cup unresolved' \cup spoke' \cup pendingReconnect' \subseteq Urls
        /\ reading' \in Urls \cup {None}
    BY <2>1, <2>4 DEF TypeInv, TypeOK
  <2>6. /\ listening' \in [Hosts -> Urls \cup {None}] /\ bound' \in [Urls -> Hosts \cup {None}]
        /\ device' \in [Urls -> {"none", "alive", "deleted"}] /\ timerActive' \in BOOLEAN
        /\ losses' \in Nat /\ failures' \in Nat
        /\ pendingReconnect' \subseteq requestedUrls' /\ IsFiniteSet(requestedUrls')
    BY <2>1 DEF TypeInv, TypeOK
  <2>. QED  BY <2>3, <2>4, <2>5, <2>6 DEF TypeInv, TypeOK
<1>. QED  BY <1>2, <1>3, <1>4 DEF Read

(* So does the timer, *)
LEMMA TypeTimer ==
  ASSUME TypeInv, TimerEvent  PROVE TypeInv'
<1>. USE DEF streamVars, historyVars, hostVars
<1>1. PICK resolved \in SUBSET (pendingReconnect \cap TcpUrls) :
        /\ failures' = failures
             + Cardinality((pendingReconnect \cap TcpUrls) \ resolved)
        /\ socket' = [u \in Urls |-> IF u \in pendingReconnect
                                     THEN Attempted(u, resolved) ELSE socket[u]]
  BY DEF TimerEvent
<1>2. Cardinality((pendingReconnect \cap TcpUrls) \ resolved) \in Nat
  BY FS_Subset, FS_CardinalityType DEF TypeInv
<1>3. socket' \in [Urls -> {"Unconnected", "Connecting", "Connected"}]
  BY <1>1 DEF Attempted, TypeInv, TypeOK
<1>4. failures' \in Nat
  BY <1>1, <1>2 DEF TypeInv, TypeOK
<1>. QED  BY <1>3, <1>4 DEF TimerEvent, TypeInv, TypeOK

(* and every other step. *)
LEMMA TypeStep == TypeInv /\ [Next]_vars => TypeInv'
<1>. SUFFICES ASSUME TypeInv, [Next]_vars  PROVE TypeInv'
  OBVIOUS
<1>. USE DEF streamVars, historyVars, hostVars, timerVars
<1>1. ASSUME NEW h \in Hosts, HostGone(h) \/ \E u \in Urls : SetHostUrl(h, u)
      PROVE  TypeInv'
  <2>1. CASE HostGone(h)
    BY <2>1 DEF HostGone, TypeInv, TypeOK
  <2>2. ASSUME NEW u \in Urls, SetHostUrl(h, u)
        PROVE  TypeInv'
    BY <2>2 DEF SetHostUrl, TypeInv, TypeOK
  <2>. QED  BY <1>1, <2>1, <2>2
<1>2. ASSUME NEW u \in Urls, InitConnection(u)
      PROVE  TypeInv'
  <2>1. PICK resolved \in SUBSET ({u} \cap TcpUrls) :
          /\ socket' = [socket EXCEPT ![u] = Attempted(u, resolved)]
          /\ unresolved' \in {unresolved \cup {u}, unresolved}
    BY <1>2 DEF InitConnection
  <2>2. socket' \in [Urls -> {"Unconnected", "Connecting", "Connected"}]
    BY <2>1 DEF Attempted, TypeInv, TypeOK
  <2>3. device' \in [Urls -> {"none", "alive", "deleted"}]
    BY <1>2 DEF InitConnection, TypeInv, TypeOK
  <2>4. IsFiniteSet(requestedUrls')
    BY <1>2, FS_AddElement DEF InitConnection, TypeInv
  <2>. QED  BY <1>2, <2>1, <2>2, <2>3, <2>4 DEF InitConnection, TypeInv, TypeOK
<1>3. ASSUME NEW u \in Urls, Connected(u)
      PROVE  TypeInv'
  <2>1. bound[u] \in Hosts /\ Greeting(bound[u]) \in Seq(Units) /\ <<>> \in Seq(Units)
    BY <1>3, GreetingType DEF Connected, TypeInv, TypeOK
  <2>. QED  BY <1>3, <2>1 DEF Connected, TypeInv, TypeOK
<1>4. ASSUME NEW u \in Urls, OnShouldReconnect(u)
      PROVE  /\ connectedSources' \in [Urls -> {"ObjectList", "OtherObjectList", None}]
             /\ pendingReconnect' \subseteq requestedUrls /\ timerActive' \in BOOLEAN
  BY <1>4 DEF OnShouldReconnect, Pending, TypeInv, TypeOK
<1>5. ASSUME NEW u \in Urls, Lost(u)
      PROVE  TypeInv'
  <2>1. <<>> \in Seq(Units) /\ losses' \in Nat /\ cut' \in {cut \cup {u}, cut}
    BY <1>5 DEF Lost, TypeInv, TypeOK
  <2>. QED  BY <1>4, <1>5, <2>1 DEF Lost, AfterClosing, TypeInv, TypeOK
<1>6. ASSUME NEW u \in Urls, NEW error, ConnectFails(u, error)
      PROVE  TypeInv'
  <2>1. \/ OnShouldReconnect(u) /\ UNCHANGED gaveUp
        \/ gaveUp' = gaveUp \cup {u} /\ UNCHANGED <<connectedSources, timerVars>>
    BY <1>6 DEF ConnectFails
  <2>2. /\ connectedSources' \in [Urls -> {"ObjectList", "OtherObjectList", None}]
        /\ pendingReconnect' \subseteq requestedUrls /\ timerActive' \in BOOLEAN
        /\ gaveUp' \subseteq Urls
    BY <1>4, <2>1 DEF TypeInv, TypeOK
  <2>3. failures' \in Nat /\ socket' \in [Urls -> {"Unconnected", "Connecting", "Connected"}]
    BY <1>6 DEF ConnectFails, TypeInv, TypeOK
  <2>. QED  BY <1>6, <2>2, <2>3 DEF ConnectFails, TypeInv, TypeOK
<1>7. ASSUME NEW u \in Urls, DeleteLater(u)
      PROVE  TypeInv'
  BY <1>7 DEF DeleteLater, TypeInv, TypeOK
<1>8. ASSUME NEW u \in Urls, NEW n \in 1..5, Arrive(u, n)
      PROVE  TypeInv'
  <2>1. wire[u] \in Seq(Units) /\ buffer[u] \in Seq(Units) /\ n \in 1..Len(wire[u])
    BY <1>8 DEF Arrive, TypeInv, TypeOK
  <2>2. /\ SubSeq(wire[u], 1, n) \in Seq(Units)
        /\ SubSeq(wire[u], n + 1, Len(wire[u])) \in Seq(Units)
    BY <2>1
  <2>3. buffer[u] \o SubSeq(wire[u], 1, n) \in Seq(Units)
    BY <2>1, <2>2
  <2>. QED  BY <1>8, <2>2, <2>3 DEF Arrive, TypeInv, TypeOK
<1>9. CASE UNCHANGED vars
  BY <1>9 DEF vars, TypeInv, TypeOK
<1>. QED  BY <1>1, <1>2, <1>3, <1>5, <1>6, <1>7, <1>8, <1>9, TypeRead, TypeTimer DEF Next

(* At first nothing is requested. *)
LEMMA TypeInit == Init => TypeInv
<1>. SUFFICES ASSUME Init  PROVE TypeInv
  OBVIOUS
<1>1. <<>> \in Seq(Units) /\ IsFiniteSet({})
  BY FS_EmptySet
<1>. QED  BY <1>1 DEF Init, TypeInv, TypeOK

(* TypeInv holds in every state, *)
LEMMA TypeInvHolds == Spec => []TypeInv
BY TypeInit, TypeStep, PTL DEF Spec

(* and with it the types: what the sockets hold are units of packets, and  *)
(* the failures of timerEvent are those of finitely many devices.          *)
THEOREM TypeCorrect == Spec => []TypeOK
BY TypeInvHolds, PTL DEF TypeInv

-----------------------------------------------------------------------------
(* Framing *)

\* What m_curReadSize is when p units of a greeting have been read.
SizeAt(p, size) ==
  \/ p \in {0, 3, 5} /\ size = 0
  \/ p = 1 /\ size = 2
  \/ p = 4 /\ size = 1

\* The units the socket holds, and those that are still to arrive unless the
\* device was closed, are what is left of the host's greeting.
InStep(u, h, p) ==
  /\ SizeAt(p, curReadSize[u])
  /\ p + Len(buffer[u]) <= 5
  /\ \A i \in 1..Len(buffer[u]) : buffer[u][i] = Greeting(h)[p + i]
  /\ u \notin closing =>
       /\ p + Len(buffer[u]) + Len(wire[u]) = 5
       /\ \A i \in 1..Len(wire[u]) : wire[u][i] = Greeting(h)[p + Len(buffer[u]) + i]

\* A device that reads, or may come to read, is in step; what a loop leaves is
\* less than a packet; and a connection starts between two packets.
FrameOK(u) ==
  /\ u \notin skewed
  /\ reading = u /\ u \notin closing => socket[u] = "Connected"
  /\ reading = u \/ (u \notin closing /\ socket[u] = "Connected") =>
       \E h \in Hosts, p \in 0..5 : InStep(u, h, p)
  /\ u \notin closing /\ reading # u =>
       /\ curReadSize[u] = 0 \/ Len(buffer[u]) < curReadSize[u]
       /\ socket[u] # "Connected" => curReadSize[u] = 0
  /\ u \in closing /\ socket[u] = "Connected" => wire[u] # <<>>

FramesOK == \A u \in Urls : u \notin cut => FrameOK(u)

FrameInv == TypeInv /\ FramesOK

(* A device of which nothing changes stays in step. *)
LEMMA FrameKept ==
  ASSUME FramesOK, NEW u \in Urls, cut \subseteq cut', u \in skewed' => u \in skewed,
         UNCHANGED <<curReadSize[u], buffer[u], wire[u], socket[u]>>,
         u \in closing' <=> u \in closing, reading' = u <=> reading = u
  PROVE  u \notin cut' => FrameOK(u)'
<1>1. \A h, p : InStep(u, h, p) => InStep(u, h, p)'
  BY DEF InStep
<1>2. u \notin cut' => FrameOK(u)
  BY DEF FramesOK
<1>. QED  BY <1>1, <1>2 DEF FrameOK

(* An attempt to connect is made for a device between two packets. *)
LEMMA FrameAttempt ==
  ASSUME FramesOK, NEW u \in Urls, reading = None,
         UNCHANGED <<cut, skewed, closing, reading, curReadSize[u], buffer[u], wire[u]>>,
         \/ socket'[u] = socket[u]
         \/ socket'[u] # "Connected" /\ (u \in closing \/ socket[u] # "Connected")
  PROVE  u \notin cut' => FrameOK(u)'
<1>1. \A h, p : InStep(u, h, p) => InStep(u, h, p)'
  BY DEF InStep
<1>2. u \notin cut' => FrameOK(u)
  BY DEF FramesOK
<1>3. reading # u
  BY NoneIsNoOne DEF Urls, SocketUrls
<1>. QED  BY <1>1, <1>2, <1>3 DEF FrameOK

(* A new connection starts with a whole greeting and a size of 0. *)
LEMMA FrameConnected ==
  ASSUME FrameInv, NEW u \in Urls, Connected(u)
  PROVE  u \notin cut' => FrameOK(u)'
<1>. SUFFICES ASSUME u \notin cut'  PROVE FrameOK(u)'
  OBVIOUS
<1>1. FrameOK(u) /\ reading' = reading /\ closing' = closing /\ reading # u
  BY NoneIsNoOne DEF FrameInv, FramesOK, Connected, Idle, Urls, SocketUrls
<1>2. PICK h \in Hosts : h = bound[u]
  BY DEF Connected, FrameInv, TypeInv, TypeOK
<1>3. /\ wire'[u] = Greeting(h) /\ buffer'[u] = <<>>
      /\ u \notin skewed' /\ curReadSize' = curReadSize /\ socket[u] # "Connected"
  BY <1>2 DEF Connected, FrameInv, TypeInv, TypeOK
<1>4. Len(wire'[u]) = 5 /\ Len(buffer'[u]) = 0 /\ wire'[u] # <<>>
  BY <1>3, GreetingType, EmptySeq
<1>5. u \notin closing => curReadSize'[u] = 0
  BY <1>1, <1>3 DEF FrameOK
<1>6. u \notin closing => InStep(u, h, 0)'
  <2>. SUFFICES ASSUME u \notin closing  PROVE InStep(u, h, 0)'
    OBVIOUS
  <2>1. SizeAt(0, curReadSize'[u])
    BY <1>5 DEF SizeAt
  <2>2. 1..Len(buffer'[u]) = {} /\ 0 + Len(buffer'[u]) = 0 /\ Len(wire'[u]) = 5
    BY <1>4
  <2>3. \A i \in 1..Len(wire'[u]) : wire'[u][i] = Greeting(h)[0 + Len(buffer'[u]) + i]
    BY <1>3, <2>2
  <2>. QED  BY <2>1, <2>2, <2>3 DEF InStep
<1>. QED  BY <1>1, <1>3, <1>4, <1>5, <1>6 DEF FrameOK

(* A connection that is lost between two packets leaves a size of 0. *)
LEMMA FrameLost ==
  ASSUME FrameInv, NEW u \in Urls, Lost(u)
  PROVE  u \notin cut' => FrameOK(u)'
<1>. SUFFICES ASSUME u \notin cut'  PROVE FrameOK(u)'
  OBVIOUS
<1>1. /\ u \notin cut /\ curReadSize[u] = 0 /\ curReadSize' = curReadSize
      /\ skewed' = skewed /\ reading' = reading /\ reading # u /\ closing' = closing
      /\ socket'[u] = "Unconnected"
  BY NoneIsNoOne DEF Lost, AfterClosing, Idle, FrameInv, TypeInv, TypeOK, Urls, SocketUrls
<1>2. FrameOK(u)
  BY <1>1 DEF FrameInv, FramesOK
<1>. QED  BY <1>1, <1>2 DEF FrameOK

(* What arrives and what does not yet. *)
LEMMA TwoParts ==
  ASSUME NEW S, NEW s \in Seq(S), NEW n \in 0..Len(s)
  PROVE  /\ SubSeq(s, 1, n) \in Seq(S) /\ Len(SubSeq(s, 1, n)) = n
         /\ \A i \in 1..n : SubSeq(s, 1, n)[i] = s[i]
         /\ Len(SubSeq(s, n + 1, Len(s))) = Len(s) - n
         /\ \A i \in 1..Len(s) - n : SubSeq(s, n + 1, Len(s))[i] = s[i + n]
<1>1. Len(s) \in Nat /\ \A i \in 1..Len(s) : s[i] \in S
  BY LenProperties, ElementOfSeq
<1>2. /\ SubSeq(s, 1, n) \in Seq(S) /\ Len(SubSeq(s, 1, n)) = IF 1 <= n THEN n-1+1 ELSE 0
      /\ \A i \in 1..n-1+1 : SubSeq(s, 1, n)[i] = s[1+i-1]
  BY <1>1, SubSeqProperties
<1>3. /\ Len(SubSeq(s, n + 1, Len(s))) = IF n + 1 <= Len(s) THEN Len(s)-(n+1)+1 ELSE 0
      /\ \A i \in 1..Len(s)-(n+1)+1 : SubSeq(s, n + 1, Len(s))[i] = s[(n+1)+i-1]
  BY <1>1, SubSeqProperties
<1>4. \A i \in 1..n : SubSeq(s, 1, n)[i] = s[i]
  BY <1>1, <1>2
<1>5. \A i \in 1..Len(s) - n : SubSeq(s, n + 1, Len(s))[i] = s[i + n]
  <2>. TAKE i \in 1..Len(s) - n
  <2>1. i \in 1..Len(s)-(n+1)+1 /\ (n+1)+i-1 = i + n
    BY <1>1
  <2>. QED  BY <1>3, <2>1
<1>. QED  BY <1>1, <1>2, <1>3, <1>4, <1>5

(* What arrives is what comes next. *)
LEMMA FrameArrive ==
  ASSUME FrameInv, NEW u \in Urls, NEW n \in 1..5, Arrive(u, n)
  PROVE  u \notin cut' => FrameOK(u)'
<1>. SUFFICES ASSUME u \notin cut'  PROVE FrameOK(u)'
  OBVIOUS
<1>1. /\ FrameOK(u) /\ u \notin closing /\ socket[u] = "Connected"
      /\ wire[u] \in Seq(Units) /\ buffer[u] \in Seq(Units) /\ n \in 1..Len(wire[u])
      /\ buffer'[u] = buffer[u] \o SubSeq(wire[u], 1, n)
      /\ wire'[u] = SubSeq(wire[u], n + 1, Len(wire[u]))
      /\ reading' = u /\ UNCHANGED <<closing, socket, curReadSize, skewed>>
  <2>1. wire[u] \in Seq(Units) /\ buffer[u] \in Seq(Units)
    BY DEF FrameInv, TypeInv, TypeOK
  <2>2. FrameOK(u)
    BY DEF Arrive, FrameInv, FramesOK, historyVars
  <2>. QED  BY <2>1, <2>2 DEF Arrive, FrameInv, TypeInv, TypeOK
<1>2. PICK h \in Hosts, p \in 0..5 : InStep(u, h, p)
  BY <1>1 DEF FrameOK
<1>. DEFINE come == SubSeq(wire[u], 1, n)
<1>3. PICK b \in Nat, w \in Nat : b = Len(buffer[u]) /\ w = Len(wire[u])
  <2>1. Len(buffer[u]) \in Nat /\ Len(wire[u]) \in Nat
    BY <1>1, LenProperties
  <2>. QED  BY <2>1
<1>4. /\ come \in Seq(Units) /\ Len(come) = n /\ \A i \in 1..n : come[i] = wire[u][i]
      /\ Len(wire'[u]) = w - n /\ \A i \in 1..w - n : wire'[u][i] = wire[u][i + n]
      /\ n \in 1..w
  <2>. HIDE DEF come
  <2>1. wire[u] \in Seq(Units) /\ n \in 0..Len(wire[u]) /\ n \in 1..w
    BY <1>1, <1>3
  <2>2. come \in Seq(Units) /\ Len(come) = n /\ \A i \in 1..n : come[i] = wire[u][i]
    BY <2>1, TwoParts DEF come
  <2>3. /\ Len(SubSeq(wire[u], n + 1, Len(wire[u]))) = Len(wire[u]) - n
        /\ \A i \in 1..Len(wire[u]) - n :
             SubSeq(wire[u], n + 1, Len(wire[u]))[i] = wire[u][i + n]
    BY <2>1, TwoParts
  <2>4. Len(wire'[u]) = Len(wire[u]) - n
        /\ \A i \in 1..Len(wire[u]) - n : wire'[u][i] = wire[u][i + n]
    BY <1>1, <2>3
  <2>5. Len(wire'[u]) = w - n /\ \A i \in 1..w - n : wire'[u][i] = wire[u][i + n]
    BY <1>3, <2>4
  <2>. QED  BY <2>1, <2>2, <2>5
<1>5. /\ Len(buffer'[u]) = b + n
      /\ \A i \in 1..b + n : buffer'[u][i] = IF i <= b THEN buffer[u][i] ELSE come[i - b]
  <2>. HIDE DEF come
  <2>1. buffer[u] \in Seq(Units) /\ buffer'[u] = buffer[u] \o come
    BY <1>1 DEF come
  <2>2. /\ Len(buffer[u] \o come) = Len(buffer[u]) + Len(come)
        /\ \A i \in 1..Len(buffer[u]) + Len(come) : (buffer[u] \o come)[i] =
             IF i <= Len(buffer[u]) THEN buffer[u][i] ELSE come[i - Len(buffer[u])]
    BY <1>4, <2>1, ConcatProperties
  <2>. QED  BY <1>3, <1>4, <2>1, <2>2
<1>6. /\ p + b + w = 5 /\ SizeAt(p, curReadSize[u])
      /\ \A i \in 1..b : buffer[u][i] = Greeting(h)[p + i]
      /\ \A i \in 1..w : wire[u][i] = Greeting(h)[p + b + i]
  BY <1>1, <1>2, <1>3 DEF InStep
<1>. HIDE DEF come
<1>7. \A i \in 1..b + n : buffer'[u][i] = Greeting(h)[p + i]
  <2>. TAKE i \in 1..b + n
  <2>1. CASE i <= b
    BY <1>5, <1>6, <2>1
  <2>2. CASE i > b
    <3>1. PICK k \in 1..n : k = i - b
      <4>1. b \in Nat /\ n \in Nat /\ i \in Nat /\ i <= b + n
        BY <1>3, <1>4
      <4>2. i - b \in 1..n
        BY <2>2, <4>1
      <4>. QED  BY <4>2
    <3>2. buffer'[u][i] = come[k] /\ come[k] = wire[u][k]
      <4>1. come[k] = wire[u][k]
        BY <1>4
      <4>2. buffer'[u][i] = come[i - b]
        BY <1>5, <2>2
      <4>. QED  BY <3>1, <4>1, <4>2
    <3>3. k \in 1..w /\ p + b + k = p + i
      <4>1. n <= w /\ w \in Nat /\ b \in Nat /\ n \in Nat
        BY <1>3, <1>4
      <4>2. k \in 1..w
        BY <4>1
      <4>3. p + b + k = p + i
        BY <3>1, <4>1
      <4>. QED  BY <4>2, <4>3
    <3>4. wire[u][k] = Greeting(h)[p + i]
      BY <1>6, <3>3
    <3>. QED  BY <3>2, <3>4
  <2>. QED  BY <2>1, <2>2
<1>8. \A i \in 1..w - n : wire'[u][i] = Greeting(h)[p + (b + n) + i]
  <2>. TAKE i \in 1..w - n
  <2>1. i + n \in 1..w /\ p + b + (i + n) = p + (b + n) + i
    <3>1. n <= w /\ w \in Nat /\ b \in Nat /\ n \in Nat
      BY <1>3, <1>4
    <3>2. i + n \in 1..w
      BY <3>1
    <3>3. p + b + (i + n) = p + (b + n) + i
      BY <3>1
    <3>. QED  BY <3>2, <3>3
  <2>2. wire[u][i + n] = Greeting(h)[p + (b + n) + i]
    BY <1>6, <2>1
  <2>. QED  BY <1>4, <2>2
<1>9. p + (b + n) <= 5 /\ p + (b + n) + (w - n) = 5
  BY <1>4, <1>6
<1>10. InStep(u, h, p)'
  BY <1>1, <1>4, <1>5, <1>6, <1>7, <1>8, <1>9 DEF InStep
<1>. QED  BY <1>1, <1>10 DEF FrameOK

(* The header read finds is that of the next packet, or the one it kept. *)
LEMMA HeaderInStep ==
  ASSUME FrameInv, NEW u \in Urls, u \notin skewed, buffer[u] # <<>>,
         NEW h \in Hosts, NEW p \in 0..5, InStep(u, h, p)
  PROVE  \E q \in {1, 4} :
           /\ q = IF curReadSize[u] = 0 THEN p + 1 ELSE p
           /\ Header(u).size = IF q = 1 THEN 2 ELSE 1
           /\ Header(u).rest \in Seq(Units)
           /\ q + Len(Header(u).rest) = p + Len(buffer[u])
           /\ \A i \in 1..Len(Header(u).rest) : Header(u).rest[i] = Greeting(h)[q + i]
<1>1. /\ SizeAt(p, curReadSize[u]) /\ p + Len(buffer[u]) <= 5
      /\ \A i \in 1..Len(buffer[u]) : buffer[u][i] = Greeting(h)[p + i]
  BY DEF InStep
<1>2. buffer[u] \in Seq(Units) /\ Len(buffer[u]) \in Nat \ {0}
  BY EmptySeq DEF FrameInv, TypeInv, TypeOK
<1>3. CASE curReadSize[u] # 0
  <2>1. Header(u).rest = buffer[u] /\ Header(u).size = curReadSize[u]
    BY <1>3 DEF Header
  <2>2. p \in {1, 4} /\ curReadSize[u] = IF p = 1 THEN 2 ELSE 1
    BY <1>1, <1>3 DEF SizeAt
  <2>. QED  BY <1>1, <1>2, <1>3, <2>1, <2>2
<1>4. CASE curReadSize[u] = 0
  <2>1. PICK q \in {1, 4} : q = p + 1
    BY <1>1, <1>2, <1>4 DEF SizeAt
  <2>2. /\ Header(u).rest = Tail(buffer[u]) /\ Header(u).size = buffer[u][1].size
        /\ 1 \in 1..Len(buffer[u])
    BY <1>2, <1>4 DEF Header
  <2>3. buffer[u][1] = Greeting(h)[q]
    BY <1>1, <2>1, <2>2
  <2>4. Header(u).size = IF q = 1 THEN 2 ELSE 1
    BY <2>1, <2>2, <2>3, GreetingType
  <2>5. /\ Tail(buffer[u]) \in Seq(Units) /\ Len(Tail(buffer[u])) = Len(buffer[u]) - 1
        /\ \A i \in 1..Len(Tail(buffer[u])) : Tail(buffer[u])[i] = buffer[u][i + 1]
    BY <1>2, HeadTailProperties, EmptySeq
  <2>6. ASSUME NEW i \in 1..Len(Tail(buffer[u]))
        PROVE  Tail(buffer[u])[i] = Greeting(h)[q + i]
    <3>1. i + 1 \in 1..Len(buffer[u]) /\ p + (i + 1) = q + i
      BY <1>2, <2>1, <2>5
    <3>. QED  BY <1>1, <2>5, <3>1
  <2>. QED  BY <1>2, <1>4, <2>1, <2>2, <2>4, <2>5, <2>6
<1>. QED  BY <1>3, <1>4

(* A device in step reads whole packets. *)
LEMMA FrameRead ==
  ASSUME FrameInv, NEW u \in Urls, Read(u)
  PROVE  u \notin cut' => FrameOK(u)'
<1>. SUFFICES ASSUME u \notin cut'  PROVE FrameOK(u)'
  OBVIOUS
<1>1. /\ FrameOK(u) /\ reading = u /\ buffer[u] # <<>> /\ u # None
      /\ curReadSize \in [Urls -> Nat] /\ buffer \in [Urls -> Seq(Units)]
      /\ socket \in [Urls -> {"Unconnected", "Connecting", "Connected"}]
      /\ wire \in [Urls -> Seq(Units)]
  BY NoneIsNoOne
  DEF Read, ReadIncomplete, ReadInvalid, ReadPacket, FrameInv, FramesOK, TypeInv, TypeOK,
      historyVars, Urls, SocketUrls
<1>2. PICK h \in Hosts, p \in 0..5 : InStep(u, h, p)
  BY <1>1 DEF FrameOK
<1>3. u \notin skewed
  BY <1>1 DEF FrameOK
<1>. DEFINE body == Header(u).rest
            size == Header(u).size
<1>4. PICK q \in {1, 4} :
        /\ q = IF curReadSize[u] = 0 THEN p + 1 ELSE p
        /\ size = IF q = 1 THEN 2 ELSE 1
        /\ body \in Seq(Units) /\ q + Len(body) = p + Len(buffer[u])
        /\ \A i \in 1..Len(body) : body[i] = Greeting(h)[q + i]
  <2>1. buffer[u] # <<>> /\ u \notin skewed /\ InStep(u, h, p)
    BY <1>1, <1>2, <1>3
  <2>. QED  BY <2>1, HeaderInStep
<1>5. /\ q + Len(body) <= 5 /\ Len(body) \in Nat
      /\ u \notin closing =>
           /\ q + Len(body) + Len(wire[u]) = 5
           /\ \A i \in 1..Len(wire[u]) : wire[u][i] = Greeting(h)[q + Len(body) + i]
  <2>. HIDE DEF body, size
  <2>1. PICK b \in Nat, l \in Nat : b = Len(buffer[u]) /\ l = Len(body)
    <3>1. Len(buffer[u]) \in Nat /\ Len(body) \in Nat
      BY <1>1, <1>4, LenProperties
    <3>. QED  BY <3>1
  <2>2. q + l = p + b /\ p + b <= 5
    BY <1>2, <1>4, <2>1 DEF InStep
  <2>3. u \notin closing =>
          /\ p + b + Len(wire[u]) = 5
          /\ \A i \in 1..Len(wire[u]) : wire[u][i] = Greeting(h)[p + b + i]
    BY <1>2, <2>1 DEF InStep
  <2>. QED  BY <2>1, <2>2, <2>3
<1>. HIDE DEF body, size
<1>6. CASE ReadIncomplete(u)
  <2>1. /\ Len(body) < size /\ curReadSize'[u] = size /\ buffer'[u] = body
        /\ reading' = None /\ UNCHANGED <<closing, socket, wire, skewed>>
    BY <1>1, <1>6 DEF ReadIncomplete, body, size
  <2>2. SizeAt(q, size)
    BY <1>4 DEF SizeAt
  <2>3. InStep(u, h, q)'
    BY <1>4, <1>5, <2>1, <2>2 DEF InStep
  <2>4. q \in 0..5
    OBVIOUS
  <2>. QED  BY <1>1, <1>3, <2>1, <2>3, <2>4 DEF FrameOK
<1>7. CASE ReadInvalid(u)
  <2>1. /\ curReadSize[u] # 0 /\ Len(buffer[u]) >= curReadSize[u]
        /\ Head(buffer[u]).pos # 1
    BY <1>7 DEF ReadInvalid
  <2>2. body = buffer[u] /\ 1 \in 1..Len(body) /\ Head(body) = body[1]
    BY <1>1, <2>1, EmptySeq DEF Header, body
  <2>3. body[1] = Greeting(h)[q + 1]
    BY <1>4, <2>2
  <2>. QED  BY <1>4, <2>1, <2>2, <2>3, GreetingType
<1>8. CASE ReadPacket(u)
  <2>. DEFINE rest == Drop(body, size)
  <2>1. /\ Len(body) >= size /\ curReadSize' = [curReadSize EXCEPT ![u] = 0]
        /\ buffer' = [buffer EXCEPT ![u] = rest] /\ reading' \in {None, u}
        /\ Close(u) \/ UNCHANGED <<closing, socket, peer, wire>>
        /\ UNCHANGED skewed
    BY <1>8 DEF ReadPacket, SizeAfterPacket, body, size
  <2>2. PICK r \in {3, 5} : r = q + size
    BY <1>4
  <2>3. /\ Len(rest) = Len(body) - size
        /\ \A i \in 1..Len(body) - size : rest[i] = body[i + size]
    <3>1. size \in 0..Len(body)
      BY <1>4, <1>5, <2>1
    <3>2. body \in Seq(Units)
      BY <1>4
    <3>3. /\ Len(SubSeq(body, size + 1, Len(body))) = Len(body) - size
          /\ \A i \in 1..Len(body) - size : SubSeq(body, size + 1, Len(body))[i] = body[i + size]
      BY <3>1, <3>2, TwoParts
    <3>. QED  BY <3>3 DEF Drop
  <2>. HIDE DEF rest
  <2>4. r + Len(rest) = q + Len(body)
    <3>1. PICK l \in Nat, s \in {1, 2} : l = Len(body) /\ s = size
      BY <1>4, <1>5
    <3>. QED  BY <2>2, <2>3, <3>1
  <2>5. \A i \in 1..Len(rest) : rest[i] = Greeting(h)[r + i]
    <3>. TAKE i \in 1..Len(rest)
    <3>1. i + size \in 1..Len(body) /\ i \in 1..Len(body) - size /\ q + (i + size) = r + i
      <4>1. PICK l \in Nat, s \in {1, 2} : l = Len(body) /\ s = size /\ s <= l
        BY <1>4, <1>5, <2>1
      <4>2. Len(rest) = l - s /\ i \in 1..l - s
        BY <2>3, <4>1
      <4>. QED  BY <2>2, <4>1, <4>2
    <3>2. body[i + size] = Greeting(h)[q + (i + size)]
      BY <1>4, <3>1
    <3>3. rest[i] = body[i + size]
      BY <2>3, <3>1
    <3>. QED  BY <3>1, <3>2, <3>3
  <2>6. curReadSize'[u] = 0 /\ buffer'[u] = rest /\ r \in 0..5 /\ SizeAt(r, 0)
    BY <1>1, <2>1 DEF SizeAt
  <2>7. CASE Close(u)
    <3>1. u \in closing' /\ socket'[u] = "Unconnected"
      BY <1>1, <2>7 DEF Close, DoClose
    <3>2. InStep(u, h, r)'
      BY <1>5, <2>4, <2>5, <2>6, <3>1 DEF InStep
    <3>. QED  BY <1>3, <2>1, <2>6, <3>1, <3>2 DEF FrameOK
  <2>8. CASE UNCHANGED <<closing, socket, peer, wire>>
    <3>1. InStep(u, h, r)'
      BY <1>5, <2>4, <2>5, <2>6, <2>8 DEF InStep
    <3>. QED  BY <1>1, <1>3, <2>1, <2>6, <2>8, <3>1 DEF FrameOK
  <2>. QED  BY <2>1, <2>7, <2>8
<1>. QED  BY <1>6, <1>7, <1>8 DEF Read

(* Every step keeps every device in step that lost no connection within a   *)
(* packet.                                                                  *)
LEMMA FrameStep == FrameInv /\ [Next]_vars => FrameInv'
<1>. SUFFICES ASSUME FrameInv, [Next]_vars, NEW v \in Urls, v \notin cut'
              PROVE  FrameOK(v)'
  BY TypeStep DEF FrameInv, FramesOK
<1>. USE DEF streamVars, historyVars, hostVars
<1>1. /\ curReadSize \in [Urls -> Nat] /\ buffer \in [Urls -> Seq(Units)]
      /\ socket \in [Urls -> {"Unconnected", "Connecting", "Connected"}]
      /\ wire \in [Urls -> Seq(Units)] /\ None \notin Urls
  BY NoneIsNoOne DEF FrameInv, TypeInv, TypeOK, Urls, SocketUrls
<1>2. CASE TimerEvent
  <2>1. PICK resolved :
          socket' = [u \in Urls |-> IF u \in pendingReconnect
                                   THEN Attempted(u, resolved) ELSE socket[u]]
    BY <1>2 DEF TimerEvent
  <2>2. /\ reading = None
        /\ UNCHANGED <<cut, skewed, closing, reading, curReadSize, buffer, wire>>
    BY <1>2 DEF TimerEvent, Idle
  <2>3. \/ socket'[v] = socket[v]
        \/ socket'[v] # "Connected" /\ (v \in closing \/ socket[v] # "Connected")
    BY <2>1 DEF Attempted, Open
  <2>. QED  BY <2>2, <2>3, FrameAttempt DEF FrameInv
<1>3. ASSUME NEW h \in Hosts, HostGone(h) \/ \E u \in Urls : SetHostUrl(h, u)
      PROVE  FrameOK(v)'
  BY <1>3, FrameKept DEF HostGone, SetHostUrl, FrameInv
<1>4. ASSUME NEW u \in Urls, InitConnection(u)
      PROVE  FrameOK(v)'
  <2>1. PICK resolved : socket' = [socket EXCEPT ![u] = Attempted(u, resolved)]
    BY <1>4 DEF InitConnection
  <2>2. /\ reading = None
        /\ UNCHANGED <<cut, skewed, closing, reading, curReadSize, buffer, wire>>
    BY <1>4 DEF InitConnection, Idle
  <2>3. \/ socket'[v] = socket[v]
        \/ socket'[v] # "Connected" /\ (v \in closing \/ socket[v] # "Connected")
    BY <1>1, <2>1 DEF Attempted, Open
  <2>. QED  BY <2>2, <2>3, FrameAttempt DEF FrameInv
<1>5. ASSUME NEW u \in Urls, NEW error, ConnectFails(u, error)
      PROVE  FrameOK(v)'
  <2>1. /\ reading = None /\ socket[u] = "Connecting"
        /\ socket' = [socket EXCEPT ![u] = "Unconnected"]
        /\ UNCHANGED <<cut, skewed, closing, reading, curReadSize, buffer, wire>>
    BY <1>5 DEF ConnectFails, Idle
  <2>2. socket'[v] = socket[v] \/ (socket'[v] # "Connected" /\ socket[v] # "Connected")
    BY <1>1, <2>1
  <2>. QED  BY <2>1, <2>2, FrameAttempt DEF FrameInv
<1>6. ASSUME NEW u \in Urls, DeleteLater(u)
      PROVE  FrameOK(v)'
  BY <1>6, FrameKept DEF DeleteLater, FrameInv
<1>7. ASSUME NEW u \in Urls, v # u,
             \/ Connected(u) \/ Lost(u) \/ Read(u)
             \/ \E n \in 1..5 : Arrive(u, n)
      PROVE  FrameOK(v)'
  <2>1. CASE Connected(u)
    BY <1>1, <1>7, <2>1, FrameKept DEF Connected, FrameInv
  <2>2. CASE Lost(u)
    BY <1>1, <1>7, <2>2, FrameKept DEF Lost, FrameInv
  <2>3. ASSUME NEW n \in 1..5, Arrive(u, n)
        PROVE  FrameOK(v)'
    BY <1>1, <1>7, <2>3, FrameKept DEF Arrive, Idle, FrameInv
  <2>4. CASE ReadIncomplete(u) \/ ReadInvalid(u)
    BY <1>1, <1>7, <2>4, FrameKept DEF ReadIncomplete, ReadInvalid, FrameInv
  <2>5. CASE ReadPacket(u)
    <3>1. /\ reading = u /\ reading' \in {None, u} /\ UNCHANGED <<skewed, cut>>
          /\ curReadSize'[v] = curReadSize[v] /\ buffer'[v] = buffer[v]
          /\ Close(u) \/ UNCHANGED <<closing, socket, peer, wire>>
      BY <1>1, <1>7, <2>5 DEF ReadPacket
    <3>2. /\ socket'[v] = socket[v] /\ wire'[v] = wire[v]
          /\ v \in closing' <=> v \in closing
      BY <1>1, <1>7, <3>1 DEF Close, DoClose
    <3>. QED  BY <1>1, <1>7, <3>1, <3>2, FrameKept DEF FrameInv
  <2>. QED  BY <1>7, <2>1, <2>2, <2>3, <2>4, <2>5 DEF Read
<1>8. ASSUME NEW u \in Urls, v = u,
             \/ Connected(u) \/ Lost(u) \/ Read(u)
             \/ \E n \in 1..5 : Arrive(u, n)
      PROVE  FrameOK(v)'
  BY <1>8, FrameConnected, FrameLost, FrameRead, FrameArrive
<1>9. CASE UNCHANGED vars
  BY <1>9, FrameKept DEF vars, FrameInv
<1>. QED  BY <1>2, <1>3, <1>4, <1>5, <1>6, <1>7, <1>8, <1>9 DEF Next

(* read finds every packet where it starts, however the stream is cut into *)
(* arrivals and however often the connection is lost and made again, on     *)
(* every device that never lost one in the middle of a packet.              *)
THEOREM PacketsAreFramed == Spec => []Framed
<1>1. Init => FrameInv
  <2>. SUFFICES ASSUME Init  PROVE FramesOK
    BY TypeInit DEF FrameInv
  <2>1. \A u \in Urls : /\ u \notin skewed /\ u \notin closing /\ reading # u
                       /\ socket[u] = "Unconnected" /\ curReadSize[u] = 0
    BY NoneIsNoOne DEF Init, Urls, SocketUrls
  <2>. QED  BY <2>1 DEF FramesOK, FrameOK
<1>2. FrameInv => Framed
  <2>. SUFFICES ASSUME FrameInv, NEW u \in Urls, u \notin cut
                PROVE  /\ u \notin skewed
                       /\ Idle /\ socket[u] = "Connected" /\ wire[u] = <<>>
                            => curReadSize[u] = 0
    BY DEF Framed
  <2>1. FrameOK(u)
    BY DEF FrameInv, FramesOK
  <2>2. ASSUME Idle, socket[u] = "Connected", wire[u] = <<>>
        PROVE  curReadSize[u] = 0
    <3>1. u \notin closing /\ reading # u
      BY <2>1, <2>2, NoneIsNoOne DEF FrameOK, Idle, Urls, SocketUrls
    <3>2. PICK h \in Hosts, p \in 0..5 : InStep(u, h, p)
      BY <2>1, <2>2, <3>1 DEF FrameOK
    <3>3. PICK b \in Nat : b = Len(buffer[u])
      BY LenProperties DEF FrameInv, TypeInv, TypeOK
    <3>4. p + b = 5 /\ SizeAt(p, curReadSize[u])
      BY <2>2, <3>1, <3>2, <3>3 DEF InStep
    <3>5. curReadSize[u] = 0 \/ b < curReadSize[u]
      BY <2>1, <3>1, <3>3 DEF FrameOK
    <3>. QED  BY <3>4, <3>5 DEF SizeAt
  <2>. QED  BY <2>1, <2>2 DEF FrameOK
<1>. QED  BY <1>1, <1>2, FrameStep, PTL DEF Spec
=============================================================================
