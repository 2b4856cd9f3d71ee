----------------------------- MODULE Connection -----------------------------
(***************************************************************************)
(* The connections of one node: the devices it makes for the urls it is    *)
(* asked for, their sockets, the framing of what they read, the handshake, *)
(* and the timer that reconnects them; and the hosts that listen on these  *)
(* urls.  The sockets (QTcpSocket, QLocalSocket, QTcpServer, QLocalServer) *)
(* are Qt's own and are modelled from how the backends use them.           *)
(*                                                                         *)
(* The stream to a device is a sequence of units: the header of a packet   *)
(* (its size) and the parts of its body.  It may be cut between any two.   *)
(* onClientRead is a loop: an arrival fills the socket's buffer and sets   *)
(* reading, and each Read is one turn of the loop; no other event of the   *)
(* node runs until the loop has ended.                                     *)
(***************************************************************************)
EXTENDS Integers, Sequences, FiniteSets

CONSTANTS
  TcpUrls, LocalUrls, \* urls whose scheme names a built-in backend
  UnknownUrls,        \* urls of a scheme nobody knows
  Hosts,              \* processes that may listen on a url
  CompatibleHosts,    \* those that speak this node's protocol version
  None,
  MaxLosses,          \* bound: connections cut and hosts gone
  MaxFailures         \* bound: attempts to connect that fail for no reason

ASSUME CompatibleHostsAreHosts == CompatibleHosts \subseteq Hosts
ASSUME NoneIsNoOne == None \notin Hosts \cup TcpUrls \cup LocalUrls \cup UnknownUrls
ASSUME NoneIsNoList == None \notin {"ObjectList", "OtherObjectList"}

SocketUrls == TcpUrls \cup LocalUrls
Urls == SocketUrls \cup UnknownUrls

VARIABLES
  \* The hosts
  listening,     \* the url each host's server has accepted to listen on
  bound,         \* the host that connections to a url reach
  peer,          \* the host at the other end of each device's connection
  wire,          \* units written by that host and not yet arrived
  \* The node
  requestedUrls, \* requestedUrls
  device,        \* "none", "alive" or "deleted"
  closing,       \* devices whose m_isClosing is set
  socket,        \* state of each device's socket
  curReadSize,   \* m_curReadSize
  buffer,        \* units the socket holds
  codec,         \* devices whose m_codec is not null
  connectedSources, \* the object list a device has delivered, or None
  pendingReconnect, timerActive,
  reading,       \* the device whose onClientRead loop is running
  \* History
  skewed,        \* devices whose next header is read from the wrong place
  cut,           \* devices that lost a connection in the middle of a packet
  gaveUp,        \* devices whose last attempt ended without shouldReconnect
  unresolved,    \* devices whose only attempt found no address for the host
  spoke,         \* devices that had a handshake with a compatible host
  losses, failures \* counters for the bounds

hostVars == <<listening, bound>>
streamVars == <<curReadSize, buffer, codec, skewed>>
timerVars == <<pendingReconnect, timerActive>>
historyVars == <<cut, gaveUp, unresolved, spoke, losses, failures>>
vars == <<hostVars, peer, wire, requestedUrls, device, closing, socket,
          streamVars, connectedSources, timerVars, reading, historyVars>>

-----------------------------------------------------------------------------
(* Packets as units *)

Unit(type, size, pos) == [type |-> type, size |-> size, pos |-> pos]
Packet(type, size) == [i \in 1..(size + 1) |-> Unit(type, size, i - 1)]

(* newConnection writes the handshake and the list of published objects.   *)
Greeting(h) ==
  IF h \in CompatibleHosts
  THEN Packet("Handshake", 2) \o Packet("ObjectList", 1)
  ELSE Packet("OtherHandshake", 2) \o Packet("OtherObjectList", 1)

(* What four bytes from the middle of a packet are as a size: 65536, more  *)
(* than any greeting.                                                      *)
Huge == 100

(* isOpen *)
Open(u) == u \notin closing /\ socket[u] \in {"Connected", "Connecting"}

Idle == reading = None

-----------------------------------------------------------------------------
(* The hosts *)

(* TcpServerImpl::listen has the address or fails. *)
TcpListens(u) == u \in TcpUrls /\ bound[u] = None

(* LocalServerImpl::listen removes what is in the way and tries again, be  *)
(* it left by a crash or the name of a living host.                        *)
LocalListens(u) == u \in LocalUrls

(* setHostUrl, when startListening succeeds; when it fails remoteObjectIo  *)
(* is deleted and the host is as before.                                   *)
SetHostUrl(h, u) ==
  /\ Idle /\ listening[h] = None
  /\ TcpListens(u) \/ LocalListens(u)
  /\ listening' = [listening EXCEPT ![h] = u]
  /\ bound' = [bound EXCEPT ![u] = h]
  /\ UNCHANGED <<peer, wire, requestedUrls, device, closing, socket,
                 streamVars, connectedSources, timerVars, reading, historyVars>>

(* A host ends, or crashes: connections to it break.                       *)
HostGone(h) ==
  /\ Idle /\ listening[h] # None
  /\ losses < MaxLosses /\ losses' = losses + 1
  /\ bound' = [u \in Urls |-> IF bound[u] = h THEN None ELSE bound[u]]
  /\ listening' = [listening EXCEPT ![h] = None]
  /\ peer' = [u \in Urls |-> IF peer[u] = h THEN None ELSE peer[u]]
  /\ UNCHANGED <<wire, requestedUrls, device, closing, socket, streamVars,
                 connectedSources, timerVars, reading,
                 cut, gaveUp, unresolved, spoke, failures>>

-----------------------------------------------------------------------------
(* Asking for connections *)

(* Whether connectToServer starts an attempt: a tcp url may name a host    *)
(* that cannot be resolved.                                                *)
TcpCanTry(u, resolved) == u \in resolved
LocalCanTry(u) == u \in LocalUrls

Attempted(u, resolved) ==
  IF ~Open(u) /\ (TcpCanTry(u, resolved) \/ LocalCanTry(u))
  THEN "Connecting" ELSE socket[u]

(* QtROClientFactory::create knows the scheme. *)
Creates(u) == u \in SocketUrls

(* What initConnection answers, and connectToNode passes on: a url that    *)
(* was requested before is not looked at again.                            *)
InitSucceeds(u) == u \in requestedUrls \/ Creates(u)

(* initConnection.  A url that was requested before is not tried again,    *)
(* whatever became of it; a url of unknown scheme is kept all the same.    *)
(* Nothing tells the node that a host's name could not be resolved, which  *)
(* connectToServer only logs.                                              *)
InitConnection(u) ==
  /\ Idle /\ u \notin requestedUrls
  /\ requestedUrls' = requestedUrls \cup {u}
  /\ device' = IF Creates(u) THEN [device EXCEPT ![u] = "alive"] ELSE device
  /\ \E resolved \in SUBSET ({u} \cap TcpUrls) :
       /\ socket' = [socket EXCEPT ![u] = Attempted(u, resolved)]
       /\ unresolved' = IF u \in TcpUrls \ resolved THEN unresolved \cup {u}
                                                    ELSE unresolved
  /\ UNCHANGED <<hostVars, peer, wire, closing, streamVars, connectedSources,
                 timerVars, reading, cut, gaveUp, spoke, losses, failures>>

-----------------------------------------------------------------------------
(* Sockets *)

(* The attempt succeeds: onStateChanged sets the data stream up, the       *)
(* host's handleConnection takes the connection.  Nothing else of the      *)
(* device is new: neither m_curReadSize nor the codec.                     *)
Connected(u) ==
  /\ Idle /\ socket[u] = "Connecting" /\ bound[u] # None
  /\ socket' = [socket EXCEPT ![u] = "Connected"]
  /\ peer' = [peer EXCEPT ![u] = bound[u]]
  /\ wire' = [wire EXCEPT ![u] = Greeting(bound[u])]
  /\ buffer' = [buffer EXCEPT ![u] = <<>>]
  /\ skewed' = skewed \ {u}
  /\ gaveUp' = gaveUp \ {u}
  /\ UNCHANGED <<hostVars, requestedUrls, device, closing, curReadSize, codec,
                 connectedSources, timerVars, reading, cut, unresolved, spoke,
                 losses, failures>>

(* Mutant of Pending: a device whose url is already waiting is left out.   *)
PendingUnlessTimer(u) ==
  IF timerActive THEN pendingReconnect ELSE pendingReconnect \cup {u}

(* onShouldReconnect: every url that was ever requested waits for the      *)
(* timer, and no source is reached through the device any more.            *)
Pending(u) == IF u \in requestedUrls THEN pendingReconnect \cup {u}
                                     ELSE pendingReconnect

OnShouldReconnect(u) ==
  /\ connectedSources' = [connectedSources EXCEPT ![u] = None]
  /\ pendingReconnect' = Pending(u)
  /\ timerActive' = TRUE

(* The errors after which onError emits shouldReconnect, and the others:   *)
(* after a timeout, or a lack of permission, nothing tries again.          *)
TcpErrors == [retried |-> {"HostNotFound", "Refused", "Network"},
              other |-> {"AddressInUse", "Timeout"}]
LocalErrors == [retried |-> {"ServerNotFound", "Unknown", "Refused", "Connection"},
                other |-> {"Access", "Timeout"}]
Errors(u) == IF u \in TcpUrls THEN TcpErrors ELSE LocalErrors

(* An attempt fails, for lack of a listening host or for another reason.   *)
ConnectFails(u, error) ==
  /\ Idle /\ socket[u] = "Connecting"
  /\ (error = "Refused" /\ bound[u] = None) \/ failures < MaxFailures
  /\ failures' = IF bound[u] = None THEN failures ELSE failures + 1
  /\ socket' = [socket EXCEPT ![u] = "Unconnected"]
  /\ IF error \in Errors(u).retried
     THEN OnShouldReconnect(u) /\ UNCHANGED gaveUp
     ELSE /\ gaveUp' = gaveUp \cup {u}
          /\ UNCHANGED <<connectedSources, timerVars>>
  /\ UNCHANGED <<hostVars, peer, wire, requestedUrls, device, closing,
                 streamVars, reading, cut, unresolved, spoke, losses>>

(* Mutant of AfterClosing: the socket is not aborted. *)
StillClosing == "Closing"

(* onStateChanged aborts a socket that enters ClosingState.                *)
AfterClosing == "Unconnected"

(* The connection is lost, because the host's end is gone or because the   *)
(* heartbeat calls disconnectFromServer: the socket passes through         *)
(* ClosingState, where onStateChanged aborts it and asks for a reconnect   *)
(* (disconnectFromServer asks once more, to no effect).                    *)
(* abort drops what has arrived and was not read; m_curReadSize stays.     *)
Lost(u) ==
  /\ Idle /\ u \in SocketUrls /\ socket[u] = "Connected"
  /\ peer[u] = None \/ losses < MaxLosses
  /\ losses' = IF peer[u] = None THEN losses ELSE losses + 1
  /\ socket' = [socket EXCEPT ![u] = AfterClosing]
  /\ peer' = [peer EXCEPT ![u] = None]
  /\ wire' = [wire EXCEPT ![u] = <<>>]
  /\ buffer' = [buffer EXCEPT ![u] = <<>>]
  /\ cut' = IF curReadSize[u] # 0 THEN cut \cup {u} ELSE cut
  /\ OnShouldReconnect(u)
  /\ UNCHANGED <<hostVars, requestedUrls, device, closing, curReadSize, codec,
                 skewed, reading, gaveUp, unresolved, spoke, failures>>

-----------------------------------------------------------------------------
(* The timer *)

(* Mutant of TimerEvent: what was tried does not wait any longer. *)
TimerEventForgets ==
  /\ Idle /\ timerActive
  /\ \E resolved \in SUBSET SocketUrls :
       socket' = [u \in Urls |-> IF u \in pendingReconnect
                                 THEN Attempted(u, resolved) ELSE socket[u]]
  /\ pendingReconnect' = {}
  /\ timerActive' = FALSE
  /\ UNCHANGED <<hostVars, peer, wire, requestedUrls, device, closing,
                 streamVars, connectedSources, reading, historyVars>>

(* timerEvent: a device that is open, be it still connecting, is taken off *)
(* the list; the others try again and stay.  The list holds bare pointers: *)
(* with a deleted device on it the event is undefined and is left out.     *)
TimerEvent ==
  /\ Idle /\ timerActive
  /\ \A u \in pendingReconnect : device[u] # "deleted"
  /\ \E resolved \in SUBSET (pendingReconnect \cap TcpUrls) :
       /\ failures' = failures
            + Cardinality((pendingReconnect \cap TcpUrls) \ resolved)
       /\ failures' <= MaxFailures
       /\ socket' = [u \in Urls |-> IF u \in pendingReconnect
                                    THEN Attempted(u, resolved) ELSE socket[u]]
  /\ pendingReconnect' = {u \in pendingReconnect : ~Open(u)}
  /\ timerActive' = (pendingReconnect' # {})
  /\ UNCHANGED <<hostVars, peer, wire, requestedUrls, device, closing,
                 streamVars, connectedSources, reading,
                 cut, gaveUp, unresolved, spoke, losses>>

-----------------------------------------------------------------------------
(* Reading *)

(* Some of what the host wrote arrives: readyRead. *)
Arrive(u, n) ==
  /\ Idle /\ socket[u] = "Connected" /\ u \notin closing
  /\ n \in 1..Len(wire[u])
  /\ buffer' = [buffer EXCEPT ![u] = @ \o SubSeq(wire[u], 1, n)]
  /\ wire' = [wire EXCEPT ![u] = SubSeq(@, n + 1, Len(@))]
  /\ reading' = u
  /\ UNCHANGED <<hostVars, peer, requestedUrls, device, closing, socket,
                 curReadSize, codec, skewed, connectedSources, timerVars,
                 historyVars>>

Drop(s, n) == SubSeq(s, n + 1, Len(s))

(* QtROIoDeviceBase::read, first half: the size of the next packet. *)
Header(u) ==
  IF curReadSize[u] # 0 THEN [size |-> curReadSize[u], rest |-> buffer[u]]
  ELSE [size |-> IF u \in skewed THEN Huge ELSE Head(buffer[u]).size,
        rest |-> Tail(buffer[u])]

(* read finds no header, or fewer bytes than the packet has: onClientRead  *)
(* returns and the size is kept for the next time.                         *)
ReadIncomplete(u) ==
  /\ reading = u /\ buffer[u] # <<>>
  /\ Len(Header(u).rest) < Header(u).size
  /\ curReadSize' = [curReadSize EXCEPT ![u] = Header(u).size]
  /\ buffer' = [buffer EXCEPT ![u] = Header(u).rest]
  /\ reading' = None
  /\ UNCHANGED <<hostVars, peer, wire, requestedUrls, device, closing, socket,
                 codec, skewed, connectedSources, timerVars, historyVars>>

(* A size kept from a lost connection makes read take the header of the    *)
(* first packet for a body.  fromDataStream finds no type there, read      *)
(* returns false, and what follows is read two bytes out of step.          *)
ReadInvalid(u) ==
  /\ reading = u /\ buffer[u] # <<>>
  /\ curReadSize[u] # 0 /\ Len(buffer[u]) >= curReadSize[u]
  /\ Head(buffer[u]).pos # 1
  /\ curReadSize' = [curReadSize EXCEPT ![u] = 0]
  /\ buffer' = [buffer EXCEPT ![u] = Tail(@)]
  /\ skewed' = skewed \cup {u}
  /\ reading' = None
  /\ UNCHANGED <<hostVars, peer, wire, requestedUrls, device, closing, socket,
                 codec, connectedSources, timerVars, historyVars>>

(* Mutants of SizeAfterPacket and of ExpectsHandshake: the size of the     *)
(* packet is kept; any packet may come first.                              *)
SizeKept(u) == Header(u).size
ExpectsNothing(u, type) == FALSE

(* read has the whole packet and resets m_curReadSize. *)
SizeAfterPacket(u) == 0

(* onClientRead refuses everything but a handshake while there is no codec *)
ExpectsHandshake(u, type) ==
  type \in {"ObjectList", "OtherObjectList"} /\ u \notin codec

(* doClose: disconnectFromHost, or only deleteLater for a socket that is   *)
(* not open any more; onStateChanged leaves a closing device alone.        *)
DoClose(u) ==
  /\ socket' = [socket EXCEPT ![u] = "Unconnected"]
  /\ peer' = [peer EXCEPT ![u] = None]
  /\ wire' = [wire EXCEPT ![u] = <<>>]

(* close *)
Close(u) == closing' = closing \cup {u} /\ DoClose(u)

(* One turn of onClientRead's loop that has a packet.  A packet before the *)
(* handshake closes the connection and ends the loop; a handshake of       *)
(* another version closes it and goes on with the bytes left over.         *)
ReadPacket(u) ==
  LET size == Header(u).size
      body == Header(u).rest
      type == Head(body).type
      rest == Drop(body, size) IN
  /\ reading = u /\ buffer[u] # <<>>
  /\ Len(body) >= size /\ Head(body).pos = 1
  /\ curReadSize' = [curReadSize EXCEPT ![u] = SizeAfterPacket(u)]
  /\ buffer' = [buffer EXCEPT ![u] = rest]
  /\ reading' = IF rest = <<>> \/ ExpectsHandshake(u, type) THEN None ELSE u
  /\ IF ExpectsHandshake(u, type) \/ type = "OtherHandshake"
     THEN Close(u) ELSE UNCHANGED <<closing, socket, peer, wire>>
  /\ codec' = IF type = "Handshake" THEN codec \cup {u} ELSE codec
  /\ spoke' = IF type = "Handshake" THEN spoke \cup {u} ELSE spoke
  /\ connectedSources' =
       IF type \in {"ObjectList", "OtherObjectList"}
          /\ ~ExpectsHandshake(u, type)
       THEN [connectedSources EXCEPT ![u] = type]
       ELSE connectedSources
  /\ UNCHANGED <<hostVars, requestedUrls, device, skewed, timerVars,
                 cut, gaveUp, unresolved, losses, failures>>

(* deleteLater of a device that close disconnected.  Neither               *)
(* pendingReconnect nor connectedSources forget it.                        *)
DeleteLater(u) ==
  /\ Idle /\ u \in closing \cap SocketUrls /\ device[u] = "alive"
  /\ device' = [device EXCEPT ![u] = "deleted"]
  /\ UNCHANGED <<hostVars, peer, wire, requestedUrls, closing, socket,
                 streamVars, connectedSources, timerVars, reading, historyVars>>

-----------------------------------------------------------------------------
Init ==
  /\ listening = [h \in Hosts |-> None]
  /\ bound = [u \in Urls |-> None]
  /\ peer = [u \in Urls |-> None]
  /\ wire = [u \in Urls |-> <<>>]
  /\ requestedUrls = {}
  /\ device = [u \in Urls |-> "none"]
  /\ socket = [u \in Urls |-> "Unconnected"]
  /\ curReadSize = [u \in Urls |-> 0]
  /\ buffer = [u \in Urls |-> <<>>]
  /\ connectedSources = [u \in Urls |-> None]
  /\ closing = {} /\ codec = {} /\ skewed = {} /\ cut = {} /\ gaveUp = {}
  /\ unresolved = {} /\ spoke = {} /\ pendingReconnect = {} /\ timerActive = FALSE
  /\ reading = None
  /\ losses = 0 /\ failures = 0

Read(u) == ReadIncomplete(u) \/ ReadInvalid(u) \/ ReadPacket(u)

Next ==
  \/ TimerEvent
  \/ \E h \in Hosts : HostGone(h) \/ \E u \in Urls : SetHostUrl(h, u)
  \/ \E u \in Urls :
       \/ InitConnection(u)
       \/ Connected(u) \/ Lost(u) \/ DeleteLater(u) \/ Read(u)
       \/ \E error \in Errors(u).retried \cup Errors(u).other : ConnectFails(u, error)
       \/ \E n \in 1..5 : Arrive(u, n)

Spec == Init /\ [][Next]_vars

-----------------------------------------------------------------------------
Kinds == {"Handshake", "ObjectList", "OtherHandshake", "OtherObjectList"}
Units == [type : Kinds, size : 1..2, pos : 0..2]

(* Type correctness of everything above. *)
TypeOK ==
  /\ listening \in [Hosts -> Urls \cup {None}]
  /\ bound \in [Urls -> Hosts \cup {None}]
  /\ peer \in [Urls -> Hosts \cup {None}]
  /\ wire \in [Urls -> Seq(Units)]
  /\ buffer \in [Urls -> Seq(Units)]
  /\ device \in [Urls -> {"none", "alive", "deleted"}]
  /\ socket \in [Urls -> {"Unconnected", "Connecting", "Connected"}]
  /\ curReadSize \in [Urls -> Nat]
  /\ connectedSources \in [Urls -> {"ObjectList", "OtherObjectList", None}]
  /\ timerActive \in BOOLEAN
  /\ reading \in Urls \cup {None}
  /\ losses \in Nat /\ failures \in Nat
  /\ requestedUrls \cup closing \cup codec \cup skewed \cup cut \cup gaveUp
       \cup unresolved \cup spoke \cup pendingReconnect \subseteq Urls

(* Packet boundaries are found again and again, however the stream is cut  *)
(* into arrivals: read (qconnectionfactories.cpp:71) gets out of step only *)
(* on a device that lost a connection in the middle of a packet.           *)
Framed ==
  \A u \in Urls :
    /\ u \in skewed => u \in cut
    /\ Idle /\ u \notin cut /\ socket[u] = "Connected" /\ wire[u] = <<>>
         => curReadSize[u] = 0

(* A node that waits to reconnect really tries: a device that is neither   *)
(* connected nor connecting nor closed is on the timer's list, with the    *)
(* timer running, unless its last attempt ended in an error that onError   *)
(* ignores, or initConnection found no address for its host (see           *)
(* LossIsRetried and MissingHostIsRetried).                                *)
RetryArmed ==
  \A u \in SocketUrls :
    device[u] = "alive" /\ u \notin closing /\ socket[u] = "Unconnected"
      => u \in gaveUp \cup unresolved \/ (u \in pendingReconnect /\ timerActive)

(* The objects of a host with another protocol version are not taken over  *)
(* by a device that never spoke to a compatible one: the handshake, or its *)
(* absence, closes the connection first.  (A device that did keeps the     *)
(* codec through the reconnect, and is not protected by onClientRead.)     *)
VersionChecked ==
  \A u \in Urls : connectedSources[u] = "OtherObjectList" => u \in spoke

(* A url whose host keeps listening is connected again and its objects     *)
(* are known again, if both ends go on and no attempt times out: through   *)
(* losses of the connection, a host that starts late and one that          *)
(* restarts.  The exceptions are devices that were closed for their        *)
(* version, those that LossIsRetried and MissingHostIsRetried are about,   *)
(* those that lost a connection in the middle of a packet (see             *)
(* RestoredIsRead), and a node whose timer still lists a device that was   *)
(* closed and deleted: timerEvent follows a pointer to nothing then        *)
(* (qremoteobjectnode.cpp:276).                                            *)
Reconnects ==
  \A u \in SocketUrls :
    <>[](bound[u] # None /\ device[u] # "none") =>
      <>[](\/ connectedSources[u] # None
           \/ u \in gaveUp \cup unresolved \cup closing \cup cut
           \/ \E v \in pendingReconnect : device[v] = "deleted")

(* The event loop delivers what arrives and fires the timer; a socket that *)
(* connects to a listening host gets there or fails; a broken connection   *)
(* is noticed.                                                             *)
Fairness ==
  /\ WF_vars(TimerEvent)
  /\ \A u \in Urls :
       /\ WF_vars(Read(u))
       /\ WF_vars(\E n \in 1..5 : Arrive(u, n))
       /\ WF_vars(Connected(u) \/ \E error \in Errors(u).retried : ConnectFails(u, error))
       /\ WF_vars(peer[u] = None /\ Lost(u))

FairSpec == Spec /\ Fairness

-----------------------------------------------------------------------------
(* What a comment or the documentation says, and the code does not do.     *)

(* "Host not there, wait and try again" (qconnection_tcpip_backend.cpp:70):*)
(* not a host that is not there when initConnection asks for its address,  *)
(* which is no error of the socket.                                        *)
MissingHostIsRetried ==
  \A u \in TcpUrls :
    device[u] = "alive" /\ u \notin closing /\ socket[u] = "Unconnected"
      => u \in gaveUp \/ (u \in pendingReconnect /\ timerActive)

(* "If the connection to a host node is lost, [...] it will attempt to     *)
(* reconnect" (remoteobjects-replica.qdoc:68): not after an attempt that   *)
(* ended in one of the errors that onError ignores.                        *)
LossIsRetried ==
  \A u \in SocketUrls :
    u \in spoke \ closing /\ socket[u] = "Unconnected"
      => u \in pendingReconnect /\ timerActive

(* "and will re-initialize if the connection is restored" (the same        *)
(* sentence): not a device that lost it inside a packet, whose             *)
(* m_curReadSize is that packet's.  What the host wrote has arrived and    *)
(* been read here, its objects with it.                                    *)
RestoredIsRead ==
  \A u \in SocketUrls :
    socket[u] = "Connected" /\ u \in spoke /\ wire[u] = <<>> /\ Idle
      => connectedSources[u] # None

(* "Return true on success, false otherwise (usually an unrecognized url,  *)
(* or connecting to already connected address)"                            *)
(* (qremoteobjectnode.cpp:2289): a second attempt at an unrecognized url   *)
(* is a success.                                                           *)
UnknownIsRefused == \A u \in UnknownUrls : ~ InitSucceeds(u)

(* The four statements above.  The code breaks each of them, and one       *)
(* behaviour breaks them all.                                              *)
AnyConnectionStatement ==
  \/ []MissingHostIsRetried
  \/ []LossIsRetried
  \/ []RestoredIsRead
  \/ []UnknownIsRefused
=============================================================================
