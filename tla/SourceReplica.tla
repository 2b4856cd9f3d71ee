--------------------------- MODULE SourceReplica ---------------------------
(***************************************************************************)
(* One host node (QRemoteObjectSourceIo and its QRemoteObjectRootSources), *)
(* the client nodes connected to it (QRemoteObjectNodePrivate) and their   *)
(* replicas (QConnectedReplicaImplementation), over ordered byte streams   *)
(* that either end may lose at any time.                                   *)
(*                                                                         *)
(* Every action is one run of the event loop: one packet handled by        *)
(* onServerRead or onClientRead, one socket signal, or one call of the     *)
(* application.  A source is represented by the version of its property    *)
(* values, a replica by the version it stores.  Q_ASSERTs are compiled out *)
(* of a release build: the actions do what the release build does, and     *)
(* the asserted conditions are invariants.                                 *)
(*                                                                         *)
(* A client has one device for the host, so that the device's              *)
(* remoteObjects() and the keys of connectedSources are the same set: the  *)
(* code changes both together at each place (1427-1428, 1474-1475 and      *)
(* 1288-1289 of qremoteobjectnode.cpp).  The device outlives the socket    *)
(* connections it makes; each of these has an epoch number, and the host   *)
(* sees each as a new QtROServerIoDevice.                                  *)
(***************************************************************************)
EXTENDS Integers, Sequences, FiniteSets, SequencesExt

CONSTANTS
  Clients,            \* client nodes
  Names,              \* names of remote objects
  SourceSignatures,   \* signatures a source may be published with
  ReplicaSignatures,  \* signatures of the replicas that may be acquired
  NoSignature,        \* the empty signature: a dynamic replica or a model
  NoSource,           \* marks a name that is absent from a table
  MaxValue,           \* bound: versions of one source's properties
  MaxEnables,         \* bound: times a source is published
  MaxAcquires,        \* bound: times a client acquires a name
  MaxEpochs           \* bound: socket connections made by one client

ASSUME NamesAreFinite == IsFiniteSet(Names)
ASSUME NoSourceIsNoSignature ==
  NoSource \notin SourceSignatures \cup ReplicaSignatures
ASSUME BoundsAreNaturals ==
  /\ MaxValue \in Nat /\ MaxEnables \in Nat
  /\ MaxAcquires \in Nat /\ MaxEpochs \in Nat

Conns == Clients \X (1..MaxEpochs)

\* QRemoteObjectReplica::State, in the numeric order setState compares.
Uninitialized == 0
Default == 1
Valid == 2
Suspect == 3
SignatureMismatch == 4

NoValue == 0   \* the defaults a replica holds before any packet for it

VARIABLES
  \* The host
  sourceRoots,        \* m_sourceRoots: signature of each published name
  value,              \* version of each source object's properties
  listeners,          \* m_listeners: how often each connection is listed
  connections,        \* m_connections
  \* The streams
  backlog,            \* connections made but not yet seen by newConnection
  toHost,             \* packets from each connection's client
  toClient,           \* packets to each client on its current connection
  \* The clients
  epoch,              \* number of the client's latest connection
  linked,             \* clients whose socket is connected
  connectedSources,   \* signature of each name in connectedSources
  replicas,           \* names with a living replica implementation
  signature,          \* m_objectSignature
  state,              \* m_state
  stored,             \* version in m_propertyStorage
  attached,           \* names whose replica's connectionToSource is not null
  hasMeta,            \* names whose replica's m_metaObject is not null
  \* Counters for the bounds
  enables, acquires

hostVars == <<sourceRoots, value, listeners, connections>>
wireVars == <<backlog, toHost, toClient>>
replicaVars == <<replicas, signature, state, stored, attached, hasMeta>>
clientVars == <<epoch, linked, connectedSources, replicaVars>>
boundVars == <<enables, acquires>>
vars == <<hostVars, wireVars, clientVars, boundVars>>

-----------------------------------------------------------------------------
(* Packets *)

ObjectTable == [Names -> SourceSignatures \cup {NoSource}]
EmptyTable == [n \in Names |-> NoSource]

ListPackets == [type : {"ObjectList"}, objects : ObjectTable]
ValuePackets == [type : {"Init", "InitDynamic", "PropertyChange"},
                 name : Names, value : Nat]
RemovePackets == [type : {"RemoveObject"}, name : Names]
AddPackets == [type : {"AddObject"}, name : Names, dynamic : BOOLEAN]

Packets == ListPackets \cup ValuePackets \cup RemovePackets
Requests == AddPackets \cup RemovePackets

ObjectList(objects) == [type |-> "ObjectList", objects |-> objects]
ValuePacket(type, n, v) == [type |-> type, name |-> n, value |-> v]
RemoveObject(n) == [type |-> "RemoveObject", name |-> n]
AddObject(n, dynamic) == [type |-> "AddObject", name |-> n, dynamic |-> dynamic]

(* The connection a client is, or was last, using. *)
Current(c) == <<c, epoch[c]>>

(* How often each connection is written to when each of S is written once. *)
Once(S) == [cc \in Conns |-> IF cc \in S THEN 1 ELSE 0]

(* Mutant of Send: a packet overtakes those that wait. *)
SendAhead(times, m) ==
  [c \in Clients |->
     IF c \in linked
     THEN [i \in 1..times[Current(c)] |-> m] \o toClient[c]
     ELSE toClient[c]]

(* CodecBase::send writes the packet to every entry of its list of         *)
(* connections; what is written to a socket that its client has given up   *)
(* is never read.                                                          *)
Send(times, m) ==
  [c \in Clients |->
     IF c \in linked
     THEN toClient[c] \o [i \in 1..times[Current(c)] |-> m]
     ELSE toClient[c]]

(* sendCommand: what the client writes reaches the host only while the     *)
(* host's end of the connection lives.                                     *)
Request(c, reqs) ==
  IF c \in linked /\ Current(c) \in backlog \cup connections
  THEN [toHost EXCEPT ![Current(c)] = @ \o reqs]
  ELSE toHost

(* Mutants of SetState: Suspect is a state like the others; no guard. *)
SetStateRising(old, new) == IF old >= new THEN old ELSE new
SetStateAlways(old, new) == new

(* setState ignores a state that is not a progress, unless it is Suspect.  *)
SetState(old, new) == IF old # Suspect /\ old >= new THEN old ELSE new

(* checkSignatures: an empty signature matches everything. *)
CheckSignatures(a, b) == a = NoSignature \/ b = NoSignature \/ a = b

-----------------------------------------------------------------------------
(* The host's application *)

NoListeners == [cc \in Conns |-> 0]

(* enableRemoting of a name that is not published: a new root source       *)
(* without listeners, announced to every connection.                       *)
EnableRemoting(n, sig) ==
  /\ sourceRoots[n] = NoSource
  /\ enables[n] < MaxEnables
  /\ sourceRoots' = [sourceRoots EXCEPT ![n] = sig]
  /\ enables' = [enables EXCEPT ![n] = @ + 1]
  /\ toClient' = Send(Once(connections),
                      ObjectList([EmptyTable EXCEPT ![n] = sig]))
  /\ UNCHANGED <<value, listeners, connections, backlog, toHost,
                 clientVars, acquires>>

(* Mutant of DisableRemoting: the listeners are not told. *)
DisableRemotingSilent(n) ==
  /\ sourceRoots[n] # NoSource
  /\ sourceRoots' = [sourceRoots EXCEPT ![n] = NoSource]
  /\ listeners' = [listeners EXCEPT ![n] = NoListeners]
  /\ UNCHANGED <<value, connections, wireVars, clientVars, boundVars>>

(* disableRemoting, or the destruction of the source object, deletes the   *)
(* root source: RemoveObject goes to its listeners and to nobody else.     *)
DisableRemoting(n) ==
  /\ sourceRoots[n] # NoSource
  /\ sourceRoots' = [sourceRoots EXCEPT ![n] = NoSource]
  /\ listeners' = [listeners EXCEPT ![n] = NoListeners]
  /\ toClient' = Send(listeners[n], RemoveObject(n))
  /\ UNCHANGED <<value, connections, backlog, toHost, clientVars, boundVars>>

(* A property of the source object changes; its notify signal reaches      *)
(* handleMetaCall, which sends the property's new value and then the       *)
(* signal in one buffer.  Nobody listens to a name that is not published.  *)
SetProperty(n) ==
  /\ value[n] < MaxValue
  /\ value' = [value EXCEPT ![n] = @ + 1]
  /\ toClient' = Send(listeners[n],
                      ValuePacket("PropertyChange", n, value[n] + 1))
  /\ UNCHANGED <<sourceRoots, listeners, connections, backlog, toHost,
                 clientVars, boundVars>>

(* The host's connections *)

(* newConnection: the whole list of published objects is the first thing   *)
(* the client reads after the handshake.                                   *)
NewConnection(cc) ==
  /\ cc \in backlog
  /\ backlog' = backlog \ {cc}
  /\ connections' = connections \cup {cc}
  /\ toClient' = Send(Once({cc}), ObjectList(sourceRoots))
  /\ UNCHANGED <<sourceRoots, value, listeners, toHost, clientVars, boundVars>>

(* Mutant of OnServerDisconnect: the sources keep the connection listed. *)
OnServerDisconnectListed(cc) ==
  /\ cc \in connections
  /\ connections' = connections \ {cc}
  /\ toHost' = [toHost EXCEPT ![cc] = <<>>]
  /\ UNCHANGED <<sourceRoots, value, listeners, backlog, toClient, clientVars,
                 boundVars>>

(* onServerDisconnect: the host's end is lost, with what was in its buffer. *)
OnServerDisconnect(cc) ==
  /\ cc \in connections
  /\ connections' = connections \ {cc}
  /\ listeners' = [n \in Names |-> [listeners[n] EXCEPT ![cc] = 0]]
  /\ toHost' = [toHost EXCEPT ![cc] = <<>>]
  /\ UNCHANGED <<sourceRoots, value, backlog, toClient, clientVars, boundVars>>

(* onServerRead reads the next packet of a connection. *)
ServerReads(cc, type) ==
  /\ cc \in connections
  /\ toHost[cc] # <<>>
  /\ Head(toHost[cc]).type = type
  /\ toHost' = [toHost EXCEPT ![cc] = Tail(@)]

(* AddObject of a published name: addListener appends the connection,      *)
(* listed or not, and sends it the current values.                         *)
ServerReadAddObject(cc) ==
  /\ ServerReads(cc, "AddObject")
  /\ LET m == Head(toHost[cc]) IN
     /\ sourceRoots[m.name] # NoSource
     /\ listeners' = [listeners EXCEPT ![m.name][cc] = @ + 1]
     /\ toClient' = Send(Once({cc}),
                         ValuePacket(IF m.dynamic THEN "InitDynamic" ELSE "Init",
                                     m.name, value[m.name]))
  /\ UNCHANGED <<sourceRoots, value, connections, backlog, clientVars, boundVars>>

(* AddObject of any other name is only logged. *)
ServerDropAddObject(cc) ==
  /\ ServerReads(cc, "AddObject")
  /\ sourceRoots[Head(toHost[cc]).name] = NoSource
  /\ UNCHANGED <<hostVars, backlog, toClient, clientVars, boundVars>>

(* RemoveObject removes every entry of the connection; there is no answer. *)
ServerReadRemoveObject(cc) ==
  /\ ServerReads(cc, "RemoveObject")
  /\ LET n == Head(toHost[cc]).name IN
     listeners' = IF sourceRoots[n] # NoSource
                  THEN [listeners EXCEPT ![n][cc] = 0]
                  ELSE listeners
  /\ UNCHANGED <<sourceRoots, value, connections, backlog, toClient,
                 clientVars, boundVars>>

OnServerRead(cc) ==
  \/ ServerReadAddObject(cc)
  \/ ServerDropAddObject(cc)
  \/ ServerReadRemoveObject(cc)

-----------------------------------------------------------------------------
(* The client's socket *)

(* connectToServer succeeds: the device has a new socket connection. *)
ConnectToServer(c) ==
  /\ c \notin linked
  /\ epoch[c] < MaxEpochs
  /\ epoch' = [epoch EXCEPT ![c] = @ + 1]
  /\ linked' = linked \cup {c}
  /\ backlog' = backlog \cup {<<c, epoch[c] + 1>>}
  /\ UNCHANGED <<hostVars, toHost, toClient, connectedSources, replicaVars,
                 boundVars>>

(* Mutant of OnShouldReconnect: unread packets outlive the socket. *)
OnShouldReconnectUnread(c) ==
  /\ c \in linked
  /\ linked' = linked \ {c}
  /\ connectedSources' = [connectedSources EXCEPT ![c] = EmptyTable]
  /\ attached' = [attached EXCEPT ![c] = {}]
  /\ state' = [state EXCEPT ![c] = [n \in Names |->
                 IF n \in attached[c] THEN SetState(@[n], Suspect) ELSE @[n]]]
  /\ UNCHANGED <<hostVars, wireVars, epoch, replicas, signature, stored,
                 hasMeta, boundVars>>

(* The socket goes away: unread packets are dropped by abort(), and        *)
(* onShouldReconnect detaches the replicas of the device's objects.        *)
OnShouldReconnect(c) ==
  /\ c \in linked
  /\ linked' = linked \ {c}
  /\ toClient' = [toClient EXCEPT ![c] = <<>>]
  /\ connectedSources' = [connectedSources EXCEPT ![c] = EmptyTable]
  /\ LET lost == {n \in attached[c] : connectedSources[c][n] # NoSource} IN
     /\ attached' = [attached EXCEPT ![c] = @ \ lost]
     /\ state' = [state EXCEPT ![c] = [n \in Names |->
                    IF n \in lost THEN SetState(@[n], Suspect) ELSE @[n]]]
  /\ UNCHANGED <<hostVars, backlog, toHost, epoch, replicas, signature,
                 stored, hasMeta, boundVars>>

(* What a client's state is when its process starts. *)
NoReplicaState(c) ==
  /\ replicas' = [replicas EXCEPT ![c] = {}]
  /\ signature' = [signature EXCEPT ![c] = [n \in Names |-> NoSignature]]
  /\ state' = [state EXCEPT ![c] = [n \in Names |-> Uninitialized]]
  /\ stored' = [stored EXCEPT ![c] = [n \in Names |-> NoValue]]
  /\ attached' = [attached EXCEPT ![c] = {}]
  /\ hasMeta' = [hasMeta EXCEPT ![c] = {}]

(* The client's process dies, and may be started again. *)
ClientDies(c) ==
  /\ NoReplicaState(c)
  /\ linked' = linked \ {c}
  /\ toClient' = [toClient EXCEPT ![c] = <<>>]
  /\ connectedSources' = [connectedSources EXCEPT ![c] = EmptyTable]
  /\ UNCHANGED <<hostVars, backlog, toHost, epoch, boundVars>>

ClientCrash(c) == c \in linked /\ ClientDies(c)

-----------------------------------------------------------------------------
(* The client's application *)

(* acquire of a name without a living replica: handleNewAcquire attaches   *)
(* the new replica at once when the node knows a source of that name.      *)
(* (An acquire of a name that has one shares it and changes nothing here.) *)
Acquire(c, n, sig) ==
  LET known == connectedSources[c][n] # NoSource
      matches == CheckSignatures(sig, connectedSources[c][n])
      initial == IF sig = NoSignature THEN Uninitialized ELSE Default
  IN
  /\ n \notin replicas[c]
  /\ acquires[c][n] < MaxAcquires
  /\ acquires' = [acquires EXCEPT ![c][n] = @ + 1]
  /\ replicas' = [replicas EXCEPT ![c] = @ \cup {n}]
  /\ signature' = [signature EXCEPT ![c][n] = sig]
  /\ stored' = [stored EXCEPT ![c][n] = NoValue]
  /\ hasMeta' = [hasMeta EXCEPT ![c] = IF sig = NoSignature THEN @ ELSE @ \cup {n}]
  /\ state' = [state EXCEPT ![c][n] =
                 IF known /\ ~matches THEN SetState(initial, SignatureMismatch)
                 ELSE initial]
  /\ attached' = [attached EXCEPT ![c] = IF known /\ matches THEN @ \cup {n} ELSE @]
  /\ toHost' = IF known /\ matches
               THEN Request(c, <<AddObject(n, sig = NoSignature)>>) ELSE toHost
  /\ UNCHANGED <<hostVars, backlog, toClient, epoch, linked, connectedSources,
                 enables>>

(* The last replica object of a name is deleted: its implementation tells  *)
(* the host when it is attached.                                           *)
DestroyReplica(c, n) ==
  /\ n \in replicas[c]
  /\ replicas' = [replicas EXCEPT ![c] = @ \ {n}]
  /\ signature' = [signature EXCEPT ![c][n] = NoSignature]
  /\ state' = [state EXCEPT ![c][n] = Uninitialized]
  /\ stored' = [stored EXCEPT ![c][n] = NoValue]
  /\ attached' = [attached EXCEPT ![c] = @ \ {n}]
  /\ hasMeta' = [hasMeta EXCEPT ![c] = @ \ {n}]
  /\ toHost' = IF n \in attached[c] THEN Request(c, <<RemoveObject(n)>>) ELSE toHost
  /\ UNCHANGED <<hostVars, backlog, toClient, epoch, linked, connectedSources,
                 boundVars>>

-----------------------------------------------------------------------------
(* The client reads (onClientRead) *)

ClientReads(c, type) ==
  /\ c \in linked
  /\ toClient[c] # <<>>
  /\ Head(toClient[c]).type = type
  /\ toClient' = [toClient EXCEPT ![c] = Tail(@)]

(* Mutant of Waiting: attached replicas wait as well. *)
WaitingAttached(c, listed) == {n \in replicas[c] : listed[n] # NoSource}

(* The replicas waiting for one of the listed objects. *)
Waiting(c, listed) == {n \in replicas[c] \ attached[c] : listed[n] # NoSource}

(* ObjectList: unknown names become known, known ones keep their entry;    *)
(* then every listed name that has a detached replica is attached, or      *)
(* found not to match.  The list's order, that of a hash, is arbitrary.    *)
ReadObjectList(c) ==
  /\ ClientReads(c, "ObjectList")
  /\ LET listed == Head(toClient[c]).objects
         known == [n \in Names |-> IF connectedSources[c][n] = NoSource
                                   THEN listed[n] ELSE connectedSources[c][n]]
         waiting == Waiting(c, listed)
         matching == {n \in waiting : CheckSignatures(signature[c][n], known[n])}
     IN
     /\ connectedSources' = [connectedSources EXCEPT ![c] = known]
     /\ attached' = [attached EXCEPT ![c] = @ \cup matching]
     /\ state' = [state EXCEPT ![c] = [n \in Names |->
                    IF n \in waiting \ matching
                    THEN SetState(@[n], SignatureMismatch) ELSE @[n]]]
     /\ \E order \in SetToSeqs(matching) :
          toHost' = Request(c, [i \in DOMAIN order |->
                                  AddObject(order[i], order[i] \notin hasMeta[c])])
  /\ UNCHANGED <<hostVars, backlog, epoch, linked, replicas, signature, stored,
                 hasMeta, boundVars>>

(* Mutant of Initialize: values the replica already has are kept. *)
InitializeKeepsValues(c, n, v) ==
  /\ stored' = [stored EXCEPT ![c][n] = IF @ = NoValue THEN v ELSE @]
  /\ state' = [state EXCEPT ![c][n] = SetState(@, Valid)]
  /\ UNCHANGED <<replicas, signature, attached>>

(* initialize() and setDynamicProperties() store the values and make the   *)
(* replica Valid, whatever state it is in.                                 *)
Initialize(c, n, v) ==
  /\ stored' = [stored EXCEPT ![c][n] = v]
  /\ state' = [state EXCEPT ![c][n] = SetState(@, Valid)]
  /\ UNCHANGED <<replicas, signature, attached>>

(* InitPacket: a replica that has no metaobject dereferences a null one.   *)
ReadInit(c) ==
  /\ c \in linked /\ toClient[c] # <<>> /\ Head(toClient[c]).type = "Init"
  /\ LET m == Head(toClient[c]) IN
     IF m.name \in replicas[c] \ hasMeta[c]
     THEN ClientDies(c)
     ELSE /\ ClientReads(c, "Init")
          /\ IF m.name \in replicas[c]
             THEN Initialize(c, m.name, m.value) /\ UNCHANGED hasMeta
             ELSE UNCHANGED replicaVars
          /\ UNCHANGED <<hostVars, backlog, toHost, epoch, linked,
                         connectedSources, boundVars>>

(* InitDynamicPacket brings the metaobject with it. *)
ReadInitDynamic(c) ==
  /\ ClientReads(c, "InitDynamic")
  /\ LET m == Head(toClient[c]) IN
     IF m.name \in replicas[c]
     THEN /\ Initialize(c, m.name, m.value)
          /\ hasMeta' = [hasMeta EXCEPT ![c] = @ \cup {m.name}]
     ELSE UNCHANGED replicaVars
  /\ UNCHANGED <<hostVars, backlog, toHost, epoch, linked, connectedSources,
                 boundVars>>

(* PropertyChangePacket: stored whatever the replica's state; without a    *)
(* metaobject it dereferences a null one.                                  *)
ReadPropertyChange(c) ==
  /\ c \in linked /\ toClient[c] # <<>>
  /\ Head(toClient[c]).type = "PropertyChange"
  /\ LET m == Head(toClient[c]) IN
     IF m.name \in replicas[c] \ hasMeta[c]
     THEN ClientDies(c)
     ELSE /\ ClientReads(c, "PropertyChange")
          /\ stored' = IF m.name \in replicas[c]
                       THEN [stored EXCEPT ![c][m.name] = m.value] ELSE stored
          /\ UNCHANGED <<hostVars, backlog, toHost, epoch, linked,
                         connectedSources, replicas, signature, state, attached,
                         hasMeta, boundVars>>

(* Mutant of ReadRemoveObject: the replica stays attached. *)
ReadRemoveObjectAttached(c) ==
  /\ ClientReads(c, "RemoveObject")
  /\ LET n == Head(toClient[c]).name IN
     /\ connectedSources' = [connectedSources EXCEPT ![c][n] = NoSource]
     /\ state' = IF n \in attached[c]
                 THEN [state EXCEPT ![c][n] = SetState(@, Suspect)] ELSE state
  /\ UNCHANGED <<hostVars, backlog, toHost, epoch, linked, replicas, signature,
                 stored, attached, hasMeta, boundVars>>

(* RemoveObject: the source is gone; its replica is detached. *)
ReadRemoveObject(c) ==
  /\ ClientReads(c, "RemoveObject")
  /\ LET n == Head(toClient[c]).name IN
     /\ connectedSources' = [connectedSources EXCEPT ![c][n] = NoSource]
     /\ attached' = [attached EXCEPT ![c] = @ \ {n}]
     /\ state' = IF n \in attached[c]
                 THEN [state EXCEPT ![c][n] = SetState(@, Suspect)] ELSE state
  /\ UNCHANGED <<hostVars, backlog, toHost, epoch, linked, replicas, signature,
                 stored, hasMeta, boundVars>>

OnClientRead(c) ==
  \/ ReadObjectList(c)
  \/ ReadInit(c)
  \/ ReadInitDynamic(c)
  \/ ReadPropertyChange(c)
  \/ ReadRemoveObject(c)

-----------------------------------------------------------------------------
Init ==
  /\ sourceRoots = EmptyTable
  /\ value = [n \in Names |-> 1]
  /\ listeners = [n \in Names |-> NoListeners]
  /\ connections = {}
  /\ backlog = {}
  /\ toHost = [cc \in Conns |-> <<>>]
  /\ toClient = [c \in Clients |-> <<>>]
  /\ epoch = [c \in Clients |-> 0]
  /\ linked = {}
  /\ connectedSources = [c \in Clients |-> EmptyTable]
  /\ replicas = [c \in Clients |-> {}]
  /\ signature = [c \in Clients |-> [n \in Names |-> NoSignature]]
  /\ state = [c \in Clients |-> [n \in Names |-> Uninitialized]]
  /\ stored = [c \in Clients |-> [n \in Names |-> NoValue]]
  /\ attached = [c \in Clients |-> {}]
  /\ hasMeta = [c \in Clients |-> {}]
  /\ enables = [n \in Names |-> 0]
  /\ acquires = [c \in Clients |-> [n \in Names |-> 0]]

HostNext ==
  \/ \E n \in Names :
       \/ \E sig \in SourceSignatures : EnableRemoting(n, sig)
       \/ DisableRemoting(n)
       \/ SetProperty(n)
  \/ \E cc \in Conns :
       NewConnection(cc) \/ OnServerDisconnect(cc) \/ OnServerRead(cc)

ClientNext(c) ==
  \/ ConnectToServer(c)
  \/ OnShouldReconnect(c)
  \/ ClientCrash(c)
  \/ \E n \in Names :
       \/ \E sig \in ReplicaSignatures : Acquire(c, n, sig)
       \/ DestroyReplica(c, n)
  \/ OnClientRead(c)

Next == HostNext \/ \E c \in Clients : ClientNext(c)

Spec == Init /\ [][Next]_vars

(* Fairness.  An event loop that has something to do does something: the    *)
(* host's takes connections and packets and finds out that the other end    *)
(* of one is gone, and so does a client's, whose reconnect timer goes on.   *)
(* Which of these comes first is open, even between the loops, for each of  *)
(* them uses up what was to do: it is less than fairness of every loop.     *)
(* Nothing else need ever happen: no connection has to be lost, and the     *)
(* applications do what they like.                                          *)
HostNotices(cc) ==
  /\ cc[1] \in linked => cc # Current(cc[1])
  /\ OnServerDisconnect(cc)

HostLoop ==
  \E cc \in Conns : NewConnection(cc) \/ OnServerRead(cc) \/ HostNotices(cc)

ClientNotices(c) ==
  /\ Current(c) \notin backlog \cup connections
  /\ OnShouldReconnect(c)

ClientLoop(c) == ConnectToServer(c) \/ OnClientRead(c) \/ ClientNotices(c)

Fairness == WF_vars(HostLoop \/ \E c \in Clients : ClientLoop(c))

FairSpec == Spec /\ Fairness

-----------------------------------------------------------------------------
(* Invariants *)

(* Every variable has its type; a replica is attached, or has a            *)
(* metaobject, only while it lives; only a linked client has packets to    *)
(* read, and only the host's living connections have requests to read.     *)
HostTypeOK ==
  /\ sourceRoots \in ObjectTable
  /\ value \in [Names -> Nat]
  /\ listeners \in [Names -> [Conns -> Nat]]
  /\ connections \in SUBSET Conns
  /\ enables \in [Names -> 0..MaxEnables]

WireTypeOK ==
  /\ backlog \in SUBSET Conns
  /\ toHost \in [Conns -> Seq(Requests)]
  /\ toClient \in [Clients -> Seq(Packets)]
  /\ epoch \in [Clients -> 0..MaxEpochs]
  /\ linked \in SUBSET Clients
  /\ \A c \in linked : epoch[c] # 0
  /\ \A c \in Clients \ linked : toClient[c] = <<>>

ClientTypeOK ==
  /\ connectedSources \in [Clients -> ObjectTable]
  /\ signature \in [Clients -> [Names -> ReplicaSignatures \cup {NoSignature}]]
  /\ state \in [Clients -> [Names -> Uninitialized..SignatureMismatch]]
  /\ stored \in [Clients -> [Names -> Nat]]
  /\ acquires \in [Clients -> [Names -> 0..MaxAcquires]]

ReplicaSetsOK ==
  /\ replicas \in [Clients -> SUBSET Names]
  /\ attached \in [Clients -> SUBSET Names]
  /\ hasMeta \in [Clients -> SUBSET Names]
  /\ \A c \in Clients : attached[c] \cup hasMeta[c] \subseteq replicas[c]

(* Type correctness of everything above. *)
TypeOK == HostTypeOK /\ WireTypeOK /\ ClientTypeOK /\ ReplicaSetsOK

(* m_listeners holds bare pointers: each is a device that onServerDisconnect *)
(* has not deleted, in a root source that is still published.               *)
NoDanglingListener ==
  \A n \in Names, cc \in Conns :
    listeners[n][cc] > 0 => cc \in connections /\ sourceRoots[n] # NoSource

(* A replica talks to a source its node knows, over a socket that is up:   *)
(* sendCommand and requestRemoteObjectSource rely on it.                   *)
AttachedIsKnown ==
  \A c \in Clients : \A n \in attached[c] :
    c \in linked /\ connectedSources[c][n] # NoSource

(* No replica says Valid once it is detached, by RemoveObject or by the    *)
(* loss of the socket, whatever packets for it are handled late.           *)
ValidIsAttached ==
  \A c \in Clients, n \in Names :
    state[c][n] = Valid => n \in attached[c] /\ stored[c][n] # NoValue

(* The packets that carry property values of n, and those on their way to  *)
(* client c.                                                               *)
CarriesValue(m, n) ==
  m.type \in {"Init", "InitDynamic", "PropertyChange"} /\ m.name = n

ValuesInFlight(c, n) == {i \in DOMAIN toClient[c] : CarriesValue(toClient[c][i], n)}

(* The values of n in s are between lo and hi and never go back. *)
Ordered(s, n, lo, hi) ==
  \A i \in DOMAIN s : CarriesValue(s[i], n) =>
    /\ lo <= s[i].value /\ s[i].value <= hi
    /\ \A j \in DOMAIN s :
         i <= j /\ CarriesValue(s[j], n) => s[i].value <= s[j].value

(* While a source lists a client's connection, the last values in flight   *)
(* to that client are the source's, and when none are in flight a Valid    *)
(* replica has them: addListener and handleMetaCall leave no change out,   *)
(* though Init and changes are sent by different code at different times.  *)
Coherent ==
  \A c \in linked, n \in Names :
    listeners[n][Current(c)] > 0 =>
      IF ValuesInFlight(c, n) = {}
      THEN n \in replicas[c] /\ state[c][n] = Valid => stored[c][n] = value[n]
      ELSE \E last \in ValuesInFlight(c, n) :
             /\ \A i \in ValuesInFlight(c, n) : i <= last
             /\ toClient[c][last].value = value[n]

(* "As long as the replica has been initialized and the communication is   *)
(* not disrupted, receipt and order of changes is guaranteed"              *)
(* (qremoteobjectreplica.cpp:598), and beyond that: no values              *)
(* in flight are older than those ahead of them or those the replica has,  *)
(* across reconnects, withdrawn sources and stale initializations.         *)
InOrder ==
  \A c \in Clients, n \in Names :
    /\ stored[c][n] <= value[n]
    /\ Ordered(toClient[c], n, stored[c][n], value[n])

(* No values come to a replica that has had them on this connection, nor   *)
(* any in the form of the other kind of replica: so it is while a client   *)
(* acquires each name but once.  It is less than the two functions that    *)
(* take the values assert, which DynamicNotYetValid and StaticNotYetValid  *)
(* state below and the code does not keep to.                              *)
InitializedOnce ==
  \A c \in linked :
    /\ toClient[c] # <<>>
    /\ Head(toClient[c]).type \in {"Init", "InitDynamic"}
    => LET n == Head(toClient[c]).name IN
       n \in replicas[c] /\ acquires[c][n] <= 1
         => /\ state[c][n] # Valid
            /\ (Head(toClient[c]).type = "InitDynamic") = (n \notin hasMeta[c])

(* A client that acquires a name but once is listed at most once, so that  *)
(* each change and signal is sent to it once (addListener does not look);  *)
(* and it is not listed when its replica is gone, or detached, unless the  *)
(* request that removes it is on its way.                                  *)
OneListener ==
  \A cc \in Conns, n \in Names :
    acquires[cc[1]][n] <= 1 /\ listeners[n][cc] > 0 =>
      /\ listeners[n][cc] = 1
      /\ cc[1] \in linked /\ cc = Current(cc[1]) =>
           \/ n \in attached[cc[1]]
           \/ RemoveObject(n) \in Range(toHost[cc])

-----------------------------------------------------------------------------
(* What a step may never do *)

(* The transitions that the documentation of QRemoteObjectReplica::State   *)
(* (qremoteobjectreplica.cpp:614) allows: SignatureMismatch is found while *)
(* detached, and a Valid replica can only be lost.                         *)
Transitions ==
  { <<Uninitialized, Valid>>, <<Default, Valid>>, <<Default, SignatureMismatch>>,
    <<Valid, Suspect>>, <<Suspect, Valid>>, <<Suspect, SignatureMismatch>> }

(* And those it does not: a replica that loses its source before its first *)
(* values is Suspect too (see SuspectWasInitialized).                      *)
EarlyLosses == { <<Uninitialized, Suspect>>, <<Default, Suspect>> }

(* The state of a replica says what has happened to its connection to the  *)
(* source: it turns Valid while attached, Suspect by being detached and in *)
(* no other way, and SignatureMismatch where its node knows a source with  *)
(* another signature.  That state is never left (see StaticNotYetValid).   *)
LawfulMove(c, n) ==
  /\ <<state[c][n], state'[c][n]>> \in Transitions \cup EarlyLosses
  /\ state'[c][n] = Valid => n \in attached'[c]
  /\ state'[c][n] = Suspect => n \in attached[c] \ attached'[c]
  /\ state'[c][n] = SignatureMismatch =>
       /\ connectedSources'[c][n] # NoSource
       /\ ~ CheckSignatures(signature[c][n], connectedSources'[c][n])

(* No step moves the state of a living replica in any other way, whatever  *)
(* packets are handled late (setState and its callers).                    *)
Lifecycle ==
  [][\A c \in Clients : \A n \in replicas[c] \cap replicas'[c] :
       state'[c][n] # state[c][n] => LawfulMove(c, n)]_vars

(* The abstract specification: what the whole machinery of packets and     *)
(* connections gives the application is a latent copy of each source.      *)
Latent == INSTANCE LatentCopy WITH
  Replicas <- Clients \X Names,
  source <- [r \in Clients \X Names |-> value[r[2]]],
  live <- {r \in Clients \X Names : r[2] \in replicas[r[1]]},
  copy <- [r \in Clients \X Names |-> stored[r[1]][r[2]]]

(* SourceReplica implements LatentCopy under this mapping. *)
ImplementsLatentCopy == Latent!Spec

-----------------------------------------------------------------------------
(* What must eventually happen *)

(* A replica that could have its source: its client is connected, and the  *)
(* source is published with a signature that matches.                      *)
Matched(c, n) ==
  /\ c \in linked
  /\ n \in replicas[c]
  /\ sourceRoots[n] # NoSource
  /\ CheckSignatures(signature[c][n], sourceRoots[n])

UpToDate(c, n) == state[c][n] = Valid /\ stored[c][n] = value[n]

(* "It will attempt to reconnect and will re-initialize if the connection  *)
(* is restored; this makes sure all properties are current"                *)
(* (remoteobjects-replica.qdoc:69): so it is, whatever is lost on the way, *)
(* for a source that was published once.                                   *)
Convergence ==
  \A c \in Clients, n \in Names :
    <>[](Matched(c, n) /\ enables[n] = 1 => UpToDate(c, n))

(* A replica of a source that is withdrawn for good does not stay Valid,   *)
(* if its client acquired the name but once.                               *)
WithdrawalNoticed ==
  \A c \in Clients, n \in Names :
    <>[](sourceRoots[n] = NoSource /\ acquires[c][n] <= 1
           => state[c][n] # Valid)

-----------------------------------------------------------------------------
(* What a comment, an assertion or the documentation says, and the code    *)
(* does not do.                                                            *)

(* setDynamicProperties: Q_ASSERT(m_state.loadAcquire() <                  *)
(* QRemoteObjectReplica::Valid) (qremoteobjectreplica.cpp:289).  A dynamic *)
(* replica that lost its connection before its first values is Suspect.    *)
DynamicNotYetValid ==
  \A c \in linked :
    toClient[c] # <<>> /\ Head(toClient[c]).type = "InitDynamic"
    => LET n == Head(toClient[c]).name IN
       n \in replicas[c] => state[c][n] < Valid

(* initialize: Q_ASSERT(m_state.loadAcquire() < QRemoteObjectReplica::     *)
(* Valid || m_state.loadAcquire() == QRemoteObjectReplica::Suspect)        *)
(* (qremoteobjectreplica.cpp:199).  A replica that has met a source with   *)
(* another signature is attached to the next that matches, but setState    *)
(* does not leave SignatureMismatch.                                       *)
StaticNotYetValid ==
  \A c \in linked :
    toClient[c] # <<>> /\ Head(toClient[c]).type = "Init"
    => LET n == Head(toClient[c]).name IN
       n \in replicas[c] => state[c][n] < Valid \/ state[c][n] = Suspect

(* "Suspect: Error state that occurs if the connection to the source is    *)
(* lost after it is initialized." (qremoteobjectreplica.cpp:626).          *)
SuspectWasInitialized ==
  \A c \in Clients : \A n \in replicas[c] :
    state[c][n] = Suspect => stored[c][n] # NoValue

(* "This host sends updates when sources are added to or removed from the  *)
(* list. In this way, a connected node will always know what sources it    *)
(* can attach itself to." (remoteobjects-replica.qdoc:45-47)               *)
KnowsTheSources ==
  \A c \in linked :
    Current(c) \in connections /\ toClient[c] = <<>>
    => \A n \in Names :
         (connectedSources[c][n] # NoSource) = (sourceRoots[n] # NoSource)

(* The four statements above.  The code breaks each of them, and one       *)
(* behaviour breaks them all, so that it does not keep even the weakest    *)
(* thing that could be said: that one of them always holds.                *)
AnyReplicaStatement ==
  \/ []DynamicNotYetValid
  \/ []StaticNotYetValid
  \/ []SuspectWasInitialized
  \/ []KnowsTheSources

(* "If, at a later time, the replica's node gets notified that the         *)
(* requested source is available from a connected node, at that point it   *)
(* will request the source and start the initialization process."          *)
(* (remoteobjects-replica.qdoc:64): of a replica acquired once and with a  *)
(* signature that matches every source.                                    *)
Attaches ==
  \A c \in Clients, n \in Names :
    <>[](/\ Matched(c, n) /\ signature[c][n] = NoSignature
         /\ acquires[c][n] = 1
         => UpToDate(c, n))

=============================================================================
