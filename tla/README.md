# Qt Remote Objects in TLA+

A verification development for the module `qtremoteobjects`. Paths are relative
to `src/remoteobjects/` of the repository unless they say otherwise.

## The system

A **host node** publishes QObjects as *sources*; **client nodes** connect to it
and acquire *replicas*, which mirror a source's properties, signals and slots.
Everything runs in event loops, one packet or socket signal at a time; between
two nodes there is a byte stream (TCP, local socket, SSL, QNX, or a QIODevice
the application brings). Nothing is acknowledged: both ends rely on the order of
the stream and on learning of its loss.

| Component | State | Operations | Hard behaviour, and what makes it correct |
|---|---|---|---|
| Host: sources, listeners, object list (`qremoteobjectsourceio.cpp`, `qremoteobjectsource.cpp`) | `m_sourceRoots`, `m_sourceObjects`, `m_connections`; per source `m_listeners` (bare pointers) | enableRemoting, disableRemoting, handleMetaCall (property changes, signals), newConnection, onServerDisconnect, onServerRead (Ping, AddObject, RemoveObject, Invoke) | A request may cross the withdrawal of its source; a connection may die while listed. No dangling listener, each client listed once, no change left out. |
| Node: client side (`qremoteobjectnode.cpp`) | `connectedSources`, `replicas` (weak), shared `rx*` members | acquire, onClientRead (Handshake, ObjectList, Init, InitDynamic, PropertyChange, RemoveObject, Invoke, InvokeReply, Pong), onShouldReconnect | Packets are matched to replicas by name, whoever they were meant for. Replicas of known sources are attached, of lost ones detached. |
| Replica (`qremoteobjectreplica.cpp`) | `m_state`, `m_propertyStorage`, `connectionToSource`, `m_metaObject` | initialize, setDynamicProperties, setProperty, setState, setConnection, setDisconnected, destruction | State says what became of the connection to the source; values never go back and converge to the source's. |
| Packet framing (`qconnectionfactories.cpp`) | `m_curReadSize`, `m_dataStream`, `m_isClosing` | read, write, close, initializeDataStream | Packets cut anywhere; a socket lost inside a packet. |
| Reconnect and handshake (`qremoteobjectnode.cpp`, `qconnection_*_backend.cpp`) | `requestedUrls`, `pendingReconnect`, `reconnectTimer`, socket states | initConnection, timerEvent, connectToServer, onError, onStateChanged | A lost connection is retried until it is back, whatever errors come between. |
| Pending calls, heartbeat (`qremoteobjectreplica.cpp`, `qremoteobjectpendingcall.cpp`) | `m_curSerialId`, `m_pendingCalls`, `m_heartbeatTimer` | _q_sendWithReply, notifyAboutReply, waitForFinished, Ping and Pong | A reply completes the call it answers; calls whose connection is lost; serial numbers at their limit. |
| Registry (`qremoteobjectregistry.cpp`, `qremoteobjectregistrysource.cpp`) | `m_sourceLocations` at the source, `hostedSources` and a replica of the table at each node | addSource, removeSource, removeServer, pushToRegistryIfNeeded, onRegistryInitialized | Two hosts race for a name; a host returns before its loss was noticed. |
| Proxy (`qremoteobjectnode.cpp`, `ProxyInfo`) | `proxiedReplicas` | proxyObject, unproxyObject, initialized | Objects proxied while they come and go, in two directions. |
| Item models (`qremoteobjectabstractitemmodel*.cpp`) | row cache, `m_pendingRequests`, `m_requestedData` | onDataChanged, onRowsInserted/Removed/Moved, fetchPendingData, requestedData, handleModelResetDone | Replies for rows that have moved since. |
| Nested objects, in-process replicas, dynamic types | `m_children`, `childIndices`, `dynamicTypes` | handlePointerToQObjectProperty, resetObject | Children appear and go with a property's value. |
| `repc` and the tables of members (`repcodegenerator.cpp`, `SourceApiMap`, `DynamicApiMap`) | indices of properties, signals and slots | generateClass, generateSourceAPI, DynamicApiMap's constructor, marshalArgs | A packet names a member by its index alone, and each end makes its own table. |
| QNX backend (`qconnection_qnx_*.cpp`) | buffers on both sides, the server's list of sources | connectToServer, writeData, the receiving threads' functions, close | Two threads a side; a refused pulse; close against a message half handled. |
| Codec and type serialization (`qremoteobjectpacket.cpp`) | none | serialize and deserialize | What definitions say about members and types. |
| Containers, settings store, QML binding | conversions, a QSettings file, a wrapper | | No interaction of their own. |

`PROJECT.json` lists for each component what is modelled of it, the hazards at
their lines, and the lines each definition stands for.

## The modules

| Module | Component | Checked by | Proved in |
|---|---|---|---|
| `SourceReplica`, abstract specification `LatentCopy` | sources, connections, replicas, values | `source_replica`, `attaches`, `any_replica_statement` | `SourceReplicaProofs`, `SourceReplicaListeners` |
| `Connection` | framing, handshake, reconnect, hosts that listen | `connection`, `any_connection_statement` | `ConnectionProofs` |
| `PendingCalls` | calls, replies, waits, watchers, heartbeat | `pending_calls`, `any_call_statement` | `PendingCallsProofs` |
| `Registry` | registry, registrations, forward proxy | `registry`, `any_registry_statement` | `RegistryProofs` |
| `ModelReplica` over `NodesCache` | item model, adapter and replica; the cache as operators | `model_replica` | `ModelReplicaProofs` |
| `QnxTransport` | the QNX backend | `qnx_transport` | `QnxTransportProofs` |
| `Interface` | tables of members made by `repc`, `DynamicApiMap` and definitions; nested objects; in-process replicas | `interface` | `InterfaceProofs` |

Each module takes from the ones below it only what they promise, rather than
their steps: `SourceReplica` has a stream that is in order until it is lost,
which `Connection` (and `QnxTransport` for QNX) shows and qualifies; `Registry`,
`PendingCalls` and `ModelReplica` add to that a replica that is initialized with
current values after each reconnect, which `SourceReplica` shows. A composition
step by step would multiply the states without another interleaving of interest,
as two levels share nothing but the stream.

A definition whose comment begins *Mutant of* is a faulty variant of the
definition it names; so is one named after it with what is wrong appended. No
behaviour uses them: they are there to be put in the place of the original,
which shows that each property detects a plausible error.

Where the code does not do what one would want, the property says so as an
exception that names the line, and is as strong as possible around it. Where a
document, a comment or an assertion of the repository says otherwise, the statement
is a definition of its own at the end of the module, worded after the text it
quotes. The statements that one module contradicts share a run, which asks for the
least that could be true of them: that at least one always holds
(`AnyReplicaStatement` and so on). TLC answers with one behaviour that breaks
every one of them; *Where the code does not do what is written* says which step
breaks which. `Attaches` has a run of its own. Contradictions that no run shows are
listed there, too.

## `SourceReplica`

One host, any number of clients and names. State and code:

| TLA+ | Code |
|---|---|
| `sourceRoots`, `listeners` | `m_sourceRoots`, and `m_listeners` of each root source as a count per connection (`append` may list one twice) |
| `connections`, `backlog` | `m_connections`; sockets the client has connected and `newConnection` has not seen |
| `toHost`, `toClient` | the packets in the two directions of each stream |
| `epoch`, `linked` | which socket connection the client's device has made last, and whether it is up |
| `connectedSources` | `connectedSources` and the device's `remoteObjects()`, changed together at each place |
| `replicas`, `signature`, `state`, `stored`, `attached`, `hasMeta` | the living `QConnectedReplicaImplementation`s with `m_objectSignature`, `m_state`, `m_propertyStorage`, `connectionToSource` and `m_metaObject` |
| `value` | a version number of the source object's properties |

Every action is one handler or application call, with all it changes: the two
branches of the AddObject case of `onServerRead`, each case of `onClientRead`
that touches this state, `onShouldReconnect`, `acquire`, the destructor, and so
on. Either end may lose the connection at any time and notice it alone; what is
in flight is then lost. Values are abstracted to versions: the properties of one
source change together, since each change packet is stored whatever it holds. A
client has one device for the host. Q_ASSERTs are compiled out, as in a release
build, and stated as invariants; where the release build dereferences a null
metaobject the client's process ends (`ClientDies`). The handshake (see `Connection`) is folded
into the connection and the invocation packet that follows a property change
into the change.

### What is checked

`source_replica` (one client with three connections, one name published
twice with a matching signature or another, acquired twice as a compiled or a
dynamic replica; 932 153 states):

- `NoDanglingListener`: a listed connection lives and its source is published.
- `AttachedIsKnown`, `ValidIsAttached`: attachment, the table of sources, the
  socket and the state agree, in spite of late packets.
- `Coherent`: the last values in flight to a listed client, or the values of its
  Valid replica when none are in flight, are the source's.
- `InOrder`: values never go back, on the wire or in a replica.
- `InitializedOnce`: with a name acquired once, values do not come to a replica
  that has had them on this connection, nor in the form of the other kind of
  replica. It is less than what the functions that take the values assert, which
  the code does not keep to (`DynamicNotYetValid`, `StaticNotYetValid`).
- `OneListener`: with a name acquired once, the client is listed at most once and
  not for nothing. Both fail for a client that deletes a replica and acquires the
  name again while an answer is on its way; the condition on `acquires` leaves
  that case out and nothing else. Such a client is listed twice
  (`qremoteobjectsource.cpp:481`), and the answer to the deleted replica meets
  `Q_ASSERT(!m_metaObject)` (`qremoteobjectreplica.cpp:254`).
- `Lifecycle`: a living replica turns Valid while attached, Suspect by being
  detached and in no other way, SignatureMismatch where its node knows a source
  with another signature. `Transitions` are the moves the class documentation has;
  `EarlyLosses`, a replica that turns Suspect before it had values, is named apart as
  it has not (`SuspectWasInitialized`).
- `ImplementsLatentCopy`: `LatentCopy`, the abstract specification, holds under
  the mapping source = value, live = replicas, copy = stored. It says what
  the class documentation says of a replica: a latent copy, in the order of the
  source's changes.

- `Convergence`: a connected replica of a source published once ends Valid and
  up to date.
- `WithdrawalNoticed`: the replica of a withdrawn source does not stay Valid.

**Fairness.** The host's event loop takes a connection, handles a packet or
notices that the client has given a connection up (`HostLoop`); a client's connects
again when its timer fires, handles a packet or notices that the host has given its
connection up (`ClientLoop`). While there is such work, some of it is done. That is
less than event loops guarantee, each of which goes on by itself, and it is enough, as
every step of this kind uses up what it found. Nothing
obliges the application to do anything, and nothing obliges a connection to last.
The bound on connections ends the losses, which is what "eventually" needs.

**Bounds.** `MaxValue`, `MaxEnables`, `MaxAcquires` and `MaxEpochs` bound how
often a source changes or is published, a name is acquired and a connection made;
channels are bounded by these. Two publications give a stale announcement and a
fresh one; two acquisitions an answer for a replica that is gone; two connections
a dead one next to a live one, and the third a second loss. One client
is enough where properties are about one client and the host: listeners of
different clients do not interact. One name is a limit: requests for several names
share an object list and a stream. The safety properties are proved for any number
of names and clients; `Convergence` is checked for one.

### Where the code does not do what is written

- `attaches`: a request that arrives while its source is withdrawn for a moment is
  dropped and never repeated (`doc/src/remoteobjects-replica.qdoc:64`).
- `any_replica_statement` (published twice, acquired twice, three connections). In its
  counterexample
  - only listeners are told that a source is withdrawn, so that a connected node does
    not "always know what sources it can attach itself to"
    (`doc/src/remoteobjects-replica.qdoc:45`; `KnowsTheSources`);
  - a replica that met a source of another signature is attached to the next and gets
    its values in SignatureMismatch, which it never leaves, against the assertion of
    `initialize` (`qremoteobjectreplica.cpp:199`; `StaticNotYetValid`);
  - the connection of a dynamic replica is lost before its first values, and it is
    Suspect all the same, "if the connection to the source is lost after it is
    initialized" (`qremoteobjectreplica.cpp:626`; `SuspectWasInitialized`);
  - it is initialized as Suspect after the reconnect, against the assertion of
    `setDynamicProperties` (`qremoteobjectreplica.cpp:289`; `DynamicNotYetValid`).
- No run shows the assertion `!m_metaObject` (`qremoteobjectreplica.cpp:254`) broken,
  which takes a replica deleted while its answer is on the way and another acquired.

## `Connection`

One node, its devices and the hosts at their urls, with the bytes between them.

| TLA+ | Code |
|---|---|
| `listening`, `bound`, `SetHostUrl`, `HostGone` | `setHostUrl` with `TcpServerImpl::listen` and `LocalServerImpl::listen`; which host a url reaches |
| `wire`, `buffer`, `Arrive` | the stream: each packet a unit for its size and units for its body, cut anywhere by arrivals; the socket's buffer |
| `curReadSize`, `reading`, `ReadIncomplete`, `ReadInvalid`, `ReadPacket` | `m_curReadSize` and the loop of `onClientRead` around `QtROIoDeviceBase::read`, one turn at a time |
| `codec`, `closing` | `m_codec`, set by a handshake; `m_isClosing` |
| `socket`, `Connected`, `ConnectFails`, `Lost` | states of the socket with `onStateChanged` and `onError` of the tcp and the local backend |
| `requestedUrls`, `device`, `InitConnection`, `pendingReconnect`, `timerActive`, `TimerEvent`, `DeleteLater` | the members of that name in `qremoteobjectnode.cpp`; devices may be deleted while they are listed |

`connection` (589 748 states; a tcp and a local url and one of an unknown scheme,
two hosts of which one speaks another protocol version, one loss or crash and one
failed attempt):

- `Framed`: boundaries are found again however arrivals cut the stream. The
  exception it shows: `m_curReadSize` survives a connection lost inside a packet
  (`qconnectionfactories.cpp:86`), and the same device then reads its next
  connection from the wrong place.
- `RetryArmed`: a device that is not connected is on the timer's list with the
  timer running. Not after errors that are not retried (`gaveUp`: a local socket's
  access and timeout errors; a tcp timeout), nor where `initConnection` found no
  address for a tcp host, which is no error of the socket (`unresolved`,
  `qconnection_tcpip_backend.cpp:54`).
- `VersionChecked`: another version's objects are not taken by a device that never
  spoke to a compatible host. One that did keeps its codec when it reconnects
  (`qremoteobjectnode.cpp:1390`), so that nothing stops it.
- `Reconnects`: a url whose host stays ends connected with its objects known,
  except in the cases above, and where the timer lists a device that was closed
  for its version and deleted (`qremoteobjectnode.cpp:276`).

Fairness: the timer fires, a read loop goes on, what was written arrives, an
attempt ends in a connection or an error that is retried, and a socket whose
other end is gone says so. One loss and one failure suffice: each device forgets
what came before except for `codec`, `curReadSize` and the lists; one loss is
enough to leave these set, and one failure to put a device on the timer's list
beside another, or to make it give up.

### Where the code does not do what is written

`any_connection_statement` (two losses, hosts of one version). In its counterexample

- the tcp url's host has no address when it is first asked for, and is not tried
  again, although the code says "Host not there, wait and try again"
  (`qconnection_tcpip_backend.cpp:70`; `MissingHostIsRetried`);
- the local url's connection is lost inside a packet, and what the restored one
  brings is not read (`doc/src/remoteobjects-replica.qdoc:68-70`, "will
  re-initialize if the connection is restored"; `RestoredIsRead`);
- it is lost again, the attempt that follows is taken off the timer's list while it
  is under way (`qremoteobjectnode.cpp:278`) and ends in an error that is not retried
  ("It will attempt to reconnect", the same lines; `LossIsRetried`);
- a second attempt at the unrecognized url is a success
  (`qremoteobjectnode.cpp:1176` against `:2289`; `UnknownIsRefused`).

No run shows what becomes of "Qt Remote Objects will try to reconnect automatically"
(`qremoteobjectnode.cpp:299`) once `timerEvent` meets a deleted device: following
the pointer is undefined, the model stops the timer there, and `Reconnects` excepts it.

## `PendingCalls`

| TLA+ | Code |
|---|---|
| `calls`, `pending` | the `QRemoteObjectPendingCallData`s the application holds; `m_pendingCalls`, with serial id 0 for the heartbeat |
| `curSerialId`, `SendWithReply`, `Send`, `SendInProcess` | `m_curSerialId` with its step back at `INT_MAX`, `_q_sendWithReply`, `_q_send`, and the calls of in-process replicas, finished at once |
| `timer`, `interval`, `HeartbeatTimeout`, `HostReadsPing`, `ReadPong` | `m_heartbeatTimer`, `heartbeatInterval`, Ping and Pong; every command starts the timer anew |
| `rxName`, `slots`, `HostInvokes`, `HostInvokesAsync`, `SlotFinishes` | Invoke in `onServerRead`; a slot that returns a pending call of its own, answered from a lambda under whatever name was read last |
| `waits`, `Wait`, `WaitReturns`, `WaitExpires`, `Watch` | the stack of event loops of `waitForFinished`, with its helper, and watchers |
| `Connect`, `Disconnected`, `GoesSilent` | the connection, closed or broken, and a host that hangs |

An answer is identified by the call it was computed for. `pending_calls`
(562 853 states; two replicas of the host, one of which has used up its serial
ids, and one in the node's own process; two calls, connections and nested loops,
five events of the application and the network):

- `OwnAnswer`: a finished call holds its own answer. It may hold another's where
  ids have run out, as each call is then number 1 (`qremoteobjectreplica.cpp:385`),
  or where an asynchronous answer strayed (`qremoteobjectsourceio.cpp:239`).
- `NoLostWakeup`: when a call finishes, all loops that wait for it are told to
  quit and the signal of the watcher it has is queued, however they are nested. A
  watcher made after the finish is told, too, unless the call was waited for: then
  its helper is there already and the constructor emits nothing (`"deaf"`,
  `qremoteobjectpendingcall.cpp:174`).
- `HealthyStays`: a connection is only taken down for a ping that is unanswered.
  Among the reasons for that is one left over from an earlier connection
  (`qremoteobjectreplica.cpp:75`), since `setDisconnected` forgets no call.
- `SilenceNoticed`: a host that falls silent is noticed, whatever is sent.
- `Answered`: a call whose connection lasts is answered. Not while the
  application waits inside a read: sockets do not repeat `readyRead` within a slot.

Fairness: both ends read, a heartbeat timer that runs fires, a closing socket
closes. Two calls, two connections and two nested loops give every pair an
earlier and a later one, and each exception needs two of something.

### Where the code does not do what is written

`any_call_statement` (two connections, seven events, three packets on their way at a
time). Its counterexample ends in a state in which

- a call is outstanding with the serial id that the next one will have, against the
  assertion of `sendCommandWithReply` (`qremoteobjectreplica.cpp:399`;
  `SerialIdIsFree`), since `m_curSerialId` has reached its limit;
- a call has finished and its watcher was not told, while "This signal is emitted when
  the remote call has finished" (`qremoteobjectpendingcall.cpp:219`; `WatchersAreTold`);
- it holds the answer to another object's call, sent under the name that was read last
  (`qremoteobjectsourceio.cpp:239`), and not "the return value of the remote call"
  (`qremoteobjectpendingcall.cpp:73`; `ReturnsItsOwn`);
- the heartbeat waits on the new connection for a ping of the old one, and will close
  it as "The source didn't respond in time" (`qremoteobjectreplica.cpp:77`;
  `RespondedInTime`).

## `Registry`

The registry host's table (`sourceLocations`), its connections with the url each
has announced (`m_registryMapping`), each node's replica of the table, the hosts'
`hostedSources` and the proxy's `proxiedReplicas`. `EnableRemoting` and
`DisableRemoting` are `addSource` and `removeSource` on the host, `ReadInit` is
`onRegistryInitialized` with `pushToRegistryIfNeeded`, `ServerDisconnected` is
`removeServer`, and `ReadAdded`, `ReadRemoved` and `ReplicaInitialized` end in
`proxyObject` and `unproxyObject`. A connection and the values that initialize
its replica are one step.

`registry` (326 646 states; two hosts that race for one name, a proxy, any three
publications, withdrawals, losses and restarts):

- `ViewsAgree`: a node that has read everything lists every registered source at its
  host, and nothing else but entries that `removeServer` has removed without a signal
  (`forgotten`, `qremoteobjectregistrysource.cpp:24`).
- `ProxyFollows`: what is proxied is what is listed, and only that is exposed, or a
  replica of the same name that `proxiedReplicas` has lost. That happens to a
  name only if `removeServer` forgot its entry (`Forgotten`), when it is announced
  again (`qremoteobjectnode.cpp:2737`).
- `Registered`: a source that only one connected host publishes ends up
  registered. Not when its host found the name taken at the time
  (`qremoteobjectregistry.cpp:131`), nor when the registry learns of the loss of
  the host's old connection after it registered on its new one.
- `Discovered`: the proxy's node asks for the host of what stays registered.

Fairness: the registry's and each node's event loop, reconnecting and noticing
that the other end is gone. Three events are what the longest exception takes;
one name suffices, as no rule relates two.

### Where the code does not do what is written

`any_registry_statement` (the bounds of `registry`). In its counterexample

- a host's entry is removed and no node is told, while remoteObjectRemoved "is emitted
  whenever a Source location is removed from the Registry"
  (`qremoteobjectregistry.cpp:64`, `qremoteobjectnode.cpp:2345`; `RemovalsAreTold`);
- the name is announced again to a proxy that still proxies it, against the
  assertion of `proxyObject` (`qremoteobjectnode.cpp:2737`; `ProxiedOnce`);
- the host has found its own old entry when it was reconnected, dropped its source for it
  (`qremoteobjectregistry.cpp:198`), and is not registered when that entry goes: the
  function does not "synchronize local Source objects with the Registry"
  (`qremoteobjectregistry.cpp:180`; `Synchronized`).

## `ModelReplica` and `NodesCache`

`NodesCache` holds `LRUCache` and `CacheData` as pure operators, in the order of
recent use; `ModelReplica` a tree model of two levels, the adapter that answers
for it, and the replica with its cache, requests and signals. Each structural
signal is an action at the source and another where the replica reads it
(`onDataChanged`, `onRowsInserted`, `onRowsRemoved`, `onRowsMoved`,
`onColumnsInserted`, `onLayoutChanged`, `onModelReset`), and so is each reply
(`handleInitDone`, `handleModelResetDone`, `handleSizeDone`, `requestedData`,
`requestedHeaderData`) and each posted call (`fetchPendingData`,
`fetchPendingHeaderData`). A step into undefined behaviour or a fatal error sets
`undefined` and nothing follows; `happened` remembers the events after which
the code is known to be wrong. A connection may be lost at any time with what is
on it (`ConnectionLost`) and made again (`ConnectionMade`), which brings the values:
`setState` emits `initialized` on every move to Valid, and `init` asks for the
whole model anew (`OnInitialized`, `qremoteobjectreplica.cpp:144`,
`qremoteobjectabstractitemmodelreplica.cpp:788`), with the tree, the watchers and
the requests of before still there.

`model_replica` (317 679 states; two rows, two columns, a child, a cache of three
that may be set to one; two changes and one call of the replica or the reverse):

- `RowsAgree`: sizes agree once everything signalled has arrived, over reconnects, too.
- `CellsFresh`: so do all cached cells, except after `onRowsMoved`, which takes the
  last row for a count (`qremoteobjectabstractitemmodelreplica.cpp:296`), columns
  inserted in the middle, and cells `fillRow` appends in the wrong place (`:472`).
- `Defined`: nothing undefined happens but for a reason: an item is erased under
  `cleanCache`'s iterator only with a cache over its size; one that an answer counts
  on is missing only then, or when rows are gone, or the tree was built anew under it
  by a reset, a new layout or a new connection; indexes are invalid only where
  rows were removed or reset.
- `Repaints`: a view that was shown nothing for a cell is told when it arrives,
  what was lost with a connection included, except when `fetchPendingData` dropped
  the request or its rows are no longer where they were.

Fairness: while there is work in either event loop, some is done; no work makes
more than it ends. The longest exception takes three events; one child and two
rows make every position relative to a change occur.

Three contradictions met here have no run, the properties naming what they lead
to: `initialized` is not emitted "the first time" only
(`qremoteobjectabstractitemmodelreplica.cpp:1072`), as `handleInitDone` emits it
after each reconnect; the sizes that `handleSizeDone` asserts to be equal
(`:403`, `:411`) are those of another item where rows moved in between; and
`removeChildren` asserts that it knows the rows (`qremoteobjectabstractitemmodelreplica_p.h:221`),
which signals handled before the answer to `init` may break.

## `QnxTransport`

A client device and a server, each with its main thread and its receiving
thread, and the kernel's messages and pulses between the four. The actions are
the sections between two blocking calls or locks: `ConnectToServer`,
`ClientPulse`, `ReceiveTxRequest`, `AskForRest`, `ReceiveWrite`, `ServeReceive`,
`ServeRepeat`, `ServeRespond`, `ServeDisconnect`, `Close`, and so on. A byte is
its session and position.

`qnx_transport` (247 847 states; three writes of one or two bytes in two
connections, one refused pulse, one server that closes):

- `Streams`: each side reads what the other wrote in this session, in order and
  once, and the server knows the source of every message. A refused pulse shifts
  the rest of its direction (`qconnection_qnx_qiodevices.cpp:613`).
- `Progress`: all of it is read if the connection stays, and a device that closes,
  waiting for its thread, gets free. `readyRead` is emitted once a message, by the
  receiving thread (`qconnection_qnx_server.cpp:347`): before `QnxServerIo` has
  connected it (`qconnection_qnx_backend.cpp:89`) it reaches nobody, and
  `newConnection` does not look. `early` marks a source whose latest bytes came so;
  they wait for the next ones.

Fairness: the two event loops and the two threads. Three writes share one
request in all the ways `ignore` distinguishes; a second connection meets what
the first has left.

Two assertions are broken here without a run: after a failed `MsgSendvs` the payload is
put back in front of the buffer, so that the next pulse finds it
(`qconnection_qnx_qiodevices.cpp:205`, `:211`), and after a refused pulse the server
answers with another chunk than the client asks for (`qconnection_qnx_server.cpp:271`).

## `Interface`

The tables by which each end numbers properties, signals and slots: `repc`'s
Source, Replica and SourceAPI (`SourceClass`, `ReplicaClass`, `SourceApi`),
`DynamicApiMap` for any QObject (`DynamicApi`), and the metaobject a dynamic replica builds from
its definition. Initial states choose the class, how it is published and how it
is acquired (208 choices: values, constants, push slots, enums, pointers, base
classes, several replicas, another name); then signals, changes, calls and
writes go through `marshalArgs`, `invoke` and the replica's handlers. A pointer
property brings a child source and a child replica, with `resetObject` and
`handlePointerToQObjectProperty`.

`interface` (312 840 states, three events):

- `Conveyed`: what is emitted, called or written at one end is the same member at
  the other, with its arguments, in order, and nothing gets lost. Two exceptions:
  the notification of a pointer property, which comes with one of the arguments
  left over from a longer signal (`qremoteobjectsource.cpp:387`), and the
  push slot of an enum (`repcodegenerator.cpp:1406`).
- `Observed`: a program that reads a property when it is notified has the
  source's value in the end, and that of the child replica. Not for properties without
  a signal or the later ones of those that share one
  (`qremoteobjectnode.cpp:1100`), in-process replicas of classes that inherit
  properties (`qremoteobjectreplica.cpp:844`), and children whose tables were made
  for an object of another class (`qremoteobjectsource.cpp:285`).

Safety only: every packet that is sent is handled in turn, which
`SourceReplica` is about. Two properties of a class are enough for their order
to be wrong in, and three events for one to leave something behind, one to pick
it up and one in between. `DesignsAreClasses` says which classes may be published:
`RepClass` is what `repc` accepts, `PlainClass` any other QObject, without overloads,
whose properties are notified of with their value or without arguments. Both may have
one pointer property.

## Proofs

The theorems hold for every value of the constants. They rest on named assumptions
of the modules, which TLC evaluates in the runs: in `SourceReplica`,
`NamesAreFinite` (an object list and the requests that answer it are finite),
`NoSourceIsNoSignature` (the mark of an absent entry is not a signature) and
`BoundsAreNaturals`; in `Connection`, `CompatibleHostsAreHosts`, `NoneIsNoOne` and
`NoneIsNoList` (the mark of nothing is not a host, a url or a list); in
`PendingCalls`, `MaxIntIsPositive`, `OrderIsNotEmpty`, `BoundsAreNaturals` and
`FirstSerialIdsFit`; in `Registry`, `ProxyIsNoHost` (nor is the mark of nothing),
`NamesAreFinite` and `BoundIsNatural`; in `QnxTransport`, `LengthsArePositive` (an
empty write is none) and `BoundsAreNaturals`; in `ModelReplica`, `ModelIsSmall`
(the initial rows and columns are sequences, an item with a child is one of the
rows, there is a column, and sizes and bounds are natural numbers); in `Interface`,
`DesignsAreClasses` (what is published is a class of `repc`'s or a QObject with
members of their own names, and at most one pointer property).

`SourceReplicaProofs`:

- `TypeCorrect`: Spec => []TypeOK. `TypeOK` is inductive. Its last conjuncts are
  more than types, and the other proofs use them: a client without a socket has
  nothing to read, and a replica is attached only while it lives.
- `ListenersAreAlive`: Spec => []NoDanglingListener, inductive with `TypeOK`:
  `onServerDisconnect` removes a connection from every list before it deletes the
  device, and a request only adds a connection that is being read.
- `AttachmentIsKnown`: Spec => []AttachedIsKnown. It is not inductive alone: that a
  known source implies a socket that is up (`KnownIsLinked`) has to be carried
  along, because `handleNewAcquire` attaches a replica on the strength of
  `connectedSources` and looks at no socket. `AttachedInv` is their conjunction.
- `ValuesInOrder`: Spec => []InOrder. `InOrder` relates whole channels to replicas
  and sources so that it is inductive. The lemmas `OrderedSend` and `OrderedTail`
  say what appending the newest value and reading the first packet do to an
  ordered channel; `SendOrdered`, `ReadOrdered` and `ForgetOrdered` lift them to
  the three things a step may do; each action is then one of the three.
- `LatentCopies`: Spec => ImplementsLatentCopy. The mapping needs `InOrder`, so
  that a value that is stored lies between the one the replica holds and the
  source's, and `Forgotten`, that a name without a replica holds nothing.
  `MapsToChange`, `MapsToAcquire`, `MapsToRelease` and `MapsToUpdate` each
  establish one abstract step; a crash of a client releases all its replicas.
- `ListenersAreTold`: Spec => []Coherent. `CoherentInv` adds `NoFuture` (no host
  has, and no list names, a connection that is still to be made), so that a new
  connection starts without a listener, and states coherence per client and
  replica. Then a step either appends the newest value for every listed client,
  or takes the first packet away, or leaves the channel alone.
- `ValidAreAttached`: Spec => []ValidIsAttached. Why no late Init revives a
  replica: `KnownAfter` is what a client knows of a name after the first k packets
  in flight; `InitsAnnounced` says that the source of every Init is known when it
  is read, and `SourcesAnnounced` that a published name is known after all of them.
  A detached replica of a known source is one whose signature was refused
  (`DetachedMismatches`), and `setState` does not leave that state.
  `ValuesCount`: no packet carries the value of nothing. `ValidInv` is all of
  these.
- `LivesAreOrderly`: Spec => Lifecycle, the action property, from
  `ValidIsAttached` (a Valid replica never waits for a list of objects) and
  `UninitializedIsDynamic` (one that is Uninitialized matches every source). Each
  action that changes a state is shown to make one move of `Transitions` or of
  `EarlyLosses`, with what goes with it.

`SourceReplicaListeners`:

- `ListedOnce`: Spec => []OneListener, and `ValuesComeFirstOnce`: Spec =>
  []InitializedOnce. Both are about a name that the client acquired once on its
  connection. Its interest in the source is in one place at a time: an AddObject
  in flight, an entry in the source's list, or neither after a RemoveObject or a
  withdrawal (`Listed`). `Told` says what the client knows then: who is listed or asks
  to be is attached or has said that it is no longer, and the withdrawal comes once
  and last. `First` says that the Init with the first values is either still to be
  asked for or in the stream once, before the withdrawal, and of the kind that the
  replica's metaobject calls for. `HostHears` (nobody hears a connection whose other
  end is gone) and `AcquiredFirst` (a living replica has been acquired) complete
  `ListingInv`, which TLC found to hold in the instance of `source_replica`
  before it was proved. `ListedHost` and `TokenHost` are the host's steps, the
  lemmas after them the client's.

`ConnectionProofs`:

- `TypeCorrect`: Spec => []TypeOK, with `TypeInv`: the timer's list is part of
  `requestedUrls`, which is finite, so that failures can be counted.
- `PacketsAreFramed`: Spec => []Framed. The inductive form relates the buffer, the
  bytes on the wire and `m_curReadSize` to a place p in what the host sends:
  `InStep` says that what was read ends at p, the buffer continues there and the wire
  after it, and `SizeAt` that a kept size is that of the packet whose header ends
  at p. `FrameArrive` and `FrameRead` show that this survives however the
  stream is cut; a device that lost its socket inside a packet is exempt.
- `RetriesAreArmed`: Spec => []RetryArmed, by `RetryInv`: only devices that exist
  have sockets, the timer's list holds devices, and the timer runs while the
  list is not empty.
- `VersionsAreChecked`: Spec => []VersionChecked, by `VersionInv`: a device with a
  codec had a handshake with a compatible host.

`PendingCallsProofs`:

- `TypeCorrect`: Spec => []TypeOK, with `AnswersAreWanted`: an answer has the
  serial id of a call that wants one, which is what makes `m_pendingCalls` be
  read at an entry it can have.
- `WakeUpsReach`: Spec => []NoLostWakeup, with `WaitsForCalls`: a loop waits for
  a call that was made. It says that loops quit and that the watcher a call has
  when it finishes is told, for any nesting; of a watcher made later only that
  it is told unless the call's helper is of a wait.
- `ClosedForAPing`: Spec => HealthyStays, by `PingInv`: the ping in
  `m_pendingCalls` was sent on the present connection or an earlier one, and in
  the first case it or its Pong is on the way unless the host is silent.
- `AnswersAreOwn`: Spec => []OwnAnswer. `TableInv`: until ids run out the calls of
  one replica have different ones, all below `m_curSerialId`, later calls belong
  to later connections, and an entry of `m_pendingCalls` is the call entered last.
  `PacketsFit`: an invocation or its answer is about a call of this connection and
  carries its id and, unless it strayed, its name. `ReplyFits` is the heart: the
  call an answer finds then is its own or one of the two exceptions.

`RegistryProofs`:

- `TypeCorrect`: Spec => []TypeOK, with `TypeInv`: the sets that are counted are
  finite and sessions are below the next one.
- `ViewsAreRight`: Spec => []ViewsAgree. `ViewsComing` follows a node's view through
  the packets on their way to it: `Tells` is what the view of a name becomes when the
  first k of them are read, `TellsNext` and `TellsRest` are the steps of a sender and
  of a reader, and all packets together tell what the registry holds.
  `AddsAreNews` says that an addition in flight is about a name the view does
  not hold then, which is why none is refused.
- `ProxyFollowsItsView`: Spec => []ProxyFollows. `ListInv` says that a
  list of names is the first packet of a connection and comes once, so that the proxy
  proxies it as a whole, and `OrphansKnown`, with what `removeServer` forgot, that only a
  forgotten entry leaves a replica behind.

`QnxTransportProofs`, for writes of any lengths and any number of connections:

- `TypeCorrect`: Spec => []TypeOK, which includes that a device between connections
  has no thread, pulse or byte left. That `ignore` is at most one more than the
  writes needs the whole of `ToClientOK` below: only there are the lengths in the
  pulses those of the chunks.
- `StreamsAreRight`: Spec => []Streams, by `StreamInv`, which has four parts.
  `ControlInv` places the four threads: a message in the server's channel is the
  one its client waits for, in the state that waits for it, or the last of a
  session that has ended, and the server knows the source of a session that is up.
  `ToClientOK` describes the bytes from the server to the client by the positions e at
  which its chunks are cut: what the client has received ends where the first
  chunk that is left begins, and after the first `ignore` pulses, the rest announce
  exactly the chunks that are left, in order (`Owes`). `ToServerOK` says the same of
  the other direction, where the payload under way lies between the two buffers.
  `ReadOK` keeps what a session that went down has brought. `ServeRepeat` is the heart:
  that `Reads` finds the chunks which make up what was announced as left, so that
  as many pulses are ignored as belong to them, although more may have been
  written since (`ReadsExactly` and the lemmas about `Cut` before it).

TLC found the four parts to hold in the instance of `qnx_transport` before they were
proved.

`ModelReplicaProofs`, for models of any size, any cache and any number of changes,
losses and calls:

- `TypeCorrect`: Spec => []TypeOK, by `StateOK`: the packets of both directions, the
  requests and the replica's tree have the fields and the numbers that the handlers
  read from them. `TreeOK` says so of the tree, and `Keeps` that filling, evicting
  or forgetting what it caches leaves the number of top level rows and columns
  alone. There is a lemma for each operator of `NodesCache` and each action.
- `RowsAlwaysAgree`: Spec => []RowsAgree, by `CountsOK`. `RowsAgree` says something
  only of a quiet connection; what holds at other times is that the counts can
  be told along the packets to the replica (`Counts`): they start from those of
  the tree, or from those of the last live answer to a rebuild, each insertion and
  removal on its way adds to them, and they end with the model's. The exceptions
  are what makes it hard. The adapter answers with the size of the moment, so that
  changes in flight before the answer must not count and those after it must; a
  reset makes the replica ask again only once its first answer has been handled,
  so that a reset signal may stand in for an answer to come (`Starts`) if that
  one is on its way; the answer to a request that a later reset has killed fills nothing
  (`Lives`); and until something has initialized the replica, its first
  request or the answer to it is under way (`InitDue`). `CountsAppend`, `CountsTail`, `CountsTree` and
  `CountsAnew` are the four things a step may do to this: a packet written, a packet
  read, a tree changed with its counts kept, an answer or reset to start from.
  A connection made again starts like the first: `ConnectionMade` puts the values on
  their way, which make the replica ask, with the tree of before in its place.

`InterfaceProofs`, for classes with any number of properties, signals and slots,
and any number of events:

- `DesignAgrees`, the lemma that the theorems rest on: for every class, however it is
  published and acquired, the tables of the host and the metaobject of the replica
  `Agree`. They list the same properties in the same order (`PropertiesAgree`); an
  index of the host's table is that of a signal with the same name and number of arguments
  in the replica's metaobject (`SignalsAgree`), and the number of a slot leads back to the
  slot (`MethodsAgree`), except for the misnamed push slot; a notify signal is found at the
  position of its property (`RawsAgree`). For repc's tables (`StaticAgrees`) this is
  a matter of order alone: signals of changing properties come first, then
  the class's own, and the replica's additional signals for constants come after all of
  these. For `DynamicApi` it is one of lookup by name, where a signal of two
  properties has two indices (`DynamicAgrees`).
- `TypeCorrect`: Spec => []TypeOK, by `TypeInv`. That a child replica has a
  class needs `DefinedInv`: the host leaves the definition out when `sentTypes` has the
  type, so that a dynamic replica must know it by then or have it before the
  packet on its way (`Defining`). `Connecting` says that the values come first
  and once.
- `IndicesAgree`: Spec => []Conveyed, by `ConveyInv`. What was emitted and not
  heard is `due`; `Carries` relates it to the packets to the replica by a count: n[k]
  of `due` are heard with the first k packets, since a signal with two indices is
  sent twice and heard once. A packet that is heard tells of its entry by its
  arguments, or, for the notification of a property, by the value sent just
  before (`Came`). `RequestsMeet` says that a request will be taken for the member that it
  was made for. `Emitted` follows `Emits` through the entries of the table, and `Packed`
  the definitions through the properties of an Init, both by folds. TLC found
  `TypeInv` and `ConveyInv` to hold for classes with
  three properties and two signals, too (196 808 states), before they were proved.
- `ReadersSee`: Spec => []Observed, by `ViewInv`, which is inductive where `TypeInv` and
  `ConveyInv` hold. What the replica stores and the program has read of one property,
  and of the child if it is the pointer, is one record (`Knows`), and each packet makes
  another of it (`Told`). `InSight` says that the packets on their way, in
  order, turn what is had now (`Holding`) into what the object has (`Current`,
  `Leads`). It holds for the properties a program can watch (`Watched`): `EntryIs`
  shows that these have one entry in the host's tables, which sends their value
  before the signal that the program hears, so that whatever lies on its way,
  every emission ends in the object's values (`Informs`). `Named` and `AllFit` say that
  a child replica has the class that the child's tables were made for, now and
  after each definition on its way; `Follows` is about replicas in the host's process,
  which read the object themselves.

The bytes of a list of chunks are defined by recursion over it (`FlattenSeq`), and
what `NodesCache` and `ModelReplica` do with lists by folds. `SetInduction`
derives the induction that this needs from the library's theorem about well-founded
relations, which has no operator as a parameter, for sets of numbers. It is enough
for a recursive function with a statement about each number, so
`FoldExists` and `FoldStep` turn a fold into a function on the sets 1..n, one step
for each element, with the few operators that are folded told apart by a name
(`Turn`).

Only model-checked: `CellsFresh` and `Defined` of `ModelReplica`.
`CellsFresh` has no inductive form yet: it would follow each cached
cell through the answers and the signals under way, with the keys that they
shift. `Defined` is about the instance: with a root cache that is
smaller than the model from the start, an item may be trashed while it is in use although the
application has set no smaller size. Out of reach are liveness under
fairness and `ENABLED`: `Convergence`, `WithdrawalNoticed`, `Reconnects`,
`SilenceNoticed`, `Answered`, `Registered`, `Discovered`, `Repaints` and `Progress`
stay with TLC.

## Not modelled

- *Dynamic types* (`qremoteobjectnode.cpp:22-208`, `729-1004`): registration of
  gadgets and enums with `QMetaType`. The registry of types is global to the
  process and is shared with types the application registers; how a gadget's
  layout is used is data conversion.
- *The reverse proxy* repeats the forward one with the roles exchanged; filters
  only narrow what is proxied.
- *waitForSource*, and a replica destroyed while its calls are outstanding (the
  call data holds a bare pointer to it).
- *External devices* (`addClientSideConnection`, `addHostSideConnection`): the
  application owns their life, and the node does not reconnect them.
- *Item models*: selection, roles, flags, horizontal headers, moves below the top
  level and requests of several ranges.
- *QNX*: high availability (`USE_HAM`), a server process that dies without it,
  and two devices in one process. *SSL and abstract local sockets*: Qt's own.
- *Interfaces*: children of children, models as children, PODs and enums; the
  parser of `.rep` files and the layout of the text `repc` writes.
- *Codec*: conversion of values, containers and gadgets to bytes. *Containers*,
  the *settings store* and the *QML binding*: sequential, without state that
  another component depends on.

What could come next: an inductive invariant for `CellsFresh` in `ModelReplica`,
the reverse proxy, and waiting for a source across a reconnect.
