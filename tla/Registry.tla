------------------------------ MODULE Registry ------------------------------
(***************************************************************************)
(* A registry host (QRegistrySource behind its QRemoteObjectSourceIo), the *)
(* hosts that register their sources with it, and a proxy whose inner node *)
(* follows it (ProxyInfo).  Hosts and the proxy's node each hold a replica *)
(* of the registry (QRemoteObjectRegistry) over a connection of their own, *)
(* which may be lost at one end before the other notices.                  *)
(*                                                                         *)
(* A host is its url.  A connection and the answered request for the       *)
(* registry's values are one step, as nothing else is sent between them:   *)
(* SourceReplica and Connection have them in detail.  Asserts are compiled *)
(* out.                                                                    *)
(***************************************************************************)
EXTENDS Integers, Sequences, FiniteSets

CONSTANTS
  Hosts,     \* QRemoteObjectHosts, each with a url
  Proxy,     \* the node inside ProxyInfo
  Names,     \* names of sources
  None,
  MaxEvents  \* bound: sources published or withdrawn, losses and restarts

ASSUME ProxyIsNoHost == Proxy \notin Hosts /\ None \notin Hosts
ASSUME NamesAreFinite == IsFiniteSet(Names)
ASSUME BoundIsNatural == MaxEvents \in Nat

Nodes == Hosts \cup {Proxy}

VARIABLES
  \* The registry host
  sourceLocations, \* QRegistrySource::m_sourceLocations
  conns,           \* its connections: m_registryMapping and unread packets
  \* Every node
  session,         \* the node's connection, or 0
  sessions,        \* connections the node has made
  status,          \* state of its registry replica
  locations,       \* the replica's sourceLocations
  toNode,          \* packets on their way to it
  requestedUrls,   \* requestedUrls
  \* Hosts
  published,       \* m_sourceRoots
  hostedSources,   \* QRemoteObjectRegistryPrivate::hostedSources
  \* ProxyInfo
  proxied,         \* names in proxiedReplicas
  orphans,         \* names with a replica that proxiedReplicas has lost
  exposed,         \* which replica the outer node publishes under a name
  \* History
  refused,         \* registrations a host or the registry has declined
  forgotten,       \* entries that removeServer has removed
  outlived,        \* hosts removed for an old connection while they had a new one
  events

registryVars == <<sourceLocations, conns>>
replicaVars == <<status, locations, requestedUrls>>
hostVars == <<published, hostedSources>>
proxyVars == <<proxied, orphans, exposed>>
historyVars == <<refused, forgotten, outlived>>
vars == <<registryVars, session, sessions, replicaVars, toNode, hostVars,
          proxyVars, historyVars, events>>

NoLocations == [name \in Names |-> None]

Init ==
  /\ sourceLocations = NoLocations
  /\ conns = <<>>
  /\ session = [n \in Nodes |-> 0] /\ sessions = [n \in Nodes |-> 0]
  /\ status = [n \in Nodes |-> "Default"]
  /\ locations = [n \in Nodes |-> NoLocations]
  /\ toNode = [n \in Nodes |-> <<>>]
  /\ requestedUrls = [n \in Nodes |-> {}]
  /\ published = [h \in Hosts |-> {}]
  /\ hostedSources = [h \in Hosts |-> {}]
  /\ proxied = {} /\ orphans = {}
  /\ exposed = [name \in Names |-> "none"]
  /\ refused = {} /\ forgotten = {} /\ outlived = {}
  /\ events = 0

Event == events < MaxEvents /\ events' = events + 1

-----------------------------------------------------------------------------
(* Packets *)

Add(name, h) == [type |-> "add", name |-> name, host |-> h]
Remove(name, h) == [type |-> "remove", name |-> name, host |-> h]
InitPacket(locs) == [type |-> "Init", locations |-> locs]

Conn(n) == <<n, session[n]>>

(* What a node sends reaches the registry if that still has its connection. *)
Sent(n, packets) ==
  IF Conn(n) \in DOMAIN conns
    THEN [conns EXCEPT ![Conn(n)].inbox = @ \o packets]
    ELSE conns

(* A signal of the registry source: every connection listens to it. *)
Broadcast(packet) ==
  [n \in Nodes |-> IF Conn(n) \in DOMAIN conns THEN Append(toNode[n], packet)
                   ELSE toNode[n]]

-----------------------------------------------------------------------------
(* A host publishes and withdraws sources *)

Registrable(h, name) == status[h] = "Valid" /\ locations[h][name] = None

(* QRemoteObjectRegistry::addSource: the entry is kept to be pushed later,  *)
(* but nothing is sent for a name that the replica lists already.           *)
AddSource(h, name) ==
  /\ hostedSources' = [hostedSources EXCEPT ![h] = @ \cup {name}]
  /\ IF Registrable(h, name) /\ name \notin hostedSources[h]
       THEN conns' = Sent(h, <<Add(name, h)>>) /\ refused' = refused \ {<<h, name>>}
       ELSE /\ UNCHANGED conns
            /\ refused' = IF status[h] = "Valid" THEN refused \cup {<<h, name>>}
                          ELSE refused

(* QRemoteObjectRegistry::removeSource *)
RemoveSource(h, name) ==
  /\ hostedSources' = [hostedSources EXCEPT ![h] = @ \ {name}]
  /\ conns' = IF status[h] = "Valid" /\ name \in hostedSources[h]
                THEN Sent(h, <<Remove(name, h)>>) ELSE conns

(* enableRemoting and registerSource; a name is published once. *)
EnableRemoting(h, name) ==
  /\ Event
  /\ name \notin published[h]
  /\ published' = [published EXCEPT ![h] = @ \cup {name}]
  /\ AddSource(h, name)
  /\ UNCHANGED <<sourceLocations, session, sessions, replicaVars, toNode,
                 proxyVars, forgotten, outlived>>

(* disableRemoting and unregisterSource *)
DisableRemoting(h, name) ==
  /\ Event
  /\ name \in published[h]
  /\ published' = [published EXCEPT ![h] = @ \ {name}]
  /\ RemoveSource(h, name)
  /\ refused' = refused \ {<<h, name>>}
  /\ UNCHANGED <<sourceLocations, session, sessions, replicaVars, toNode,
                 proxyVars, forgotten, outlived>>

-----------------------------------------------------------------------------
(* The registry reads *)

MappedByName(c, packet) ==
  IF conns[c].mapping = None THEN packet.name ELSE conns[c].mapping

(* The first invocation through a connection tells whose it is. *)
Mapped(c, packet) ==
  IF conns[c].mapping = None THEN packet.host ELSE conns[c].mapping

Read(c) == [conns EXCEPT ![c].inbox = Tail(@),
                         ![c].mapping = Mapped(c, Head(conns[c].inbox))]

RegistryReads(c, type) ==
  /\ conns[c].inbox # <<>> /\ Head(conns[c].inbox).type = type
  /\ UNCHANGED <<session, sessions, replicaVars, hostVars, proxyVars, forgotten,
                 outlived, events>>

RegistryAddReplaces(c) ==
  LET p == Head(conns[c].inbox)
  IN  /\ RegistryReads(c, "add")
      /\ conns' = Read(c)
      /\ sourceLocations' = [sourceLocations EXCEPT ![p.name] = p.host]
      /\ toNode' = IF sourceLocations[p.name] = None THEN Broadcast(p)
                   ELSE toNode
      /\ UNCHANGED refused

(* QRegistrySource::addSource: a name that is taken is only logged. *)
RegistryAdd(c) ==
  LET p == Head(conns[c].inbox)
  IN  /\ RegistryReads(c, "add")
      /\ conns' = Read(c)
      /\ IF sourceLocations[p.name] = None
           THEN /\ sourceLocations' = [sourceLocations EXCEPT ![p.name] = p.host]
                /\ toNode' = Broadcast(p)
                /\ UNCHANGED refused
           ELSE /\ refused' = refused \cup {<<p.host, p.name>>}
                /\ UNCHANGED <<sourceLocations, toNode>>

(* QRegistrySource::removeSource: only the host that is listed may remove. *)
RegistryRemove(c) ==
  LET p == Head(conns[c].inbox)
  IN  /\ RegistryReads(c, "remove")
      /\ conns' = Read(c)
      /\ IF sourceLocations[p.name] = p.host
           THEN /\ sourceLocations' = [sourceLocations EXCEPT ![p.name] = None]
                /\ toNode' = Broadcast(p)
           ELSE UNCHANGED <<sourceLocations, toNode>>
      /\ UNCHANGED refused

(* removeServer: all entries of a url, without remoteObjectRemoved *)
WithoutServer(h) ==
  [name \in Names |-> IF sourceLocations[name] = h THEN None ELSE sourceLocations[name]]

(* onServerDisconnect *)
ServerDisconnected(c) ==
  LET h == conns[c].mapping
      entries == {<<h, name>> : name \in {n \in Names : sourceLocations[n] = h}}
  IN  /\ c # Conn(c[1])
      /\ conns' = [d \in DOMAIN conns \ {c} |-> conns[d]]
      /\ IF h = None
           THEN UNCHANGED <<sourceLocations, forgotten, outlived>>
           ELSE /\ sourceLocations' = WithoutServer(h)
                /\ forgotten' = forgotten \cup entries
                /\ outlived' = IF session[h] # 0 THEN outlived \cup {h} ELSE outlived
      /\ UNCHANGED <<session, sessions, replicaVars, toNode, hostVars, proxyVars,
                     refused, events>>

-----------------------------------------------------------------------------
(* ProxyInfo *)

(* proxyObject, for a name that should not be proxied yet: without the      *)
(* assert a second replica takes the place of the first.                    *)
ProxyObjects(names) ==
  /\ proxied' = proxied \cup names
  /\ orphans' = orphans \cup (proxied \cap names)
  /\ exposed' = [name \in Names |->
       IF name \in proxied \cap names /\ exposed[name] = "current" THEN "orphan"
       ELSE exposed[name]]

(* unproxyObject and disableAndDeleteObject withdraw the replica they know. *)
UnproxyObjects(names) ==
  /\ proxied' = proxied \ names
  /\ exposed' = [name \in Names |->
       IF name \in names /\ exposed[name] = "current" THEN "none" ELSE exposed[name]]
  /\ UNCHANGED orphans

(* A replica of the proxy's node is initialized by a host that node knows   *)
(* (again, for every replica of the name, the older first): the outer node  *)
(* publishes it, unless it publishes one of that name already.              *)
ReplicaInitialized(name) ==
  /\ \E h \in requestedUrls[Proxy] : name \in published[h]
  /\ exposed[name] = "none"
  /\ \/ name \in orphans /\ exposed' = [exposed EXCEPT ![name] = "orphan"]
     \/ name \in proxied \ orphans /\ exposed' = [exposed EXCEPT ![name] = "current"]
  /\ UNCHANGED <<registryVars, session, sessions, replicaVars, toNode, hostVars,
                 proxied, orphans, historyVars, events>>

-----------------------------------------------------------------------------
(* A node reads what its registry replica is sent *)

Listed(locs) == {name \in Names : locs[name] # None}

(* pushToRegistryIfNeeded: what the host holds and the registry lists is    *)
(* another's by assumption and dropped; the rest is registered.             *)
Dropped(h, locs) == hostedSources[h] \cap Listed(locs)

Orders(S) == {s \in [1..Cardinality(S) -> S] :
                \A i, j \in DOMAIN s : s[i] = s[j] => i = j}
Adds(h, order) == [i \in DOMAIN order |-> Add(order[i], h)]

PushFirst(h, locs) ==
  /\ UNCHANGED <<hostedSources, refused>>
  /\ IF status[h] = "Default"
       THEN \E order \in Orders(hostedSources[h]) : conns' = Sent(h, Adds(h, order))
       ELSE UNCHANGED conns

PushToRegistry(h, locs) ==
  LET dropped == Dropped(h, locs)
      pushed == hostedSources[h] \ dropped
  IN  /\ hostedSources' = [hostedSources EXCEPT ![h] = pushed]
      /\ \E order \in Orders(pushed) : conns' = Sent(h, Adds(h, order))
      /\ refused' = (refused \cup {<<h, name>> : name \in dropped})
                      \ {<<h, name>> : name \in pushed}

NodeReads(n, type) ==
  /\ session[n] # 0
  /\ toNode[n] # <<>> /\ Head(toNode[n]).type = type
  /\ toNode' = [toNode EXCEPT ![n] = Tail(@)]
  /\ UNCHANGED <<sourceLocations, session, sessions, published, forgotten,
                 outlived, events>>

ReadInitUnconnected(n) ==
  LET locs == Head(toNode[n]).locations
  IN  /\ NodeReads(n, "Init")
      /\ locations' = [locations EXCEPT ![n] = locs]
      /\ status' = [status EXCEPT ![n] = "Valid"]
      /\ IF n = Proxy
           THEN ProxyObjects(Listed(locs)) /\ UNCHANGED <<conns, hostedSources, refused>>
           ELSE PushToRegistry(n, locs) /\ UNCHANGED proxyVars
      /\ UNCHANGED requestedUrls

(* initialize: onRegistryInitialized, ProxyInfo's initialized, and the      *)
(* push, in this order.                                                     *)
ReadInit(n) ==
  LET locs == Head(toNode[n]).locations
  IN  /\ NodeReads(n, "Init")
      /\ locations' = [locations EXCEPT ![n] = locs]
      /\ status' = [status EXCEPT ![n] = "Valid"]
      /\ IF n = Proxy
           THEN /\ ProxyObjects(Listed(locs))
                /\ requestedUrls' = [requestedUrls EXCEPT
                     ![n] = @ \cup {locs[name] : name \in Listed(locs)}]
                /\ UNCHANGED <<conns, hostedSources, refused>>
           ELSE /\ PushToRegistry(n, locs)
                /\ UNCHANGED <<requestedUrls, proxyVars>>

(* onRemoteObjectSourceAdded, and proxyObject, whose replica asks for the   *)
(* connection too *)
ReadAdded(n) ==
  LET p == Head(toNode[n])
  IN  /\ NodeReads(n, "add")
      /\ locations' = [locations EXCEPT ![n][p.name] = p.host]
      /\ IF n = Proxy
           THEN /\ ProxyObjects({p.name})
                /\ requestedUrls' = [requestedUrls EXCEPT ![n] = @ \cup {p.host}]
           ELSE UNCHANGED <<proxyVars, requestedUrls>>
      /\ UNCHANGED <<conns, hostedSources, refused, status>>

ReadRemovedLate(n) ==
  /\ NodeReads(n, "remove")
  /\ IF n = Proxy THEN UnproxyObjects({Head(toNode[n]).name}) ELSE UNCHANGED proxyVars
  /\ UNCHANGED <<conns, hostedSources, refused, status, requestedUrls, locations>>

(* onRemoteObjectSourceRemoved, and unproxyObject *)
ReadRemoved(n) ==
  LET p == Head(toNode[n])
  IN  /\ NodeReads(n, "remove")
      /\ locations' = [locations EXCEPT ![n][p.name] = None]
      /\ IF n = Proxy THEN UnproxyObjects({p.name}) ELSE UNCHANGED proxyVars
      /\ UNCHANGED <<conns, hostedSources, refused, status, requestedUrls>>

-----------------------------------------------------------------------------
(* Connections, losses and restarts *)

(* A connection is made and the registry replica's request is answered: it *)
(* listens from now on.                                                     *)
Connect(n) ==
  LET c == <<n, sessions[n] + 1>>
  IN  /\ session[n] = 0
      /\ session' = [session EXCEPT ![n] = sessions[n] + 1]
      /\ sessions' = [sessions EXCEPT ![n] = @ + 1]
      /\ conns' = [d \in DOMAIN conns \cup {c} |->
           IF d = c THEN [mapping |-> None, inbox |-> <<>>] ELSE conns[d]]
      /\ toNode' = [toNode EXCEPT ![n] = <<InitPacket(sourceLocations)>>]
      /\ UNCHANGED <<sourceLocations, replicaVars, hostVars, proxyVars,
                     historyVars, events>>

(* onShouldReconnect: the registry replica is Suspect, and the proxy        *)
(* withdraws everything.                                                    *)
Disconnected(n) ==
  /\ session' = [session EXCEPT ![n] = 0]
  /\ toNode' = [toNode EXCEPT ![n] = <<>>]
  /\ IF n = Proxy THEN UnproxyObjects(proxied) ELSE UNCHANGED proxyVars
  /\ UNCHANGED <<registryVars, sessions, historyVars>>

ConnectionLost(n) ==
  /\ session[n] # 0
  /\ IF Conn(n) \in DOMAIN conns THEN Event ELSE UNCHANGED events
  /\ Disconnected(n)
  /\ status' = [status EXCEPT ![n] = "Suspect"]
  /\ UNCHANGED <<locations, requestedUrls, hostVars>>

(* The host's process ends; it starts again with nothing. *)
HostRestarts(h) ==
  /\ Event
  /\ session[h] # 0
  /\ Disconnected(h)
  /\ status' = [status EXCEPT ![h] = "Default"]
  /\ locations' = [locations EXCEPT ![h] = NoLocations]
  /\ published' = [published EXCEPT ![h] = {}]
  /\ hostedSources' = [hostedSources EXCEPT ![h] = {}]
  /\ UNCHANGED requestedUrls

RegistryRestarts ==
  /\ Event
  /\ sourceLocations' = NoLocations
  /\ conns' = <<>>
  /\ toNode' = [n \in Nodes |-> <<>>]
  /\ UNCHANGED <<session, sessions, replicaVars, hostVars, proxyVars, historyVars>>

-----------------------------------------------------------------------------
RegistryStep ==
  \E c \in DOMAIN conns : RegistryAdd(c) \/ RegistryRemove(c) \/ ServerDisconnected(c)

NodeStep(n) == ReadInit(n) \/ ReadAdded(n) \/ ReadRemoved(n) \/ Connect(n)

Next ==
  \/ \E c \in DOMAIN conns : RegistryAdd(c)
  \/ \E c \in DOMAIN conns : RegistryRemove(c)
  \/ \E c \in DOMAIN conns : ServerDisconnected(c)
  \/ \E n \in Nodes : NodeStep(n) \/ ConnectionLost(n)
  \/ \E h \in Hosts : HostRestarts(h)
  \/ \E h \in Hosts, name \in Names : EnableRemoting(h, name) \/ DisableRemoting(h, name)
  \/ \E name \in Names : ReplicaInitialized(name)
  \/ RegistryRestarts

Spec == Init /\ [][Next]_vars

(* The event loops turn, sockets reconnect, and broken ones are noticed. *)
FairSpec ==
  /\ Spec
  /\ WF_vars(RegistryStep)
  /\ \A n \in Nodes :
       /\ WF_vars(NodeStep(n))
       /\ WF_vars(Conn(n) \notin DOMAIN conns /\ ConnectionLost(n))

-----------------------------------------------------------------------------
Locations == [Names -> Hosts \cup {None}]
ConnIds == Nodes \X (1..MaxEvents + 1)

(* Type correctness of everything above. *)
TypeOK ==
  /\ sourceLocations \in Locations
  /\ locations \in [Nodes -> Locations]
  /\ DOMAIN conns \subseteq ConnIds
  /\ \A c \in DOMAIN conns : conns[c].mapping \in {c[1], None}
  /\ session \in [Nodes -> Nat] /\ sessions \in [Nodes -> Nat]
  /\ status \in [Nodes -> {"Default", "Valid", "Suspect"}]
  /\ requestedUrls \in [Nodes -> SUBSET Hosts]
  /\ published \in [Hosts -> SUBSET Names] /\ hostedSources \in [Hosts -> SUBSET Names]
  /\ proxied \subseteq Names /\ orphans \subseteq Names
  /\ exposed \in [Names -> {"none", "current", "orphan"}]
  /\ refused \subseteq Hosts \X Names
  /\ forgotten \subseteq Hosts \X Names /\ outlived \subseteq Hosts
  /\ events \in 0..MaxEvents

Settled(n) ==
  status[n] = "Valid" /\ Conn(n) \in DOMAIN conns /\ toNode[n] = <<>>

(* Init, remoteObjectAdded and remoteObjectRemoved together keep every      *)
(* replica of the registry right, whatever they cross with: once it has     *)
(* read what was sent to it, a node misses no registered source and has     *)
(* none at the wrong host.  It may have a source too many: this very entry, *)
(* which removeServer has removed without a signal (registrysource.cpp:24;  *)
(* RemovalsAreTold is the run about that).                                  *)
ViewsAgree ==
  \A n \in Nodes, name \in Names : Settled(n) =>
    \/ locations[n][name] = sourceLocations[name]
    \/ sourceLocations[name] = None /\ <<locations[n][name], name>> \in forgotten

(* What the documentation of remoteObjectRemoved (registry.cpp:64 and       *)
(* node.cpp:2345) says: it is emitted whenever a source location is removed *)
(* from the registry. So a node that has read what was sent to it lists     *)
(* nothing that was removed.                                                *)
RemovalsAreTold ==
  \A n \in Nodes, name \in Names :
    Settled(n) /\ sourceLocations[name] = None => locations[n][name] = None

Forgotten(name) == \E h \in Hosts : <<h, name>> \in forgotten

(* The proxy publishes what its registry lists, and nothing else: replicas  *)
(* are proxied exactly for the listed names, and only these are exposed, or *)
(* one of the same name that proxiedReplicas has lost. Which happens to a   *)
(* name only where removeServer forgot its entry, when it is announced      *)
(* again (ProxiedOnce is the run about that).                               *)
ProxyFollows ==
  /\ status[Proxy] = "Valid" => proxied = Listed(locations[Proxy])
  /\ status[Proxy] # "Valid" => proxied = {}
  /\ \A name \in Names : exposed[name] # "none" => name \in proxied \cup orphans
  /\ \A name \in orphans : Forgotten(name)

(* What proxyObject asserts (node.cpp:2737): the name that is announced is  *)
(* not proxied yet.                                                         *)
ProxiedOnce ==
  LET next == Head(toNode[Proxy])
  IN  toNode[Proxy] # <<>> => /\ next.type = "add" => next.name \notin proxied
                              /\ next.type = "Init" => proxied = {}

(* A source that stays published by one host alone, over a connection that  *)
(* stays, ends up registered, whatever was lost and restarted before.       *)
(* Exceptions: its registration was refused for an entry that was there at  *)
(* the time (of another host, or the host's own old one), or removed when   *)
(* the registry noticed the loss of an old connection of the host.          *)
Registered ==
  \A h \in Hosts, name \in Names :
    <>[](/\ name \in published[h] /\ session[h] # 0
         /\ \A other \in Hosts \ {h} : name \notin published[other]) =>
      <>[](sourceLocations[name] = h \/ <<h, name>> \in refused \/ h \in outlived)

(* What the comment of pushToRegistryIfNeeded (registry.cpp:180) says of a  *)
(* host whose connection to the registry was lost: when it is connected     *)
(* again, its sources are synchronized with the registry. Stated of names   *)
(* that one host alone publishes, once and for all.                         *)
Synchronized ==
  \A h \in Hosts, name \in Names :
    /\ <>[](name \in published[h] /\ session[h] # 0)
    /\ [](\A other \in Hosts \ {h} : name \notin published[other])
    => <>[](sourceLocations[name] = h)

(* The proxy's node asks for a connection to the host of every source that  *)
(* stays registered.                                                        *)
Discovered ==
  \A h \in Hosts, name \in Names :
    <>[](sourceLocations[name] = h /\ session[Proxy] # 0) => <>(h \in requestedUrls[Proxy])

(* RemovalsAreTold, ProxiedOnce and Synchronized: the code breaks each of   *)
(* them, and one behaviour breaks all three.                                *)
AnyRegistryStatement == []RemovalsAreTold \/ []ProxiedOnce \/ Synchronized
=============================================================================
