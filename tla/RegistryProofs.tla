--------------------------- MODULE RegistryProofs ---------------------------
(***************************************************************************)
(* Theorems about Registry, for any hosts and names: every node's view of  *)
(* the registry is right once it has read what was sent to it, and the     *)
(* proxy follows its view.                                                 *)
(***************************************************************************)
EXTENDS Registry, SequenceTheorems, FiniteSetTheorems, TLAPS

-----------------------------------------------------------------------------
(* Types *)

\* What a node may send: only hosts register sources, and each its own.
Requests(n) == [type : {"add", "remove"}, name : Names, host : {n} \cap Hosts]
Changes == [type : {"add", "remove"}, name : Names, host : Hosts]
Lists == [type : {"Init"}, locations : Locations]
Packets == Changes \cup Lists

ConnState(n) == [mapping : ({n} \cap Hosts) \cup {None}, inbox : Seq(Requests(n))]

WiresOK ==
  /\ \A c \in DOMAIN conns : conns[c] \in ConnState(c[1])
  /\ toNode \in [Nodes -> Seq(Packets)]

\* Each connection of a node but the first is paid for with an event, when the
\* one before it is lost.
SessionsOK ==
  \A n \in Nodes :
    /\ session[n] \in {0, sessions[n]}
    /\ sessions[n] <= IF Conn(n) \in DOMAIN conns THEN events + 1 ELSE events

TypeInv == TypeOK /\ WiresOK /\ SessionsOK

(* What the first packet and the rest of a sequence are. *)
LEMMA HeadAndTail ==
  ASSUME NEW S, NEW s \in Seq(S), s # <<>>
  PROVE  /\ Head(s) = s[1] /\ Head(s) \in S /\ Tail(s) \in Seq(S)
         /\ Len(s) \in Nat \ {0} /\ Len(Tail(s)) = Len(s) - 1
         /\ \A i \in 1..Len(Tail(s)) : Tail(s)[i] = s[i + 1]
BY HeadTailProperties, EmptySeq, LenProperties

(* What a node writes reaches the inbox of its connection, if that lives,  *)
(* and nothing else.                                                       *)
LEMMA SentType ==
  ASSUME TypeInv, NEW n \in Nodes, NEW packets \in Seq(Requests(n))
  PROVE  /\ DOMAIN Sent(n, packets) = DOMAIN conns
         /\ \A c \in DOMAIN conns : Sent(n, packets)[c] \in ConnState(c[1])
<1>1. CASE Conn(n) \notin DOMAIN conns
  BY <1>1 DEF TypeInv, WiresOK, Sent
<1>2. CASE Conn(n) \in DOMAIN conns
  <2>. DEFINE new == Sent(n, packets)
  <2>1. new = [conns EXCEPT ![Conn(n)].inbox = @ \o packets]
    BY <1>2 DEF Sent
  <2>2. conns[Conn(n)] \in ConnState(n)
    BY <1>2 DEF TypeInv, WiresOK, Conn
  <2>3. conns[Conn(n)].inbox \o packets \in Seq(Requests(n))
    BY <2>2, ConcatProperties DEF ConnState
  <2>4. new[Conn(n)] \in ConnState(n)
    BY <1>2, <2>1, <2>2, <2>3 DEF ConnState
  <2>5. DOMAIN new = DOMAIN conns /\ \A c \in DOMAIN conns : c # Conn(n) => new[c] = conns[c]
    BY <2>1
  <2>6. Conn(n)[1] = n
    BY DEF Conn
  <2>. QED  BY <2>4, <2>5, <2>6 DEF TypeInv, WiresOK
<1>. QED  BY <1>1, <1>2

(* A registration is a request of the host that makes it. *)
LEMMA RequestType ==
  ASSUME NEW h \in Hosts, NEW name \in Names
  PROVE  /\ <<Add(name, h)>> \in Seq(Requests(h))
         /\ <<Remove(name, h)>> \in Seq(Requests(h))
<1>1. Add(name, h) \in Requests(h) /\ Remove(name, h) \in Requests(h)
  BY DEF Add, Remove, Requests
<1>. QED  BY <1>1

(* So are those pushToRegistryIfNeeded makes, in whatever order. *)
LEMMA AddsType ==
  ASSUME NEW h \in Hosts, NEW S \in SUBSET Names, NEW order \in Orders(S)
  PROVE  Adds(h, order) \in Seq(Requests(h))
<1>1. IsFiniteSet(S)
  BY NamesAreFinite, FS_Subset
<1>2. Cardinality(S) \in Nat
  BY <1>1, FS_CardinalityType
<1>3. order \in [1..Cardinality(S) -> S]
  BY DEF Orders
<1>4. \A i \in DOMAIN order : Add(order[i], h) \in Requests(h)
  BY <1>3 DEF Add, Requests
<1>5. DOMAIN order = 1..Cardinality(S)
  BY <1>3
<1>. QED  BY <1>2, <1>4, <1>5 DEF Adds

(* What the registry broadcasts is a packet for each node. *)
LEMMA BroadcastType ==
  ASSUME TypeInv, NEW p \in Packets
  PROVE  Broadcast(p) \in [Nodes -> Seq(Packets)]
<1>1. \A n \in Nodes : Append(toNode[n], p) \in Seq(Packets) /\ toNode[n] \in Seq(Packets)
  BY AppendProperties DEF TypeInv, WiresOK
<1>. QED  BY <1>1 DEF Broadcast

(* The registry takes the first request of an inbox. *)
LEMMA ReadType ==
  ASSUME TypeInv, NEW c \in DOMAIN conns, conns[c].inbox # <<>>
  PROVE  /\ Head(conns[c].inbox) \in Requests(c[1]) /\ Head(conns[c].inbox) \in Changes
         /\ DOMAIN Read(c) = DOMAIN conns
         /\ \A d \in DOMAIN conns : Read(c)[d] \in ConnState(d[1])
<1>. DEFINE p == Head(conns[c].inbox)
<1>1. conns[c] \in ConnState(c[1])
  BY DEF TypeInv, WiresOK
<1>2. p \in Requests(c[1]) /\ Tail(conns[c].inbox) \in Seq(Requests(c[1]))
  BY <1>1, HeadAndTail DEF ConnState
<1>3. p \in Changes /\ p.host \in {c[1]} \cap Hosts
  BY <1>2 DEF Requests, Changes
<1>4. Mapped(c, p) \in ({c[1]} \cap Hosts) \cup {None}
  BY <1>1, <1>3 DEF Mapped, ConnState
<1>5. /\ DOMAIN Read(c) = DOMAIN conns
      /\ \A d \in DOMAIN conns : d # c => Read(c)[d] = conns[d]
      /\ Read(c)[c] = [conns[c] EXCEPT !.inbox = Tail(@), !.mapping = Mapped(c, p)]
  BY DEF Read
<1>6. Read(c)[c] \in ConnState(c[1])
  BY <1>1, <1>2, <1>4, <1>5 DEF ConnState
<1>. QED  BY <1>2, <1>3, <1>5, <1>6 DEF TypeInv, WiresOK

(* At first there is nothing. *)
LEMMA TypeInit == Init => TypeInv
<1>. SUFFICES ASSUME Init  PROVE TypeInv
  OBVIOUS
<1>1. DOMAIN conns = {} /\ <<>> \in Seq(Packets)
  BY EmptySeq DEF Init
<1>2. TypeOK
  BY <1>1, BoundIsNatural DEF Init, TypeOK, NoLocations, Locations
<1>. QED  BY <1>1, <1>2 DEF Init, TypeInv, WiresOK, SessionsOK

(* A node without a connection has none at the registry either. *)
LEMMA NoConn ==
  ASSUME TypeInv, NEW n \in Nodes
  PROVE  /\ session[n] = 0 => Conn(n) \notin DOMAIN conns
         /\ <<n, 0>> \notin DOMAIN conns
BY BoundIsNatural DEF TypeInv, TypeOK, ConnIds, Conn

(* Steps that make and lose no connection leave its accounts in order. *)
LEMMA SessionsKept ==
  ASSUME TypeInv, UNCHANGED <<session, sessions>>, events' \in {events, events + 1},
         \A n \in Nodes : Conn(n) \in DOMAIN conns =>
            Conn(n) \in DOMAIN conns' \/ events' = events + 1
  PROVE  SessionsOK'
<1>1. \A n \in Nodes : Conn(n)' = Conn(n)
  BY DEF Conn
<1>2. /\ events \in Nat /\ events' \in Nat /\ events <= events'
      /\ \A n \in Nodes : sessions[n] \in Nat
  BY BoundIsNatural DEF TypeInv, TypeOK
<1>. QED  BY <1>1, <1>2 DEF TypeInv, SessionsOK

(* A host publishes and withdraws its own sources. *)
LEMMA TypePublish ==
  ASSUME TypeInv, NEW h \in Hosts, NEW name \in Names,
         EnableRemoting(h, name) \/ DisableRemoting(h, name)
  PROVE  TypeInv'
<1>1. /\ events' = events + 1 /\ events' \in 0..MaxEvents
      /\ UNCHANGED <<sourceLocations, session, sessions, replicaVars, toNode,
                     proxyVars, forgotten, outlived>>
  BY BoundIsNatural DEF TypeInv, TypeOK, EnableRemoting, DisableRemoting, Event
<1>2. /\ published' \in [Hosts -> SUBSET Names] /\ hostedSources' \in [Hosts -> SUBSET Names]
      /\ refused' \subseteq Hosts \X Names
  <2>1. CASE EnableRemoting(h, name)
    BY <2>1 DEF TypeInv, TypeOK, EnableRemoting, AddSource
  <2>2. CASE DisableRemoting(h, name)
    BY <2>2 DEF TypeInv, TypeOK, DisableRemoting, RemoveSource
  <2>. QED  BY <2>1, <2>2
<1>3. PICK packets \in Seq(Requests(h)) : conns' \in {conns, Sent(h, packets)}
  BY RequestType DEF EnableRemoting, AddSource, DisableRemoting, RemoveSource
<1>4. /\ DOMAIN conns' = DOMAIN conns
      /\ \A c \in DOMAIN conns : conns'[c] \in ConnState(c[1])
  BY <1>3, SentType DEF Nodes, TypeInv, WiresOK
<1>5. TypeOK'
  BY <1>1, <1>2, <1>4 DEF TypeInv, TypeOK, replicaVars, proxyVars, ConnState
<1>6. WiresOK'
  BY <1>1, <1>4 DEF TypeInv, WiresOK
<1>. QED  BY <1>1, <1>4, <1>5, <1>6, SessionsKept DEF TypeInv

(* The registry adds and removes entries of the hosts that ask for it. *)
LEMMA TypeRegistryReads ==
  ASSUME TypeInv, NEW c \in DOMAIN conns, RegistryAdd(c) \/ RegistryRemove(c)
  PROVE  TypeInv'
<1>. DEFINE p == Head(conns[c].inbox)
<1>1. /\ conns[c].inbox # <<>> /\ conns' = Read(c)
      /\ UNCHANGED <<session, sessions, replicaVars, hostVars, proxyVars, forgotten,
                     outlived, events>>
  BY DEF RegistryAdd, RegistryRemove, RegistryReads
<1>2. /\ p \in Changes
      /\ DOMAIN conns' = DOMAIN conns
      /\ \A d \in DOMAIN conns : conns'[d] \in ConnState(d[1])
  BY <1>1, ReadType
<1>3. /\ sourceLocations' \in Locations /\ refused' \subseteq Hosts \X Names
      /\ toNode' \in {toNode, Broadcast(p)}
  BY <1>2 DEF RegistryAdd, RegistryRemove, TypeInv, TypeOK, Locations, Changes
<1>4. TypeOK'
  BY <1>1, <1>2, <1>3 DEF TypeInv, TypeOK, replicaVars, hostVars, proxyVars, ConnState
<1>5. WiresOK'
  BY <1>2, <1>3, BroadcastType DEF TypeInv, WiresOK, Packets
<1>. QED  BY <1>1, <1>2, <1>4, <1>5, SessionsKept DEF TypeInv

(* The registry notices only the end of connections that nodes have left. *)
LEMMA TypeServerDisconnected ==
  ASSUME TypeInv, NEW c \in DOMAIN conns, ServerDisconnected(c)
  PROVE  TypeInv'
<1>1. /\ DOMAIN conns' = DOMAIN conns \ {c}
      /\ \A d \in DOMAIN conns' : conns'[d] = conns[d]
      /\ UNCHANGED <<session, sessions, replicaVars, toNode, hostVars, proxyVars,
                     refused, events>>
  BY DEF ServerDisconnected
<1>2. conns[c].mapping \in Hosts \cup {None}
  BY DEF TypeInv, WiresOK, ConnState
<1>3. /\ sourceLocations' \in Locations
      /\ forgotten' \subseteq Hosts \X Names /\ outlived' \subseteq Hosts
  <2>1. conns[c].mapping \in Hosts =>
          {<<conns[c].mapping, name>> : name \in {n \in Names : sourceLocations[n] = conns[c].mapping}}
            \subseteq Hosts \X Names
    OBVIOUS
  <2>. QED  BY <1>2, <2>1 DEF ServerDisconnected, TypeInv, TypeOK, Locations, WithoutServer
<1>4. TypeOK' /\ WiresOK'
  BY <1>1, <1>3 DEF TypeInv, TypeOK, WiresOK, replicaVars, hostVars, proxyVars
<1>5. \A n \in Nodes : Conn(n) # c
  BY DEF ServerDisconnected, Conn
<1>. QED  BY <1>1, <1>4, <1>5, SessionsKept DEF TypeInv

(* What a node reads is a list or a change, by its type. *)
LEMMA NodeReadsType ==
  ASSUME TypeInv, NEW n \in Nodes, NEW type, NodeReads(n, type)
  PROVE  /\ Head(toNode[n]) \in IF type = "Init" THEN Lists ELSE Changes
         /\ toNode' = [toNode EXCEPT ![n] = Tail(toNode[n])]
         /\ toNode' \in [Nodes -> Seq(Packets)]
         /\ toNode[n] # <<>> /\ session[n] # 0
         /\ UNCHANGED <<sourceLocations, session, sessions, published, forgotten,
                        outlived, events>>
<1>1. toNode[n] \in Seq(Packets) /\ toNode[n] # <<>> /\ Head(toNode[n]).type = type
  BY DEF TypeInv, WiresOK, NodeReads
<1>2. Head(toNode[n]) \in Packets /\ Tail(toNode[n]) \in Seq(Packets)
  BY <1>1, HeadAndTail
<1>3. Head(toNode[n]) \in IF type = "Init" THEN Lists ELSE Changes
  BY <1>1, <1>2 DEF Packets, Lists, Changes
<1>. QED  BY <1>1, <1>2, <1>3 DEF NodeReads, TypeInv, WiresOK

(* The proxy's tables are about names. *)
LEMMA ProxyType ==
  ASSUME TypeInv, NEW names \in SUBSET Names,
         ProxyObjects(names) \/ UnproxyObjects(names) \/ UNCHANGED proxyVars
  PROVE  /\ proxied' \subseteq Names /\ orphans' \subseteq Names
         /\ exposed' \in [Names -> {"none", "current", "orphan"}]
<1>1. /\ proxied \subseteq Names /\ orphans \subseteq Names
      /\ exposed \in [Names -> {"none", "current", "orphan"}]
  BY DEF TypeInv, TypeOK
<1>2. CASE ProxyObjects(names)
  BY <1>1, <1>2 DEF ProxyObjects
<1>3. CASE UnproxyObjects(names)
  BY <1>1, <1>3 DEF UnproxyObjects
<1>4. CASE UNCHANGED proxyVars
  BY <1>1, <1>4 DEF proxyVars
<1>. QED  BY <1>2, <1>3, <1>4

(* An entry of a replica names a host or nothing. *)
LEMMA EntryType ==
  ASSUME TypeInv, NEW n \in Nodes, NEW name \in Names, NEW h \in Hosts \cup {None}
  PROVE  [locations EXCEPT ![n][name] = h] \in [Nodes -> Locations]
<1>1. locations[n] \in Locations
  BY DEF TypeInv, TypeOK
<1>2. [locations[n] EXCEPT ![name] = h] \in Locations
  BY <1>1 DEF Locations
<1>. QED  BY <1>2 DEF TypeInv, TypeOK

(* A node that reads changes takes over what they say. *)
LEMMA TypeReadChange ==
  ASSUME TypeInv, NEW n \in Nodes, ReadAdded(n) \/ ReadRemoved(n)
  PROVE  TypeInv'
<1>. DEFINE p == Head(toNode[n])
<1>1. /\ p \in Changes /\ toNode' \in [Nodes -> Seq(Packets)]
      /\ UNCHANGED <<sourceLocations, session, sessions, published, forgotten,
                     outlived, events>>
      /\ UNCHANGED <<conns, hostedSources, refused, status>>
  BY NodeReadsType DEF ReadAdded, ReadRemoved
<1>2. /\ locations' \in [Nodes -> Locations]
      /\ requestedUrls' \in [Nodes -> SUBSET Hosts]
  <2>1. CASE ReadAdded(n)
    <3>1. /\ locations' = [locations EXCEPT ![n][p.name] = p.host]
          /\ \/ requestedUrls' = [requestedUrls EXCEPT ![n] = @ \cup {p.host}]
             \/ UNCHANGED requestedUrls
      BY <2>1 DEF ReadAdded
    <3>2. p.name \in Names /\ p.host \in Hosts
      BY <1>1 DEF Changes
    <3>3. requestedUrls' \in [Nodes -> SUBSET Hosts]
      BY <3>1, <3>2 DEF TypeInv, TypeOK
    <3>4. [locations EXCEPT ![n][p.name] = p.host] \in [Nodes -> Locations]
      BY <3>2, EntryType
    <3>. QED  BY <3>1, <3>3, <3>4
  <2>2. CASE ReadRemoved(n)
    <3>1. locations' = [locations EXCEPT ![n][p.name] = None] /\ UNCHANGED requestedUrls
      BY <2>2 DEF ReadRemoved
    <3>2. p.name \in Names
      BY <1>1 DEF Changes
    <3>. QED  BY <3>1, <3>2, EntryType DEF TypeInv, TypeOK
  <2>. QED  BY <2>1, <2>2
<1>3. ProxyObjects({p.name}) \/ UnproxyObjects({p.name}) \/ UNCHANGED proxyVars
  BY DEF ReadAdded, ReadRemoved, proxyVars
<1>4. /\ proxied' \subseteq Names /\ orphans' \subseteq Names
      /\ exposed' \in [Names -> {"none", "current", "orphan"}]
  <2>1. {p.name} \in SUBSET Names
    BY <1>1 DEF Changes
  <2>. QED  BY <1>3, <2>1, ProxyType
<1>5. TypeOK' /\ WiresOK'
  BY <1>1, <1>2, <1>4 DEF TypeInv, TypeOK, WiresOK
<1>. QED  BY <1>1, <1>5, SessionsKept DEF TypeInv

(* One that reads the list registers what it holds, or proxies all of it. *)
LEMMA TypeReadInit ==
  ASSUME TypeInv, NEW n \in Nodes, ReadInit(n)
  PROVE  TypeInv'
<1>. DEFINE locs == Head(toNode[n]).locations
<1>1. /\ locs \in Locations /\ toNode' \in [Nodes -> Seq(Packets)]
      /\ UNCHANGED <<sourceLocations, session, sessions, published, forgotten,
                     outlived, events>>
      /\ locations' = [locations EXCEPT ![n] = locs]
      /\ status' = [status EXCEPT ![n] = "Valid"]
  BY NodeReadsType DEF ReadInit, Lists
<1>2. /\ DOMAIN conns' = DOMAIN conns
      /\ \A c \in DOMAIN conns : conns'[c] \in ConnState(c[1])
      /\ hostedSources' \in [Hosts -> SUBSET Names] /\ refused' \subseteq Hosts \X Names
      /\ requestedUrls' \in [Nodes -> SUBSET Hosts]
      /\ proxied' \subseteq Names /\ orphans' \subseteq Names
      /\ exposed' \in [Names -> {"none", "current", "orphan"}]
  <2>1. Listed(locs) \in SUBSET Names
    BY DEF Listed
  <2>2. CASE n = Proxy
    <3>1. ProxyObjects(Listed(locs)) /\ UNCHANGED <<conns, hostedSources, refused>>
      BY <2>2 DEF ReadInit
    <3>2. requestedUrls' = [requestedUrls EXCEPT
                     ![n] = @ \cup {locs[name] : name \in Listed(locs)}]
      BY <2>2 DEF ReadInit
    <3>3. {locs[name] : name \in Listed(locs)} \subseteq Hosts
      BY <1>1 DEF Listed, Locations
    <3>. QED  BY <2>1, <3>1, <3>2, <3>3, ProxyType DEF TypeInv, TypeOK, WiresOK
  <2>3. CASE n # Proxy
    <3>1. n \in Hosts /\ PushToRegistry(n, locs) /\ UNCHANGED <<requestedUrls, proxyVars>>
      BY <2>3 DEF ReadInit, Nodes
    <3>. DEFINE pushed == hostedSources[n] \ Dropped(n, locs)
    <3>2. pushed \in SUBSET Names /\ Dropped(n, locs) \in SUBSET Names
      BY <3>1 DEF TypeInv, TypeOK, Dropped
    <3>3. PICK order \in Orders(pushed) : conns' = Sent(n, Adds(n, order))
      BY <3>1 DEF PushToRegistry
    <3>4. Adds(n, order) \in Seq(Requests(n))
      BY <3>1, <3>2, AddsType
    <3>5. hostedSources' \in [Hosts -> SUBSET Names] /\ refused' \subseteq Hosts \X Names
      BY <3>1, <3>2 DEF PushToRegistry, TypeInv, TypeOK
    <3>. QED  BY <3>1, <3>3, <3>4, <3>5, SentType DEF TypeInv, TypeOK, proxyVars
  <2>. QED  BY <2>2, <2>3
<1>3. TypeOK'
  BY <1>1, <1>2 DEF TypeInv, TypeOK, ConnState
<1>4. WiresOK'
  BY <1>1, <1>2 DEF WiresOK
<1>. QED  BY <1>1, <1>2, <1>3, <1>4, SessionsKept DEF TypeInv

(* A new connection starts with the registry's list. *)
LEMMA TypeConnect ==
  ASSUME TypeInv, NEW n \in Nodes, Connect(n)
  PROVE  TypeInv'
<1>. DEFINE c == <<n, sessions[n] + 1>>
<1>1. /\ session[n] = 0 /\ session' = [session EXCEPT ![n] = sessions[n] + 1]
      /\ sessions' = [sessions EXCEPT ![n] = sessions[n] + 1]
      /\ DOMAIN conns' = DOMAIN conns \cup {c}
      /\ conns'[c] = [mapping |-> None, inbox |-> <<>>]
      /\ \A d \in DOMAIN conns \ {c} : conns'[d] = conns[d]
      /\ toNode' = [toNode EXCEPT ![n] = <<InitPacket(sourceLocations)>>]
      /\ UNCHANGED <<sourceLocations, replicaVars, hostVars, proxyVars,
                     historyVars, events>>
  BY DEF Connect
<1>2. Conn(n) \notin DOMAIN conns
  BY <1>1, NoConn
<1>3. sessions[n] \in Nat /\ sessions[n] <= events /\ events \in 0..MaxEvents
  BY <1>2 DEF TypeInv, SessionsOK, TypeOK
<1>4. c \in ConnIds /\ c[1] = n
  BY <1>3, BoundIsNatural DEF ConnIds
<1>5. TypeOK'
  <2>1. /\ DOMAIN conns' \subseteq ConnIds
        /\ \A d \in DOMAIN conns' : conns'[d].mapping \in {d[1], None}
    <3>1. ASSUME NEW d \in DOMAIN conns \ {c}
          PROVE  d \in ConnIds /\ conns'[d].mapping \in {d[1], None}
      BY <1>1 DEF TypeInv, TypeOK
    <3>2. conns'[c].mapping = None
      BY <1>1
    <3>. QED  BY <1>1, <1>4, <3>1, <3>2
  <2>2. session' \in [Nodes -> Nat] /\ sessions' \in [Nodes -> Nat]
    BY <1>1, <1>3 DEF TypeInv, TypeOK
  <2>. QED  BY <1>1, <2>1, <2>2
       DEF TypeInv, TypeOK, replicaVars, hostVars, proxyVars, historyVars
<1>6. WiresOK'
  <2>1. <<>> \in Seq(Requests(n)) /\ InitPacket(sourceLocations) \in Packets
    BY DEF TypeInv, TypeOK, InitPacket, Packets, Lists
  <2>2. conns'[c] \in ConnState(n)
    BY <1>1, <2>1 DEF ConnState
  <2>3. <<InitPacket(sourceLocations)>> \in Seq(Packets)
    BY <2>1
  <2>4. toNode' \in [Nodes -> Seq(Packets)]
    BY <1>1, <2>3 DEF TypeInv, WiresOK
  <2>. QED  BY <1>1, <1>4, <2>2, <2>4 DEF TypeInv, WiresOK
<1>7. SessionsOK'
  <2>1. ASSUME NEW m \in Nodes, m # n
        PROVE  /\ session'[m] = session[m] /\ sessions'[m] = sessions[m]
               /\ Conn(m)' = Conn(m) /\ (Conn(m)' \in DOMAIN conns' <=> Conn(m) \in DOMAIN conns)
    BY <1>1, <2>1 DEF Conn, TypeInv, TypeOK
  <2>2. /\ session'[n] = sessions[n] + 1 /\ sessions'[n] = sessions[n] + 1
        /\ Conn(n)' \in DOMAIN conns'
    BY <1>1 DEF Conn, TypeInv, TypeOK
  <2>. QED  BY <1>1, <1>3, <2>1, <2>2 DEF TypeInv, SessionsOK, historyVars
<1>. QED  BY <1>5, <1>6, <1>7 DEF TypeInv

(* The end of a connection, of a host's process or of the registry's. *)
LEMMA TypeLost ==
  ASSUME TypeInv, NEW n \in Nodes,
         ConnectionLost(n) \/ (n \in Hosts /\ HostRestarts(n))
  PROVE  TypeInv'
<1>1. /\ session' = [session EXCEPT ![n] = 0] /\ toNode' = [toNode EXCEPT ![n] = <<>>]
      /\ UNCHANGED <<registryVars, sessions, historyVars>>
      /\ UnproxyObjects(proxied) \/ UNCHANGED proxyVars
      /\ events' \in {events, events + 1} /\ events' \in 0..MaxEvents
      /\ Conn(n) \in DOMAIN conns => events' = events + 1
  BY BoundIsNatural DEF ConnectionLost, HostRestarts, Disconnected, Event, TypeInv, TypeOK
<1>2. /\ locations' \in [Nodes -> Locations]
      /\ status' \in [Nodes -> {"Default", "Valid", "Suspect"}]
      /\ published' \in [Hosts -> SUBSET Names] /\ hostedSources' \in [Hosts -> SUBSET Names]
      /\ UNCHANGED requestedUrls
  <2>1. CASE ConnectionLost(n)
    BY <2>1 DEF ConnectionLost, TypeInv, TypeOK, hostVars
  <2>2. CASE n \in Hosts /\ HostRestarts(n)
    <3>1. NoLocations \in Locations
      BY DEF NoLocations, Locations
    <3>. QED  BY <2>2, <3>1 DEF HostRestarts, TypeInv, TypeOK
  <2>. QED  BY <2>1, <2>2
<1>3. /\ proxied' \subseteq Names /\ orphans' \subseteq Names
      /\ exposed' \in [Names -> {"none", "current", "orphan"}]
  BY <1>1, ProxyType DEF TypeInv, TypeOK
<1>4. TypeOK' /\ WiresOK'
  <2>1. <<>> \in Seq(Packets)
    OBVIOUS
  <2>. QED  BY <1>1, <1>2, <1>3, <2>1 DEF TypeInv, TypeOK, WiresOK, registryVars, historyVars
<1>5. SessionsOK'
  <2>1. ASSUME NEW m \in Nodes, m # n
        PROVE  session'[m] = session[m] /\ Conn(m)' = Conn(m)
    BY <1>1, <2>1 DEF Conn, TypeInv, TypeOK
  <2>2. session'[n] = 0 /\ Conn(n)' \notin DOMAIN conns'
    BY <1>1, NoConn DEF Conn, TypeInv, TypeOK, registryVars
  <2>3. events \in Nat /\ \A m \in Nodes : sessions[m] \in Nat
    BY DEF TypeInv, TypeOK
  <2>. QED  BY <1>1, <2>1, <2>2, <2>3 DEF TypeInv, SessionsOK, registryVars
<1>. QED  BY <1>4, <1>5 DEF TypeInv

(* Every step keeps the types. *)
LEMMA TypeStep == TypeInv /\ [Next]_vars => TypeInv'
<1>. SUFFICES ASSUME TypeInv, [Next]_vars  PROVE TypeInv'
  OBVIOUS
<1>1. ASSUME NEW name \in Names, ReplicaInitialized(name)
      PROVE  TypeInv'
  <2>1. /\ exposed' \in [Names -> {"none", "current", "orphan"}]
        /\ UNCHANGED <<registryVars, session, sessions, replicaVars, toNode, hostVars,
                 proxied, orphans, historyVars, events>>
    BY <1>1 DEF ReplicaInitialized, TypeInv, TypeOK
  <2>2. TypeOK' /\ WiresOK'
    BY <2>1 DEF TypeInv, TypeOK, WiresOK, registryVars, replicaVars, hostVars, historyVars
  <2>. QED  BY <2>1, <2>2, SessionsKept DEF TypeInv, registryVars
<1>2. ASSUME RegistryRestarts
      PROVE  TypeInv'
  <2>1. /\ events' = events + 1 /\ events' \in 0..MaxEvents
        /\ DOMAIN conns' = {} /\ sourceLocations' \in Locations
        /\ toNode' \in [Nodes -> Seq(Packets)]
        /\ UNCHANGED <<session, sessions, replicaVars, hostVars, proxyVars, historyVars>>
    BY <1>2, BoundIsNatural DEF RegistryRestarts, Event, TypeInv, TypeOK, NoLocations, Locations
  <2>2. TypeOK' /\ WiresOK'
    BY <2>1 DEF TypeInv, TypeOK, WiresOK, replicaVars, hostVars, proxyVars, historyVars
  <2>. QED  BY <2>1, <2>2, SessionsKept DEF TypeInv
<1>3. ASSUME UNCHANGED vars
      PROVE  TypeInv'
  <2>1. TypeOK' /\ WiresOK'
    BY <1>3 DEF vars, TypeInv, TypeOK, WiresOK, registryVars, replicaVars, hostVars,
                proxyVars, historyVars
  <2>. QED  BY <1>3, <2>1, SessionsKept DEF TypeInv, vars, registryVars
<1>4. \A h \in Hosts : h \in Nodes
  BY DEF Nodes
<1>. QED
  BY <1>1, <1>2, <1>3, <1>4, TypePublish, TypeRegistryReads, TypeServerDisconnected,
     TypeReadChange, TypeReadInit, TypeConnect, TypeLost DEF Next, NodeStep

(* TypeInv holds in every state, *)
LEMMA TypeInvHolds == Spec => []TypeInv
BY TypeInit, TypeStep, PTL DEF Spec

(* and with it the types: the tables of the registry, its connections, the  *)
(* hosts and the proxy keep their types, and a node has made one connection *)
(* more at most than events have taken from it.                             *)
THEOREM TypeCorrect == Spec => []TypeOK
BY TypeInvHolds, PTL DEF TypeInv

-----------------------------------------------------------------------------
(* What a node's view will be *)

\* A packet that changes the entry of a name in a view, and what it makes of it.
Concerns(p, name) == p.type = "Init" \/ p.name = name

Says(p, name) ==
  CASE p.type = "Init" -> p.locations[name]
    [] p.type = "add" -> p.host
    [] OTHER -> None

\* After the first k packets of s, a view with v0 for the name has v for it: by
\* the last of them, the j-th, that concerns it.
Tells(v0, s, name, k, v) ==
  \E j \in 0..k :
    /\ v = IF j = 0 THEN v0 ELSE Says(s[j], name)
    /\ j > 0 => Concerns(s[j], name)
    /\ \A i \in j+1..k : ~Concerns(s[i], name)

\* What ViewsAgree accepts in a view.
Right(v, name) ==
  v = sourceLocations[name] \/ (sourceLocations[name] = None /\ <<v, name>> \in forgotten)

\* Once a node has read what was sent to it, its view is right.
ViewsComing ==
  \A n \in Nodes, name \in Names : Conn(n) \in DOMAIN conns =>
    \E v \in Hosts \cup {None} :
      /\ Tells(locations[n][name], toNode[n], name, Len(toNode[n]), v)
      /\ Right(v, name)

\* A name no entry of which was forgotten is announced only to nodes that miss
\* it.
AddsAreNews ==
  \A n \in Nodes : \A i \in 1..Len(toNode[n]) : toNode[n][i].type = "add" =>
    LET name == toNode[n][i].name
    IN  Forgotten(name) \/ Tells(locations[n][name], toNode[n], name, i - 1, None)

ViewsInv == TypeInv /\ ViewsComing /\ AddsAreNews

\* A view after a packet.
Seen(v, p, name) == IF Concerns(p, name) THEN Says(p, name) ELSE v

(* Nothing is told by no packets. *)
LEMMA TellsNothing ==
  ASSUME NEW v0, NEW s, NEW name, NEW v
  PROVE  Tells(v0, s, name, 0, v) <=> v = v0
BY DEF Tells

(* A further packet leaves what those before it tell, *)
LEMMA TellsBefore ==
  ASSUME NEW v0, NEW s \in Seq(Packets), NEW p, NEW name, NEW k \in 0..Len(s), NEW v
  PROVE  Tells(v0, Append(s, p), name, k, v) <=> Tells(v0, s, name, k, v)
<1>1. \A i \in 1..k : Append(s, p)[i] = s[i]
  BY LenProperties
<1>. DEFINE Last(t, j) ==
              /\ v = IF j = 0 THEN v0 ELSE Says(t[j], name)
              /\ j > 0 => Concerns(t[j], name)
              /\ \A i \in j+1..k : ~Concerns(t[i], name)
<1>2. \A j \in 0..k : Last(Append(s, p), j) <=> Last(s, j)
  BY <1>1
<1>3. Tells(v0, Append(s, p), name, k, v) <=> \E j \in 0..k : Last(Append(s, p), j)
  BY DEF Tells
<1>4. Tells(v0, s, name, k, v) <=> \E j \in 0..k : Last(s, j)
  BY DEF Tells
<1>. HIDE DEF Last
<1>. QED  BY <1>2, <1>3, <1>4

(* and with it they tell what it says, if it concerns the name. *)
LEMMA TellsNext ==
  ASSUME NEW v0, NEW s \in Seq(Packets), NEW p \in Packets, NEW name, NEW v,
         Tells(v0, s, name, Len(s), v)
  PROVE  Tells(v0, Append(s, p), name, Len(s) + 1, Seen(v, p, name))
<1>. DEFINE t == Append(s, p)
<1>1. t[Len(s) + 1] = p /\ Len(s) \in Nat /\ \A i \in 1..Len(s) : t[i] = s[i]
  BY LenProperties
<1>2. CASE Concerns(p, name)
  BY <1>1, <1>2 DEF Tells, Seen
<1>3. CASE ~Concerns(p, name)
  <2>1. PICK j \in 0..Len(s) :
          /\ v = IF j = 0 THEN v0 ELSE Says(s[j], name)
          /\ j > 0 => Concerns(s[j], name)
          /\ \A i \in j+1..Len(s) : ~Concerns(s[i], name)
    BY DEF Tells
  <2>2. \A i \in j+1..Len(s)+1 : ~Concerns(t[i], name)
    BY <1>1, <1>3, <2>1
  <2>3. /\ v = IF j = 0 THEN v0 ELSE Says(t[j], name)
        /\ j > 0 => Concerns(t[j], name)
        /\ j \in 0..Len(s)+1
    BY <1>1, <2>1
  <2>. QED  BY <1>3, <2>2, <2>3 DEF Tells, Seen
<1>. QED  BY <1>2, <1>3

(* Reading the first packet leaves what the packets tell. *)
LEMMA TellsRest ==
  ASSUME NEW v0, NEW s \in Seq(Packets), s # <<>>, NEW name, NEW k \in 1..Len(s), NEW v,
         Tells(v0, s, name, k, v)
  PROVE  Tells(Seen(v0, Head(s), name), Tail(s), name, k - 1, v)
<1>. DEFINE t == Tail(s)
<1>1. /\ Head(s) = s[1] /\ Len(s) \in Nat
      /\ \A i \in 1..k - 1 : t[i] = s[i + 1]
  BY HeadAndTail
<1>2. PICK j \in 0..k :
        /\ v = IF j = 0 THEN v0 ELSE Says(s[j], name)
        /\ j > 0 => Concerns(s[j], name)
        /\ \A i \in j+1..k : ~Concerns(s[i], name)
  BY DEF Tells
<1>3. CASE j = 0
  <2>1. ~Concerns(Head(s), name) /\ v = v0
    BY <1>1, <1>2, <1>3
  <2>2. \A i \in 1..k-1 : ~Concerns(t[i], name)
    BY <1>1, <1>2, <1>3
  <2>. QED  BY <2>1, <2>2 DEF Tells, Seen
<1>4. CASE j = 1
  <2>1. Concerns(Head(s), name) /\ v = Says(Head(s), name)
    BY <1>1, <1>2, <1>4
  <2>2. \A i \in 1..k-1 : ~Concerns(t[i], name)
    BY <1>1, <1>2, <1>4
  <2>. QED  BY <2>1, <2>2 DEF Tells, Seen
<1>5. CASE j > 1
  <2>1. PICK i \in 1..k-1 : i = j - 1
    BY <1>5
  <2>2. v = Says(t[i], name) /\ Concerns(t[i], name)
    BY <1>1, <1>2, <1>5, <2>1
  <2>3. \A l \in i+1..k-1 : ~Concerns(t[l], name)
    BY <1>1, <1>2, <2>1
  <2>. QED  BY <2>2, <2>3 DEF Tells, Seen
<1>. QED  BY <1>3, <1>4, <1>5

(* A node takes from a packet what it says of the names it concerns. *)
LEMMA Reading ==
  ASSUME TypeInv, NEW n \in Nodes, ReadInit(n) \/ ReadAdded(n) \/ ReadRemoved(n)
  PROVE  /\ toNode' = [toNode EXCEPT ![n] = Tail(toNode[n])]
         /\ toNode[n] \in Seq(Packets) /\ toNode[n] # <<>>
         /\ \A name \in Names :
              locations'[n][name] = Seen(locations[n][name], Head(toNode[n]), name)
         /\ \A m \in Nodes \ {n} : locations'[m] = locations[m]
         /\ DOMAIN conns' = DOMAIN conns
         /\ UNCHANGED <<sourceLocations, session, sessions, forgotten>>
<1>. DEFINE p == Head(toNode[n])
<1>1. /\ toNode' = [toNode EXCEPT ![n] = Tail(toNode[n])]
      /\ toNode[n] \in Seq(Packets) /\ toNode[n] # <<>>
      /\ UNCHANGED <<sourceLocations, session, sessions, forgotten>>
  BY NodeReadsType DEF ReadInit, ReadAdded, ReadRemoved, TypeInv, WiresOK
<1>2. locations \in [Nodes -> Locations]
  BY DEF TypeInv, TypeOK
<1>3. CASE ReadInit(n)
  <2>1. p \in Lists /\ locations' = [locations EXCEPT ![n] = p.locations]
    BY <1>3, NodeReadsType DEF ReadInit
  <2>2. p.type = "Init"
    BY <2>1 DEF Lists
  <2>3. DOMAIN conns' = DOMAIN conns
    BY <1>3 DEF ReadInit, PushToRegistry, Sent
  <2>. QED  BY <1>1, <1>2, <2>1, <2>2, <2>3 DEF Seen, Concerns, Says
<1>4. CASE ReadAdded(n)
  <2>1. p \in Changes /\ p.type = "add" /\ UNCHANGED conns
        /\ locations' = [locations EXCEPT ![n][p.name] = p.host]
    BY <1>4, NodeReadsType DEF ReadAdded, NodeReads
  <2>2. /\ \A m \in Nodes \ {n} : locations'[m] = locations[m]
        /\ \A name \in Names : locations'[n][name] =
             IF name = p.name THEN p.host ELSE locations[n][name]
    BY <1>2, <2>1 DEF Locations
  <2>. QED  BY <1>1, <2>1, <2>2 DEF Seen, Concerns, Says
<1>5. CASE ReadRemoved(n)
  <2>1. p \in Changes /\ p.type = "remove" /\ UNCHANGED conns
        /\ locations' = [locations EXCEPT ![n][p.name] = None]
    BY <1>5, NodeReadsType DEF ReadRemoved, NodeReads
  <2>. QED  BY <1>1, <1>2, <2>1 DEF Seen, Concerns, Says, Locations
<1>. QED  BY <1>3, <1>4, <1>5

(* The registry tells all its connections of each change to an entry. *)
LEMMA Announcing ==
  ASSUME TypeInv, NEW c \in DOMAIN conns, RegistryAdd(c) \/ RegistryRemove(c)
  PROVE  /\ DOMAIN conns' = DOMAIN conns
         /\ UNCHANGED <<session, status, locations, forgotten, proxyVars>>
         /\ \/ UNCHANGED <<sourceLocations, toNode>>
            \/ \E p \in Changes :
                 /\ toNode' = Broadcast(p)
                 /\ sourceLocations' = [sourceLocations EXCEPT ![p.name] = Says(p, p.name)]
                 /\ p.type = "add" => sourceLocations[p.name] = None
<1>. DEFINE p == Head(conns[c].inbox)
<1>1. /\ conns[c].inbox # <<>> /\ conns' = Read(c)
      /\ UNCHANGED <<session, status, locations, forgotten, proxyVars>>
  BY DEF RegistryAdd, RegistryRemove, RegistryReads, replicaVars
<1>2. p \in Changes /\ DOMAIN conns' = DOMAIN conns
  BY <1>1, ReadType
<1>3. CASE RegistryAdd(c)
  <2>1. p.type = "add"
    BY <1>3 DEF RegistryAdd, RegistryReads
  <2>2. \/ UNCHANGED <<sourceLocations, toNode>>
        \/ /\ sourceLocations[p.name] = None /\ toNode' = Broadcast(p)
           /\ sourceLocations' = [sourceLocations EXCEPT ![p.name] = p.host]
    BY <1>3 DEF RegistryAdd
  <2>. QED  BY <1>1, <1>2, <2>1, <2>2 DEF Says
<1>4. CASE RegistryRemove(c)
  <2>1. p.type = "remove"
    BY <1>4 DEF RegistryRemove, RegistryReads
  <2>2. \/ UNCHANGED <<sourceLocations, toNode>>
        \/ /\ toNode' = Broadcast(p)
           /\ sourceLocations' = [sourceLocations EXCEPT ![p.name] = None]
    BY <1>4 DEF RegistryRemove
  <2>. QED  BY <1>1, <1>2, <2>1, <2>2 DEF Says
<1>. QED  BY <1>3, <1>4

(* Reading changes nothing of what a node will have read in the end. *)
LEMMA ViewsRead ==
  ASSUME ViewsInv, NEW n \in Nodes, ReadInit(n) \/ ReadAdded(n) \/ ReadRemoved(n)
  PROVE  (ViewsComing /\ AddsAreNews)'
<1>1. /\ toNode' = [toNode EXCEPT ![n] = Tail(toNode[n])]
      /\ toNode[n] \in Seq(Packets) /\ toNode[n] # <<>>
      /\ \A name \in Names :
           locations'[n][name] = Seen(locations[n][name], Head(toNode[n]), name)
      /\ \A m \in Nodes \ {n} : locations'[m] = locations[m]
      /\ DOMAIN conns' = DOMAIN conns
      /\ UNCHANGED <<sourceLocations, session, sessions, forgotten>>
  BY Reading DEF ViewsInv
<1>2. toNode'[n] = Tail(toNode[n]) /\ \A m \in Nodes \ {n} : toNode'[m] = toNode[m]
  BY <1>1 DEF ViewsInv, TypeInv, WiresOK
<1>3. /\ Len(toNode[n]) \in Nat \ {0} /\ Len(toNode'[n]) = Len(toNode[n]) - 1
      /\ \A i \in 1..Len(toNode'[n]) : toNode'[n][i] = toNode[n][i + 1]
  <2>1. /\ Len(toNode[n]) \in Nat \ {0} /\ Len(Tail(toNode[n])) = Len(toNode[n]) - 1
        /\ \A i \in 1..Len(Tail(toNode[n])) : Tail(toNode[n])[i] = toNode[n][i + 1]
    BY <1>1, HeadAndTail
  <2>. QED  BY <1>2, <2>1
<1>4. ASSUME NEW name \in Names, NEW k \in 1..Len(toNode[n]), NEW v,
             Tells(locations[n][name], toNode[n], name, k, v)
      PROVE  Tells(locations'[n][name], toNode'[n], name, k - 1, v)
  BY <1>1, <1>2, <1>4, TellsRest
<1>5. ViewsComing'
  <2>. SUFFICES ASSUME NEW m \in Nodes, NEW name \in Names, Conn(m)' \in DOMAIN conns'
                PROVE  \E v \in Hosts \cup {None} :
                         /\ Tells(locations'[m][name], toNode'[m], name, Len(toNode'[m]), v)
                         /\ Right(v, name)'
    BY DEF ViewsComing
  <2>1. PICK v \in Hosts \cup {None} :
          /\ Tells(locations[m][name], toNode[m], name, Len(toNode[m]), v)
          /\ Right(v, name)
    BY <1>1 DEF ViewsInv, ViewsComing, Conn
  <2>2. Right(v, name)'
    BY <1>1, <2>1 DEF Right
  <2>3. CASE m = n
    <3>1. Len(toNode[n]) \in 1..Len(toNode[n]) /\ Len(toNode'[n]) = Len(toNode[n]) - 1
      BY <1>3
    <3>2. Tells(locations'[n][name], toNode'[n], name, Len(toNode'[n]), v)
      BY <1>4, <2>1, <2>3, <3>1
    <3>. QED  BY <2>2, <2>3, <3>2
  <2>4. CASE m # n
    BY <1>1, <1>2, <2>1, <2>2, <2>4
  <2>. QED  BY <2>3, <2>4
<1>6. AddsAreNews'
  <2>. SUFFICES ASSUME NEW m \in Nodes, NEW i \in 1..Len(toNode'[m]),
                       toNode'[m][i].type = "add", ~Forgotten(toNode[m][i].name)'
                PROVE  LET name == toNode'[m][i].name
                       IN  Tells(locations'[m][name], toNode'[m], name, i - 1, None)
    BY DEF AddsAreNews
  <2>. DEFINE name == toNode'[m][i].name
  <2>1. ~Forgotten(name)
    BY <1>1 DEF Forgotten
  <2>2. CASE m = n
    <3>1. i + 1 \in 1..Len(toNode[n]) /\ toNode'[m][i] = toNode[n][i + 1]
      BY <1>3, <2>2
    <3>2. name \in Names
      <4>1. toNode[n][i + 1] \in Packets
        BY <1>1, <3>1, ElementOfSeq
      <4>. QED  BY <3>1, <4>1 DEF Packets, Lists, Changes
    <3>3. Tells(locations[n][name], toNode[n], name, (i + 1) - 1, None)
      BY <2>1, <3>1 DEF ViewsInv, AddsAreNews
    <3>4. (i + 1) - 1 = i /\ i \in 1..Len(toNode[n])
      BY <1>3, <2>2
    <3>5. Tells(locations[n][name], toNode[n], name, i, None)
      BY <3>3, <3>4
    <3>6. Tells(locations'[n][name], toNode'[n], name, i - 1, None)
      BY <1>4, <3>2, <3>4, <3>5
    <3>. QED  BY <2>2, <3>6
  <2>3. CASE m # n
    BY <1>1, <1>2, <2>1, <2>3 DEF ViewsInv, AddsAreNews
  <2>. QED  BY <2>2, <2>3
<1>. QED  BY <1>5, <1>6

(* A change to an entry reaches all views of it. *)
LEMMA ViewsAnnounced ==
  ASSUME ViewsInv, NEW p \in Changes, toNode' = Broadcast(p),
         sourceLocations' = [sourceLocations EXCEPT ![p.name] = Says(p, p.name)],
         p.type = "add" => sourceLocations[p.name] = None,
         DOMAIN conns' = DOMAIN conns, UNCHANGED <<session, locations, forgotten>>
  PROVE  (ViewsComing /\ AddsAreNews)'
<1>1. \A n \in Nodes : toNode[n] \in Seq(Packets) /\ Conn(n)' = Conn(n)
  BY DEF ViewsInv, TypeInv, WiresOK, Conn
<1>2. p \in Packets /\ p.name \in Names /\ \A name : Concerns(p, name) <=> p.name = name
  BY DEF Packets, Changes, Concerns
<1>3. Says(p, p.name) \in Hosts \cup {None}
  BY DEF Says, Changes
<1>4. ASSUME NEW n \in Nodes, Conn(n) \in DOMAIN conns
      PROVE  /\ toNode'[n] = Append(toNode[n], p) /\ Len(toNode'[n]) = Len(toNode[n]) + 1
             /\ Len(toNode[n]) \in Nat /\ toNode'[n][Len(toNode[n]) + 1] = p
             /\ \A i \in 1..Len(toNode[n]) : toNode'[n][i] = toNode[n][i]
  BY <1>1, <1>4 DEF Broadcast
<1>5. \A n \in Nodes : Conn(n) \notin DOMAIN conns => toNode'[n] = toNode[n]
  BY DEF Broadcast
<1>6. ViewsComing'
  <2>. SUFFICES ASSUME NEW n \in Nodes, NEW name \in Names, Conn(n)' \in DOMAIN conns'
                PROVE  \E v \in Hosts \cup {None} :
                         /\ Tells(locations'[n][name], toNode'[n], name, Len(toNode'[n]), v)
                         /\ Right(v, name)'
    BY DEF ViewsComing
  <2>1. Conn(n) \in DOMAIN conns
    BY <1>1
  <2>2. PICK v \in Hosts \cup {None} :
          /\ Tells(locations[n][name], toNode[n], name, Len(toNode[n]), v)
          /\ Right(v, name)
    BY <2>1 DEF ViewsInv, ViewsComing
  <2>3. Tells(locations[n][name], toNode'[n], name, Len(toNode'[n]), Seen(v, p, name))
    BY <1>1, <1>2, <1>4, <2>1, <2>2, TellsNext
  <2>4. CASE name = p.name
    <3>1. Seen(v, p, name) = Says(p, p.name)
      BY <1>2, <2>4 DEF Seen
    <3>2. sourceLocations'[name] = Says(p, p.name)
      BY <2>4 DEF ViewsInv, TypeInv, TypeOK, Locations
    <3>. QED  BY <1>3, <2>3, <3>1, <3>2 DEF Right
  <2>5. CASE name # p.name
    <3>1. Seen(v, p, name) = v
      BY <1>2, <2>5 DEF Seen
    <3>2. sourceLocations'[name] = sourceLocations[name]
      BY <2>5 DEF ViewsInv, TypeInv, TypeOK, Locations
    <3>. QED  BY <2>2, <2>3, <3>1, <3>2 DEF Right
  <2>. QED  BY <2>4, <2>5
<1>7. AddsAreNews'
  <2>. SUFFICES ASSUME NEW n \in Nodes, NEW i \in 1..Len(toNode'[n]),
                       toNode'[n][i].type = "add", ~Forgotten(toNode[n][i].name)'
                PROVE  LET name == toNode'[n][i].name
                       IN  Tells(locations'[n][name], toNode'[n], name, i - 1, None)
    BY DEF AddsAreNews
  <2>1. ~Forgotten(toNode'[n][i].name) /\ UNCHANGED locations
    BY DEF Forgotten
  <2>2. CASE Conn(n) \notin DOMAIN conns
    BY <1>5, <2>1, <2>2 DEF ViewsInv, AddsAreNews
  <2>3. CASE Conn(n) \in DOMAIN conns /\ i <= Len(toNode[n])
    <3>. DEFINE name == toNode[n][i].name
    <3>1. i \in 1..Len(toNode[n]) /\ toNode'[n][i] = toNode[n][i]
      BY <1>4, <2>3
    <3>2. Tells(locations[n][name], toNode[n], name, i - 1, None)
      BY <2>1, <3>1 DEF ViewsInv, AddsAreNews
    <3>3. i - 1 \in 0..Len(toNode[n])
      BY <1>4, <2>3, <3>1
    <3>4. Tells(locations[n][name], toNode'[n], name, i - 1, None)
      <4>1. Tells(locations[n][name], Append(toNode[n], p), name, i - 1, None)
        BY <1>1, <3>2, <3>3, TellsBefore
      <4>. QED  BY <1>4, <2>3, <4>1
    <3>. QED  BY <2>1, <3>1, <3>4
  <2>4. CASE Conn(n) \in DOMAIN conns /\ i > Len(toNode[n])
    <3>. DEFINE name == p.name
    <3>1. i - 1 = Len(toNode[n]) /\ toNode'[n][i] = p /\ i - 1 \in 0..Len(toNode[n])
      BY <1>4, <2>4
    <3>2. PICK v \in Hosts \cup {None} :
            /\ Tells(locations[n][name], toNode[n], name, Len(toNode[n]), v)
            /\ Right(v, name)
      BY <1>2, <2>4 DEF ViewsInv, ViewsComing
    <3>3. v = None
      <4>1. sourceLocations[name] = None /\ ~Forgotten(name)
        BY <2>1, <3>1
      <4>2. v \in Hosts => <<v, name>> \notin forgotten
        BY <4>1 DEF Forgotten
      <4>. QED  BY <3>2, <4>1, <4>2 DEF Right
    <3>4. Tells(locations[n][name], toNode'[n], name, i - 1, None)
      <4>1. Tells(locations[n][name], toNode[n], name, i - 1, None)
        BY <3>1, <3>2, <3>3
      <4>2. Tells(locations[n][name], Append(toNode[n], p), name, i - 1, None)
        BY <1>1, <3>1, <4>1, TellsBefore
      <4>. QED  BY <1>4, <2>4, <4>2
    <3>. QED  BY <2>1, <3>1, <3>4
  <2>. QED  BY <1>4, <2>2, <2>3, <2>4
<1>. QED  BY <1>6, <1>7

(* The registry forgets a host, which its connections are not told. *)
LEMMA ViewsServer ==
  ASSUME ViewsInv, NEW c \in DOMAIN conns, ServerDisconnected(c)
  PROVE  (ViewsComing /\ AddsAreNews)'
<1>1. /\ DOMAIN conns' = DOMAIN conns \ {c}
      /\ UNCHANGED <<session, locations, toNode>>
      /\ forgotten \subseteq forgotten'
  BY DEF ServerDisconnected, replicaVars
<1>2. ASSUME NEW name \in Names, NEW v, Right(v, name)
      PROVE  Right(v, name)'
  <2>1. \/ UNCHANGED <<sourceLocations, forgotten>>
        \/ /\ sourceLocations'[name] = IF sourceLocations[name] = conns[c].mapping THEN None
                                       ELSE sourceLocations[name]
           /\ sourceLocations[name] = conns[c].mapping =>
                <<conns[c].mapping, name>> \in forgotten'
    BY DEF ServerDisconnected, WithoutServer
  <2>. QED  BY <1>1, <1>2, <2>1 DEF Right
<1>3. ViewsComing'
  BY <1>1, <1>2 DEF ViewsInv, ViewsComing, Conn
<1>4. \A name : Forgotten(name) => Forgotten(name)'
  BY <1>1 DEF Forgotten
<1>5. AddsAreNews'
  BY <1>1, <1>4 DEF ViewsInv, AddsAreNews
<1>. QED  BY <1>3, <1>5

(* A new connection starts with the registry's own entries. *)
LEMMA ViewsConnect ==
  ASSUME ViewsInv, NEW n \in Nodes, Connect(n)
  PROVE  (ViewsComing /\ AddsAreNews)'
<1>. DEFINE c == <<n, sessions[n] + 1>>
            init == InitPacket(sourceLocations)
<1>1. /\ DOMAIN conns' = DOMAIN conns \cup {c}
      /\ toNode'[n] = <<init>>
      /\ \A m \in Nodes \ {n} : toNode'[m] = toNode[m] /\ session'[m] = session[m]
      /\ UNCHANGED <<sourceLocations, locations, forgotten>>
  BY DEF Connect, ViewsInv, TypeInv, TypeOK, WiresOK, replicaVars, historyVars
<1>2. Len(toNode'[n]) = 1 /\ toNode'[n][1] = init
  BY <1>1
<1>3. /\ \A name : Concerns(init, name) /\ Says(init, name) = sourceLocations[name]
      /\ init.type # "add"
  BY DEF InitPacket, Concerns, Says
<1>4. \A m \in Nodes \ {n} : Conn(m)' = Conn(m) /\ Conn(m) # c
  BY <1>1 DEF Conn
<1>5. ViewsComing'
  <2>. SUFFICES ASSUME NEW m \in Nodes, NEW name \in Names, Conn(m)' \in DOMAIN conns'
                PROVE  \E v \in Hosts \cup {None} :
                         /\ Tells(locations'[m][name], toNode'[m], name, Len(toNode'[m]), v)
                         /\ Right(v, name)'
    BY DEF ViewsComing
  <2>1. CASE m = n
    <3>1. Tells(locations'[n][name], toNode'[n], name, 1, sourceLocations[name])
      BY <1>2, <1>3 DEF Tells
    <3>2. sourceLocations[name] \in Hosts \cup {None}
      BY DEF ViewsInv, TypeInv, TypeOK, Locations
    <3>. QED  BY <1>1, <1>2, <2>1, <3>1, <3>2 DEF Right
  <2>2. CASE m # n
    <3>1. PICK v \in Hosts \cup {None} :
            /\ Tells(locations[m][name], toNode[m], name, Len(toNode[m]), v)
            /\ Right(v, name)
      BY <1>1, <1>4, <2>2 DEF ViewsInv, ViewsComing
    <3>2. Right(v, name)'
      BY <1>1, <3>1 DEF Right
    <3>. QED  BY <1>1, <2>2, <3>1, <3>2
  <2>. QED  BY <2>1, <2>2
<1>6. \A name : Forgotten(name)' <=> Forgotten(name)
  BY <1>1 DEF Forgotten
<1>7. ASSUME NEW m \in Nodes, NEW i \in 1..Len(toNode'[m]), toNode'[m][i].type = "add"
      PROVE  LET name == toNode'[m][i].name
             IN  Forgotten(name) \/ Tells(locations'[m][name], toNode'[m], name, i - 1, None)
  BY <1>1, <1>2, <1>3, <1>7 DEF ViewsInv, AddsAreNews
<1>8. AddsAreNews'
  BY <1>6, <1>7 DEF AddsAreNews
<1>. QED  BY <1>5, <1>8

(* Steps that add to no view and take from none but by ending connections. *)
LEMMA ViewsKept ==
  ASSUME ViewsInv, UNCHANGED <<sourceLocations, forgotten>>,
         \A n \in Nodes :
           \/ /\ toNode'[n] = toNode[n] /\ locations'[n] = locations[n]
              /\ Conn(n)' \in DOMAIN conns' => Conn(n) \in DOMAIN conns
           \/ toNode'[n] = <<>> /\ Conn(n)' \notin DOMAIN conns'
  PROVE  (ViewsComing /\ AddsAreNews)'
<1>1. \A v, name : Right(v, name)' <=> Right(v, name)
  BY DEF Right
<1>2. ViewsComing'
  BY <1>1 DEF ViewsInv, ViewsComing
<1>3. \A n \in Nodes : toNode'[n] = <<>> => 1..Len(toNode'[n]) = {}
  OBVIOUS
<1>5. \A name : Forgotten(name)' <=> Forgotten(name)
  BY DEF Forgotten
<1>4. AddsAreNews'
  BY <1>3, <1>5 DEF ViewsInv, AddsAreNews
<1>. QED  BY <1>2, <1>4

(* The end of a connection, of a host's process or of the registry's. *)
LEMMA ViewsLost ==
  ASSUME ViewsInv,
         \/ \E n \in Nodes : ConnectionLost(n) \/ (n \in Hosts /\ HostRestarts(n))
         \/ RegistryRestarts
  PROVE  (ViewsComing /\ AddsAreNews)'
<1>1. ASSUME NEW n \in Nodes, ConnectionLost(n) \/ (n \in Hosts /\ HostRestarts(n))
      PROVE  (ViewsComing /\ AddsAreNews)'
  <2>1. /\ session' = [session EXCEPT ![n] = 0] /\ toNode' = [toNode EXCEPT ![n] = <<>>]
        /\ \A m \in Nodes \ {n} : locations'[m] = locations[m]
        /\ UNCHANGED <<conns, sourceLocations, forgotten>>
    BY <1>1 DEF ConnectionLost, HostRestarts, Disconnected, ViewsInv, TypeInv, TypeOK,
                registryVars, historyVars
  <2>2. /\ toNode'[n] = <<>> /\ Conn(n)' \notin DOMAIN conns'
        /\ \A m \in Nodes \ {n} : toNode'[m] = toNode[m] /\ Conn(m)' = Conn(m)
    BY <2>1, NoConn DEF Conn, ViewsInv, TypeInv, TypeOK, WiresOK
  <2>. QED  BY <2>1, <2>2, ViewsKept
<1>2. ASSUME RegistryRestarts
      PROVE  (ViewsComing /\ AddsAreNews)'
  <2>1. DOMAIN conns' = {} /\ forgotten' = forgotten /\ \A n \in Nodes : toNode'[n] = <<>>
    BY <1>2 DEF RegistryRestarts, historyVars
  <2>2. \A n \in Nodes : 1..Len(toNode'[n]) = {}
    BY <2>1
  <2>. QED  BY <2>1, <2>2 DEF ViewsComing, AddsAreNews
<1>. QED  BY <1>1, <1>2

(* Every step keeps the views on their way to what is right. *)
LEMMA ViewsStep == ViewsInv /\ [Next]_vars => ViewsInv'
<1>. SUFFICES ASSUME ViewsInv, [Next]_vars  PROVE ViewsInv'
  OBVIOUS
<1>1. TypeInv'
  BY TypeStep DEF ViewsInv
<1>2. ASSUME NEW c \in DOMAIN conns, RegistryAdd(c) \/ RegistryRemove(c)
      PROVE  (ViewsComing /\ AddsAreNews)'
  <2>1. /\ DOMAIN conns' = DOMAIN conns
        /\ UNCHANGED <<session, status, locations, forgotten>>
        /\ \/ UNCHANGED <<sourceLocations, toNode>>
           \/ \E p \in Changes :
                /\ toNode' = Broadcast(p)
                /\ sourceLocations' = [sourceLocations EXCEPT ![p.name] = Says(p, p.name)]
                /\ p.type = "add" => sourceLocations[p.name] = None
    BY <1>2, Announcing DEF ViewsInv
  <2>2. CASE UNCHANGED <<sourceLocations, toNode>>
    BY <2>1, <2>2, ViewsKept DEF Conn
  <2>. QED  BY <2>1, <2>2, ViewsAnnounced
<1>3. ASSUME \/ \E name \in Names : ReplicaInitialized(name)
             \/ \E h \in Hosts, name \in Names :
                  EnableRemoting(h, name) \/ DisableRemoting(h, name)
             \/ UNCHANGED vars
      PROVE  (ViewsComing /\ AddsAreNews)'
  <2>1. /\ DOMAIN conns' = DOMAIN conns
        /\ UNCHANGED <<session, locations, toNode, sourceLocations, forgotten>>
    BY <1>3 DEF ReplicaInitialized, EnableRemoting, DisableRemoting, AddSource, RemoveSource,
                Sent, vars, registryVars, replicaVars, historyVars
  <2>. QED  BY <2>1, ViewsKept DEF Conn
<1>4. \A h \in Hosts : h \in Nodes
  BY DEF Nodes
<1>5. (ViewsComing /\ AddsAreNews)'
  BY <1>2, <1>3, <1>4, ViewsRead, ViewsServer, ViewsConnect, ViewsLost DEF Next, NodeStep
<1>. QED  BY <1>1, <1>5 DEF ViewsInv

(* At first there are no connections. *)
LEMMA ViewsInit == Init => ViewsInv
<1>. SUFFICES ASSUME Init  PROVE ViewsInv
  OBVIOUS
<1>1. DOMAIN conns = {} /\ \A n \in Nodes : toNode[n] = <<>> /\ 1..Len(toNode[n]) = {}
  BY DEF Init
<1>. QED  BY <1>1, TypeInit DEF ViewsInv, ViewsComing, AddsAreNews

(* ViewsInv holds in every state, *)
LEMMA ViewsInvHolds == Spec => []ViewsInv
BY ViewsInit, ViewsStep, PTL DEF Spec

(* and so a node that has read what the registry sent has the registry's    *)
(* entries, except those of hosts removeServer has removed: the list and    *)
(* the signals of the changes after it together miss nothing.               *)
THEOREM ViewsAreRight == Spec => []ViewsAgree
<1>1. ViewsInv => ViewsAgree
  <2>. SUFFICES ASSUME ViewsInv, NEW n \in Nodes, NEW name \in Names, Settled(n)
                PROVE  Right(locations[n][name], name)
    BY DEF ViewsAgree, Right
  <2>1. Conn(n) \in DOMAIN conns /\ Len(toNode[n]) = 0
    BY DEF Settled
  <2>2. PICK v \in Hosts \cup {None} :
          /\ Tells(locations[n][name], toNode[n], name, 0, v)
          /\ Right(v, name)
    BY <2>1 DEF ViewsInv, ViewsComing
  <2>. QED  BY <2>2, TellsNothing
<1>. QED  BY <1>1, ViewsInvHolds, PTL

-----------------------------------------------------------------------------
(* The list comes first *)

\* A node reads the list first, once, and is Valid from then on.
ListFirst ==
  \A n \in Nodes :
    /\ session[n] = 0 => status[n] # "Valid" /\ toNode[n] = <<>>
    /\ \A i \in 1..Len(toNode[n]) :
         toNode[n][i].type = "Init" => i = 1 /\ status[n] # "Valid"
    /\ status[n] # "Valid" /\ toNode[n] # <<>> => toNode[n][1].type = "Init"
    /\ status[n] # "Valid" /\ Conn(n) \in DOMAIN conns => toNode[n] # <<>>

ListInv == ViewsInv /\ ListFirst

(* One node's part of ListFirst, for the others nothing changes. *)
LEMMA ListKept ==
  ASSUME ListInv,
         \A n \in Nodes :
           /\ UNCHANGED <<session[n], status[n], toNode[n]>>
           /\ Conn(n)' \in DOMAIN conns' => Conn(n) \in DOMAIN conns
  PROVE  ListFirst'
BY DEF ListInv, ListFirst

(* A node that is not Valid has the list before it, and one that is reads  *)
(* no other.                                                                *)
LEMMA ReadsList ==
  ASSUME ListInv, NEW n \in Nodes
  PROVE  /\ ReadInit(n) => status[n] # "Valid"
         /\ ReadAdded(n) \/ ReadRemoved(n) => status[n] = "Valid"
<1>1. ASSUME NEW type, NodeReads(n, type)
      PROVE  toNode[n] # <<>> /\ toNode[n][1].type = type /\ 1 \in 1..Len(toNode[n])
  <2>1. toNode[n] \in Seq(Packets) /\ toNode[n] # <<>> /\ Head(toNode[n]).type = type
    BY <1>1 DEF NodeReads, ListInv, ViewsInv, TypeInv, WiresOK
  <2>2. Head(toNode[n]) = toNode[n][1] /\ Len(toNode[n]) \in Nat \ {0}
    BY <2>1, HeadAndTail
  <2>. QED  BY <2>1, <2>2
<1>2. ReadInit(n) => NodeReads(n, "Init")
  BY DEF ReadInit
<1>3. ReadAdded(n) => NodeReads(n, "add")
  BY DEF ReadAdded
<1>4. ReadRemoved(n) => NodeReads(n, "remove")
  BY DEF ReadRemoved
<1>. QED  BY <1>1, <1>2, <1>3, <1>4 DEF ListInv, ListFirst

(* Reading leaves only changes to be read by a Valid replica. *)
LEMMA ListRead ==
  ASSUME ListInv, NEW n \in Nodes, ReadInit(n) \/ ReadAdded(n) \/ ReadRemoved(n)
  PROVE  ListFirst'
<1>1. /\ toNode' = [toNode EXCEPT ![n] = Tail(toNode[n])]
      /\ toNode[n] \in Seq(Packets) /\ toNode[n] # <<>>
      /\ DOMAIN conns' = DOMAIN conns /\ UNCHANGED session
  BY Reading DEF ListInv, ViewsInv
<1>2. /\ toNode'[n] = Tail(toNode[n]) /\ \A m \in Nodes \ {n} : toNode'[m] = toNode[m]
      /\ session[n] # 0
  BY <1>1 DEF ListInv, ViewsInv, TypeInv, WiresOK, ReadInit, ReadAdded, ReadRemoved, NodeReads
<1>3. status'[n] = "Valid" /\ \A m \in Nodes \ {n} : status'[m] = status[m]
  BY ReadsList DEF ReadInit, ReadAdded, ReadRemoved, ListInv, ViewsInv, TypeInv, TypeOK
<1>4. \A i \in 1..Len(toNode'[n]) : toNode'[n][i].type # "Init"
  <2>1. /\ Len(toNode[n]) \in Nat \ {0} /\ Len(Tail(toNode[n])) = Len(toNode[n]) - 1
        /\ \A i \in 1..Len(Tail(toNode[n])) : Tail(toNode[n])[i] = toNode[n][i + 1]
    BY <1>1, HeadAndTail
  <2>2. \A i \in 1..Len(toNode[n]) : toNode[n][i].type = "Init" => i = 1
    BY DEF ListInv, ListFirst
  <2>. QED  BY <1>2, <2>1, <2>2
<1>. QED  BY <1>1, <1>2, <1>3, <1>4 DEF ListInv, ListFirst, Conn

(* What the registry announces comes after the list. *)
LEMMA ListAnnounced ==
  ASSUME ListInv, NEW p \in Changes, toNode' = Broadcast(p),
         DOMAIN conns' = DOMAIN conns, UNCHANGED <<session, status>>
  PROVE  ListFirst'
<1>1. p.type # "Init"
  BY DEF Changes
<1>2. ASSUME NEW n \in Nodes, Conn(n) \in DOMAIN conns
      PROVE  /\ session[n] # 0 /\ toNode'[n] # <<>>
             /\ Len(toNode[n]) \in Nat /\ Len(toNode'[n]) = Len(toNode[n]) + 1
             /\ toNode'[n][Len(toNode[n]) + 1] = p
             /\ \A i \in 1..Len(toNode[n]) : toNode'[n][i] = toNode[n][i]
  <2>1. toNode[n] \in Seq(Packets) /\ toNode'[n] = Append(toNode[n], p)
    BY <1>2 DEF Broadcast, ListInv, ViewsInv, TypeInv, WiresOK
  <2>2. session[n] # 0
    BY <1>2, NoConn DEF ListInv, ViewsInv
  <2>. QED  BY <2>1, <2>2
<1>3. \A n \in Nodes : Conn(n) \notin DOMAIN conns => toNode'[n] = toNode[n]
  BY DEF Broadcast
<1>4. ASSUME NEW n \in Nodes, Conn(n) \in DOMAIN conns
      PROVE  /\ \A i \in 1..Len(toNode'[n]) :
                  toNode'[n][i].type = "Init" => i = 1 /\ status[n] # "Valid"
             /\ status[n] # "Valid" => toNode'[n][1].type = "Init"
  <2>1. \A i \in 1..Len(toNode[n]) :
          toNode[n][i].type = "Init" => i = 1 /\ status[n] # "Valid"
    BY DEF ListInv, ListFirst
  <2>2. status[n] # "Valid" => toNode[n] # <<>> /\ toNode[n][1].type = "Init"
    BY <1>4 DEF ListInv, ListFirst
  <2>3. toNode[n] # <<>> => 1 \in 1..Len(toNode[n])
    BY <1>2, <1>4, EmptySeq, LenProperties DEF ListInv, ViewsInv, TypeInv, WiresOK
  <2>. QED  BY <1>1, <1>2, <1>4, <2>1, <2>2, <2>3
<1>5. \A n \in Nodes : Conn(n)' = Conn(n)
  BY DEF Conn
<1>. QED  BY <1>2, <1>3, <1>4, <1>5 DEF ListInv, ListFirst

(* A connection brings the list; its end leaves nothing to be read. *)
LEMMA ListConnection ==
  ASSUME ListInv, NEW n \in Nodes,
         Connect(n) \/ ConnectionLost(n) \/ (n \in Hosts /\ HostRestarts(n))
  PROVE  ListFirst'
<1>1. CASE Connect(n)
  <2>1. /\ session[n] = 0 /\ session' = [session EXCEPT ![n] = sessions[n] + 1]
        /\ DOMAIN conns' = DOMAIN conns \cup {<<n, sessions[n] + 1>>}
        /\ toNode' = [toNode EXCEPT ![n] = <<InitPacket(sourceLocations)>>]
        /\ UNCHANGED status
    BY <1>1 DEF Connect, replicaVars
  <2>2. session'[n] # 0 /\ status[n] # "Valid"
    BY <2>1 DEF ListInv, ListFirst, ViewsInv, TypeInv, TypeOK
  <2>3. Len(toNode'[n]) = 1 /\ toNode'[n] # <<>> /\ toNode'[n][1].type = "Init"
    BY <2>1 DEF InitPacket, ListInv, ViewsInv, TypeInv, WiresOK
  <2>4. \A m \in Nodes \ {n} :
          /\ toNode'[m] = toNode[m] /\ session'[m] = session[m]
          /\ Conn(m)' \in DOMAIN conns' => Conn(m) \in DOMAIN conns
    BY <2>1 DEF Conn
  <2>. QED  BY <2>1, <2>2, <2>3, <2>4 DEF ListInv, ListFirst
<1>2. CASE ConnectionLost(n) \/ (n \in Hosts /\ HostRestarts(n))
  <2>1. /\ session' = [session EXCEPT ![n] = 0] /\ toNode' = [toNode EXCEPT ![n] = <<>>]
        /\ UNCHANGED conns /\ \A m \in Nodes \ {n} : status'[m] = status[m]
        /\ status'[n] # "Valid"
    BY <1>2 DEF ConnectionLost, HostRestarts, Disconnected, registryVars, ListInv, ViewsInv,
                TypeInv, TypeOK
  <2>2. toNode'[n] = <<>> /\ Len(toNode'[n]) = 0 /\ Conn(n)' \notin DOMAIN conns'
    BY <2>1, NoConn DEF Conn, ListInv, ViewsInv, TypeInv, TypeOK, WiresOK
  <2>3. \A m \in Nodes \ {n} :
          toNode'[m] = toNode[m] /\ session'[m] = session[m] /\ Conn(m)' = Conn(m)
    BY <2>1 DEF Conn
  <2>. QED  BY <2>1, <2>2, <2>3 DEF ListInv, ListFirst
<1>. QED  BY <1>1, <1>2

(* Every step keeps the list first. *)
LEMMA ListStep == ListInv /\ [Next]_vars => ListInv'
<1>. SUFFICES ASSUME ListInv, [Next]_vars  PROVE ListInv'
  OBVIOUS
<1>1. ASSUME NEW c \in DOMAIN conns, RegistryAdd(c) \/ RegistryRemove(c)
      PROVE  ListFirst'
  <2>1. /\ DOMAIN conns' = DOMAIN conns /\ UNCHANGED <<session, status>>
        /\ UNCHANGED toNode \/ \E p \in Changes : toNode' = Broadcast(p)
    BY <1>1, Announcing DEF ListInv, ViewsInv
  <2>2. CASE UNCHANGED toNode
    BY <2>1, <2>2, ListKept DEF Conn
  <2>. QED  BY <2>1, <2>2, ListAnnounced
<1>2. ASSUME NEW c \in DOMAIN conns, ServerDisconnected(c)
      PROVE  ListFirst'
  <2>1. DOMAIN conns' \subseteq DOMAIN conns /\ UNCHANGED <<session, status, toNode>>
    BY <1>2 DEF ServerDisconnected, replicaVars
  <2>. QED  BY <2>1, ListKept DEF Conn
<1>3. ASSUME \/ \E name \in Names : ReplicaInitialized(name)
             \/ \E h \in Hosts, name \in Names :
                  EnableRemoting(h, name) \/ DisableRemoting(h, name)
             \/ UNCHANGED vars
      PROVE  ListFirst'
  <2>1. DOMAIN conns' = DOMAIN conns /\ UNCHANGED <<session, status, toNode>>
    BY <1>3 DEF ReplicaInitialized, EnableRemoting, DisableRemoting, AddSource, RemoveSource,
                Sent, vars, registryVars, replicaVars
  <2>. QED  BY <2>1, ListKept DEF Conn
<1>4. ASSUME RegistryRestarts
      PROVE  ListFirst'
  <2>1. /\ DOMAIN conns' = {} /\ \A n \in Nodes : toNode'[n] = <<>> /\ 1..Len(toNode'[n]) = {}
        /\ UNCHANGED <<session, status>>
    BY <1>4 DEF RegistryRestarts, replicaVars
  <2>. QED  BY <2>1 DEF ListInv, ListFirst
<1>5. \A h \in Hosts : h \in Nodes
  BY DEF Nodes
<1>6. ListFirst'
  BY <1>1, <1>2, <1>3, <1>4, <1>5, ListRead, ListConnection DEF Next, NodeStep
<1>. QED  BY <1>6, ViewsStep DEF ListInv

(* At first nothing is sent and nobody is Valid. *)
LEMMA ListInit == Init => ListInv
<1>. SUFFICES ASSUME Init  PROVE ListInv
  OBVIOUS
<1>1. DOMAIN conns = {} /\ \A n \in Nodes : toNode[n] = <<>> /\ 1..Len(toNode[n]) = {}
  BY DEF Init
<1>. QED  BY <1>1, ViewsInit DEF ListInv, ListFirst, Init

-----------------------------------------------------------------------------
(* The proxy *)

\* Only a replica that proxiedReplicas has lost is exposed as one.
OrphansKnown == \A name \in Names : exposed[name] = "orphan" => name \in orphans

ProxyInv == ListInv /\ OrphansKnown /\ ProxyFollows

\* The last two conjuncts of ProxyFollows.
ExposedKnown == \A name \in Names : exposed[name] # "none" => name \in proxied \cup orphans
OrphansForgotten == \A name \in orphans : Forgotten(name)

LEMMA ForgottenStays ==
  ASSUME forgotten \subseteq forgotten', NEW name, Forgotten(name)  PROVE Forgotten(name)'
BY DEF Forgotten

(* The list is proxied by a proxy that proxies nothing yet. *)
LEMMA ProxyReadsList ==
  ASSUME ProxyInv, ReadInit(Proxy)
  PROVE  (OrphansKnown /\ ProxyFollows)'
<1>. DEFINE locs == Head(toNode[Proxy]).locations
<1>1. /\ ProxyObjects(Listed(locs)) /\ UNCHANGED forgotten
      /\ locations' = [locations EXCEPT ![Proxy] = locs]
      /\ status' = [status EXCEPT ![Proxy] = "Valid"]
  BY DEF ReadInit, NodeReads
<1>2. Proxy \in Nodes
  BY DEF Nodes
<1>3. proxied = {}
  BY <1>2, ReadsList DEF ProxyInv, ProxyFollows
<1>4. proxied' = Listed(locs) /\ orphans' = orphans /\ \A name \in Names : exposed'[name] = exposed[name]
  BY <1>1, <1>3 DEF ProxyObjects
<1>5. status'[Proxy] = "Valid" /\ locations'[Proxy] = locs
  BY <1>1, <1>2 DEF ProxyInv, ListInv, ViewsInv, TypeInv, TypeOK
<1>6. OrphansForgotten'
  BY <1>1, <1>4, ForgottenStays DEF ProxyInv, ProxyFollows, OrphansForgotten
<1>7. (ExposedKnown /\ OrphansKnown)'
  BY <1>1, <1>3, <1>4 DEF ProxyInv, ProxyFollows, ExposedKnown, OrphansKnown
<1>. QED  BY <1>4, <1>5, <1>6, <1>7 DEF ProxyFollows, Listed, ExposedKnown, OrphansForgotten

(* A name that is announced is proxied: another time only if an entry of    *)
(* it was forgotten.                                                        *)
LEMMA ProxyReadsAdd ==
  ASSUME ProxyInv, ReadAdded(Proxy)
  PROVE  (OrphansKnown /\ ProxyFollows)'
<1>. DEFINE p == Head(toNode[Proxy])
<1>1. /\ ProxyObjects({p.name}) /\ UNCHANGED <<forgotten, status>>
      /\ locations' = [locations EXCEPT ![Proxy][p.name] = p.host]
      /\ NodeReads(Proxy, "add")
  BY DEF ReadAdded, NodeReads
<1>2. Proxy \in Nodes
  BY DEF Nodes
<1>3. p \in Changes /\ p.type = "add" /\ toNode[Proxy] \in Seq(Packets) /\ toNode[Proxy] # <<>>
  BY <1>1, <1>2, NodeReadsType
  DEF NodeReads, ProxyInv, ListInv, ViewsInv, TypeInv, WiresOK
<1>4. p.name \in Names /\ p.host \in Hosts /\ p.host # None
  BY <1>3, ProxyIsNoHost DEF Changes
<1>5. status[Proxy] = "Valid" /\ proxied = Listed(locations[Proxy])
  BY <1>2, ReadsList DEF ProxyInv, ProxyFollows
<1>6. ~Forgotten(p.name) => p.name \notin proxied
  <2>. SUFFICES ASSUME ~Forgotten(p.name)  PROVE locations[Proxy][p.name] = None
    BY <1>5 DEF Listed
  <2>1. p = toNode[Proxy][1] /\ 1 \in 1..Len(toNode[Proxy])
    BY <1>3, HeadAndTail
  <2>2. Tells(locations[Proxy][p.name], toNode[Proxy], p.name, 1 - 1, None)
    BY <1>2, <1>3, <2>1 DEF ProxyInv, ListInv, ViewsInv, AddsAreNews
  <2>. QED  BY <2>2, TellsNothing
<1>7. \A name \in Names : locations'[Proxy][name] = IF name = p.name THEN p.host
                                                  ELSE locations[Proxy][name]
  BY <1>1, <1>2, <1>4 DEF ProxyInv, ListInv, ViewsInv, TypeInv, TypeOK, Locations
<1>8. proxied' = Listed(locations'[Proxy])
  BY <1>1, <1>4, <1>5, <1>7 DEF ProxyObjects, Listed
<1>9. OrphansForgotten'
  <2>1. \A name \in orphans' : name \in orphans \/ (name = p.name /\ p.name \in proxied)
    BY <1>1 DEF ProxyObjects
  <2>2. \A name \in orphans' : Forgotten(name)
    BY <1>6, <2>1 DEF ProxyInv, ProxyFollows
  <2>. QED  BY <1>1, <2>2, ForgottenStays DEF OrphansForgotten
<1>10. (ExposedKnown /\ OrphansKnown)'
  BY <1>1 DEF ProxyObjects, ProxyInv, ProxyFollows, ExposedKnown, OrphansKnown
<1>. QED  BY <1>1, <1>5, <1>8, <1>9, <1>10 DEF ProxyFollows, ExposedKnown, OrphansForgotten

(* What is no longer proxied is not exposed, if it is no orphan. *)
LEMMA ProxyWithdraws ==
  ASSUME ProxyInv, NEW names, UnproxyObjects(names), UNCHANGED forgotten
  PROVE  (OrphansKnown /\ ExposedKnown /\ OrphansForgotten)'
<1>1. \A name \in Names : exposed[name] \in {"none", "current", "orphan"}
  BY DEF ProxyInv, ListInv, ViewsInv, TypeInv, TypeOK
<1>2. /\ proxied' = proxied \ names /\ UNCHANGED orphans
      /\ \A name \in Names : exposed'[name] =
           IF name \in names /\ exposed[name] = "current" THEN "none" ELSE exposed[name]
  BY DEF UnproxyObjects
<1>3. (OrphansKnown /\ ExposedKnown)'
  BY <1>1, <1>2 DEF ProxyInv, OrphansKnown, ExposedKnown, ProxyFollows
<1>4. OrphansForgotten'
  BY <1>2, ForgottenStays DEF ProxyInv, ProxyFollows, OrphansForgotten
<1>. QED  BY <1>3, <1>4

(* A name that is withdrawn is no longer proxied, *)
LEMMA ProxyReadsRemove ==
  ASSUME ProxyInv, ReadRemoved(Proxy)
  PROVE  (OrphansKnown /\ ProxyFollows)'
<1>. DEFINE p == Head(toNode[Proxy])
<1>1. /\ UnproxyObjects({p.name}) /\ UNCHANGED <<forgotten, status>>
      /\ locations' = [locations EXCEPT ![Proxy][p.name] = None]
      /\ NodeReads(Proxy, "remove")
  BY DEF ReadRemoved, NodeReads
<1>2. Proxy \in Nodes
  BY DEF Nodes
<1>3. p.name \in Names
  BY <1>1, <1>2, NodeReadsType DEF ProxyInv, ListInv, ViewsInv, Changes
<1>4. status[Proxy] = "Valid" /\ proxied = Listed(locations[Proxy])
  BY <1>2, ReadsList DEF ProxyInv, ProxyFollows
<1>5. \A name \in Names : locations'[Proxy][name] = IF name = p.name THEN None
                                                  ELSE locations[Proxy][name]
  BY <1>1, <1>2, <1>3 DEF ProxyInv, ListInv, ViewsInv, TypeInv, TypeOK, Locations
<1>6. proxied' = Listed(locations'[Proxy])
  BY <1>1, <1>4, <1>5 DEF UnproxyObjects, Listed
<1>. QED  BY <1>1, <1>4, <1>6, ProxyWithdraws DEF ProxyFollows, ExposedKnown, OrphansForgotten

(* and with the connection everything. *)
LEMMA ProxyLost ==
  ASSUME ProxyInv, ConnectionLost(Proxy)
  PROVE  (OrphansKnown /\ ProxyFollows)'
<1>1. UnproxyObjects(proxied) /\ UNCHANGED forgotten /\ status' = [status EXCEPT ![Proxy] = "Suspect"]
  BY DEF ConnectionLost, Disconnected, historyVars
<1>2. status'[Proxy] = "Suspect" /\ proxied' = {}
  BY <1>1 DEF UnproxyObjects, ProxyInv, ListInv, ViewsInv, TypeInv, TypeOK, Nodes
<1>. QED  BY <1>1, <1>2, ProxyWithdraws DEF ProxyFollows, ExposedKnown, OrphansForgotten

(* The steps of others leave the proxy alone. *)
LEMMA ProxyKept ==
  ASSUME ProxyInv, UNCHANGED proxyVars, forgotten \subseteq forgotten',
         status'[Proxy] = status[Proxy], locations'[Proxy] = locations[Proxy]
  PROVE  (OrphansKnown /\ ProxyFollows)'
<1>1. \A name \in orphans : Forgotten(name)'
  BY ForgottenStays DEF ProxyInv, ProxyFollows
<1>. QED  BY <1>1 DEF ProxyInv, OrphansKnown, ProxyFollows, proxyVars, Listed

(* A replica is exposed while it is proxied, or as an orphan. *)
LEMMA ProxyExposes ==
  ASSUME ProxyInv, NEW name \in Names, ReplicaInitialized(name)
  PROVE  (OrphansKnown /\ ProxyFollows)'
<1>1. /\ UNCHANGED <<status, locations, proxied, orphans, forgotten>>
      /\ \/ name \in orphans /\ exposed' = [exposed EXCEPT ![name] = "orphan"]
         \/ name \in proxied /\ exposed' = [exposed EXCEPT ![name] = "current"]
      /\ \A other \in Names \ {name} : exposed'[other] = exposed[other]
  BY DEF ReplicaInitialized, replicaVars, historyVars, ProxyInv, ListInv, ViewsInv, TypeInv, TypeOK
<1>2. exposed \in [Names -> {"none", "current", "orphan"}]
  BY DEF ProxyInv, ListInv, ViewsInv, TypeInv, TypeOK
<1>3. \A n \in orphans : Forgotten(n)'
  BY <1>1, ForgottenStays DEF ProxyInv, ProxyFollows
<1>4. OrphansKnown'
  BY <1>1, <1>2 DEF ProxyInv, OrphansKnown
<1>. QED  BY <1>1, <1>3, <1>4 DEF ProxyInv, ProxyFollows, Listed

(* Every step keeps what the proxy proxies and exposes. *)
LEMMA ProxyStep == ProxyInv /\ [Next]_vars => ProxyInv'
<1>. SUFFICES ASSUME ProxyInv, [Next]_vars  PROVE ProxyInv'
  OBVIOUS
<1>1. Proxy \in Nodes /\ \A h \in Hosts : h \in Nodes /\ h # Proxy
  BY ProxyIsNoHost DEF Nodes
<1>2. ASSUME NEW n \in Nodes, NodeStep(n) \/ ConnectionLost(n)
      PROVE  (OrphansKnown /\ ProxyFollows)'
  <2>1. CASE Connect(n)
    BY <2>1, ProxyKept DEF Connect, replicaVars, historyVars
  <2>2. CASE n # Proxy /\ ~Connect(n)
    <3>1. UNCHANGED proxyVars
      BY <1>2, <2>2 DEF NodeStep, ReadInit, ReadAdded, ReadRemoved, ConnectionLost, Disconnected
    <3>2. status'[Proxy] = status[Proxy] /\ UNCHANGED forgotten
      BY <1>1, <1>2, <2>2
      DEF NodeStep, ReadInit, ReadAdded, ReadRemoved, NodeReads, ConnectionLost,
          Disconnected, historyVars, ProxyInv, ListInv, ViewsInv, TypeInv, TypeOK
    <3>3. locations'[Proxy] = locations[Proxy]
      <4>1. CASE ConnectionLost(n)
        BY <4>1 DEF ConnectionLost
      <4>2. CASE ~ConnectionLost(n)
        BY <1>1, <1>2, <2>2, <4>2, Reading DEF NodeStep, ProxyInv, ListInv, ViewsInv
      <4>. QED  BY <4>1, <4>2
    <3>. QED  BY <3>1, <3>2, <3>3, ProxyKept
  <2>3. CASE n = Proxy /\ ~Connect(n)
    BY <1>2, <2>3, ProxyReadsList, ProxyReadsAdd, ProxyReadsRemove, ProxyLost DEF NodeStep
  <2>. QED  BY <2>1, <2>2, <2>3
<1>3. ASSUME NEW c \in DOMAIN conns,
             RegistryAdd(c) \/ RegistryRemove(c) \/ ServerDisconnected(c)
      PROVE  (OrphansKnown /\ ProxyFollows)'
  <2>1. /\ UNCHANGED proxyVars /\ forgotten \subseteq forgotten'
        /\ UNCHANGED <<status, locations>>
    BY <1>3 DEF RegistryAdd, RegistryRemove, RegistryReads, ServerDisconnected, replicaVars
  <2>. QED  BY <2>1, ProxyKept
<1>4. ASSUME \/ \E h \in Hosts, name \in Names :
                  EnableRemoting(h, name) \/ DisableRemoting(h, name)
             \/ \E h \in Hosts : HostRestarts(h)
             \/ RegistryRestarts
             \/ UNCHANGED vars
      PROVE  (OrphansKnown /\ ProxyFollows)'
  <2>1. /\ UNCHANGED proxyVars /\ UNCHANGED forgotten
        /\ status'[Proxy] = status[Proxy] /\ locations'[Proxy] = locations[Proxy]
    <3>1. ASSUME NEW h \in Hosts, HostRestarts(h)
          PROVE  /\ UNCHANGED proxyVars /\ UNCHANGED forgotten
                 /\ status'[Proxy] = status[Proxy] /\ locations'[Proxy] = locations[Proxy]
      BY <1>1, <3>1 DEF HostRestarts, Disconnected, historyVars
    <3>. QED  BY <1>4, <3>1 DEF EnableRemoting, DisableRemoting, RegistryRestarts, vars,
              replicaVars, historyVars
  <2>. QED  BY <2>1, ProxyKept
<1>5. (OrphansKnown /\ ProxyFollows)'
  BY <1>2, <1>3, <1>4, ProxyExposes DEF Next
<1>. QED  BY <1>5, ListStep DEF ProxyInv

(* The proxy publishes what its registry lists, and nothing else: names are *)
(* announced to it once, in the order the registry changes, and the list    *)
(* comes before them.  The one exception is a name an entry of which        *)
(* removeServer has forgotten.                                              *)
THEOREM ProxyFollowsItsView == Spec => []ProxyFollows
<1>1. Init => ProxyInv
  BY ListInit DEF ProxyInv, OrphansKnown, ProxyFollows, Init, Nodes
<1>2. ProxyInv => ProxyFollows
  BY DEF ProxyInv
<1>. QED  BY <1>1, <1>2, ProxyStep, PTL DEF Spec
=============================================================================
