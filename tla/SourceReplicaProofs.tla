------------------------ MODULE SourceReplicaProofs ------------------------
(***************************************************************************)
(* Theorems about SourceReplica, for every number of clients, names,       *)
(* signatures, values and connections.                                     *)
(***************************************************************************)
EXTENDS SourceReplica, FiniteSetTheorems, SequenceTheorems, TLAPS

-----------------------------------------------------------------------------
(* Operators *)

(* What Send writes are packets, and only to linked clients. *)
LEMMA SendType ==
  ASSUME TypeOK, NEW times \in [Conns -> Nat], NEW m \in Packets
  PROVE  /\ Send(times, m) \in [Clients -> Seq(Packets)]
         /\ \A c \in Clients \ linked : Send(times, m)[c] = <<>>
<1>1. ASSUME NEW c \in linked
      PROVE  toClient[c] \o [i \in 1..times[Current(c)] |-> m] \in Seq(Packets)
  <2>1. Current(c) \in Conns
    BY DEF TypeOK, WireTypeOK, Current, Conns
  <2>2. [i \in 1..times[Current(c)] |-> m] \in Seq(Packets)
    BY <2>1
  <2>. QED  BY <2>2, ConcatProperties DEF TypeOK, WireTypeOK
<1>. QED  BY <1>1 DEF Send, TypeOK, WireTypeOK

(* Writing one packet to each of a set of connections. *)
LEMMA OnceType ==
  ASSUME NEW S  PROVE Once(S) \in [Conns -> Nat]
BY DEF Once

(* What a client requests are requests. *)
LEMMA RequestType ==
  ASSUME TypeOK, NEW c \in Clients, NEW reqs \in Seq(Requests)
  PROVE  Request(c, reqs) \in [Conns -> Seq(Requests)]
<1>1. ASSUME c \in linked  PROVE  toHost[Current(c)] \o reqs \in Seq(Requests)
  <2>1. Current(c) \in Conns
    BY <1>1 DEF TypeOK, WireTypeOK, Current, Conns
  <2>. QED  BY <2>1, ConcatProperties DEF TypeOK, WireTypeOK
<1>. QED  BY <1>1 DEF Request, TypeOK, WireTypeOK

(* setState yields one of the two states it is given. *)
LEMMA SetStateType ==
  ASSUME NEW old, NEW new  PROVE SetState(old, new) \in {old, new}
BY DEF SetState

(* The requests that attach a set of names, in any order. *)
LEMMA OrderType ==
  ASSUME NEW S \in SUBSET Names, NEW order \in SetToSeqs(S), NEW dynamic
  PROVE  [i \in DOMAIN order |-> AddObject(order[i], order[i] \notin dynamic)]
           \in Seq(Requests)
<1>1. IsFiniteSet(S)
  BY NamesAreFinite, FS_Subset
<1>2. Cardinality(S) \in Nat
  BY <1>1, FS_CardinalityType
<1>3. order \in [1..Cardinality(S) -> S]
  BY DEF SetToSeqs
<1>4. \A i \in DOMAIN order :
        AddObject(order[i], order[i] \notin dynamic) \in Requests
  BY <1>3 DEF AddObject, Requests, AddPackets
<1>5. DOMAIN order = 1..Cardinality(S)
  BY <1>3
<1>. QED  BY <1>2, <1>4, <1>5

(* What is read is a packet, and what remains are packets. *)
LEMMA ClientReadsType ==
  ASSUME TypeOK, NEW c \in linked, toClient[c] # <<>>
  PROVE  /\ Head(toClient[c]) \in Packets
         /\ [toClient EXCEPT ![c] = Tail(@)] \in [Clients -> Seq(Packets)]
         /\ \A d \in Clients \ linked :
              [toClient EXCEPT ![c] = Tail(@)][d] = <<>>
<1>1. toClient[c] \in Seq(Packets)
  BY DEF TypeOK, WireTypeOK
<1>2. Head(toClient[c]) \in Packets /\ Tail(toClient[c]) \in Seq(Packets)
  BY <1>1, HeadTailProperties
<1>. QED  BY <1>2 DEF TypeOK, WireTypeOK

(* What the host reads is a request, and what stays is a stream. *)
LEMMA ServerReadsType ==
  ASSUME TypeOK, NEW cc \in Conns, toHost[cc] # <<>>
  PROVE  /\ Head(toHost[cc]) \in Requests
         /\ [toHost EXCEPT ![cc] = Tail(@)] \in [Conns -> Seq(Requests)]
<1>1. Head(toHost[cc]) \in Requests /\ Tail(toHost[cc]) \in Seq(Requests)
  BY HeadTailProperties DEF TypeOK, WireTypeOK
<1>. QED  BY <1>1 DEF TypeOK, WireTypeOK

-----------------------------------------------------------------------------
(* Type correctness *)

(* The initial states are well typed. *)
LEMMA TypeInit == Init => TypeOK
BY BoundsAreNaturals
   DEF Init, TypeOK, HostTypeOK, WireTypeOK, ClientTypeOK, ReplicaSetsOK,
       ObjectTable, EmptyTable, NoListeners, NoValue, Uninitialized,
       SignatureMismatch

(* Every action of the host keeps the types; it leaves the clients alone. *)
LEMMA TypeHost ==
  ASSUME TypeOK, HostNext  PROVE TypeOK'
<1>. USE DEF TypeOK, HostTypeOK, WireTypeOK
<1>1. ASSUME NEW n \in Names, NEW sig \in SourceSignatures, EnableRemoting(n, sig)
      PROVE  HostTypeOK' /\ WireTypeOK' /\ UNCHANGED <<clientVars, acquires>>
  <2>1. [EmptyTable EXCEPT ![n] = sig] \in ObjectTable
    BY DEF EmptyTable, ObjectTable
  <2>2. ObjectList([EmptyTable EXCEPT ![n] = sig]) \in Packets
    BY <2>1 DEF ObjectList, Packets, ListPackets
  <2>3. WireTypeOK'
    BY <1>1, <2>2, OnceType, SendType DEF EnableRemoting, clientVars
  <2>4. HostTypeOK'
    BY <1>1, BoundsAreNaturals DEF EnableRemoting, ObjectTable
  <2>. QED  BY <1>1, <2>3, <2>4 DEF EnableRemoting
<1>2. ASSUME NEW n \in Names, DisableRemoting(n)
      PROVE  HostTypeOK' /\ WireTypeOK' /\ UNCHANGED <<clientVars, acquires>>
  <2>1. RemoveObject(n) \in Packets
    BY DEF RemoveObject, Packets, RemovePackets
  <2>2. WireTypeOK'
    BY <1>2, <2>1, SendType DEF DisableRemoting, clientVars
  <2>3. HostTypeOK'
    BY <1>2 DEF DisableRemoting, ObjectTable, NoListeners, boundVars
  <2>. QED  BY <1>2, <2>2, <2>3 DEF DisableRemoting, boundVars
<1>3. ASSUME NEW n \in Names, SetProperty(n)
      PROVE  HostTypeOK' /\ WireTypeOK' /\ UNCHANGED <<clientVars, acquires>>
  <2>1. ValuePacket("PropertyChange", n, value[n] + 1) \in Packets
    BY DEF ValuePacket, Packets, ValuePackets
  <2>2. WireTypeOK'
    BY <1>3, <2>1, SendType DEF SetProperty, clientVars
  <2>3. HostTypeOK'
    BY <1>3 DEF SetProperty, boundVars
  <2>. QED  BY <1>3, <2>2, <2>3 DEF SetProperty, boundVars
<1>4. ASSUME NEW cc \in Conns, NewConnection(cc)
      PROVE  HostTypeOK' /\ WireTypeOK' /\ UNCHANGED <<clientVars, acquires>>
  <2>1. ObjectList(sourceRoots) \in Packets
    BY DEF ObjectList, Packets, ListPackets
  <2>2. WireTypeOK'
    BY <1>4, <2>1, OnceType, SendType DEF NewConnection, clientVars
  <2>3. HostTypeOK'
    BY <1>4 DEF NewConnection, boundVars
  <2>. QED  BY <1>4, <2>2, <2>3 DEF NewConnection, boundVars
<1>5. ASSUME NEW cc \in Conns, OnServerDisconnect(cc)
      PROVE  HostTypeOK' /\ WireTypeOK' /\ UNCHANGED <<clientVars, acquires>>
  <2>1. WireTypeOK'
    BY <1>5, EmptySeq DEF OnServerDisconnect, clientVars
  <2>2. HostTypeOK'
    BY <1>5 DEF OnServerDisconnect, boundVars
  <2>. QED  BY <1>5, <2>1, <2>2 DEF OnServerDisconnect, boundVars
<1>6. ASSUME NEW cc \in Conns, ServerReadAddObject(cc)
      PROVE  HostTypeOK' /\ WireTypeOK' /\ UNCHANGED <<clientVars, acquires>>
  <2>. DEFINE m == Head(toHost[cc])
              type == IF m.dynamic THEN "InitDynamic" ELSE "Init"
  <2>1. m \in Requests /\ m.type = "AddObject" /\ toHost[cc] # <<>>
    BY <1>6, ServerReadsType DEF ServerReadAddObject, ServerReads
  <2>2. m.name \in Names
    BY <2>1 DEF Requests, AddPackets, RemovePackets
  <2>3. ValuePacket(type, m.name, value[m.name]) \in Packets
    BY <2>2 DEF ValuePacket, Packets, ValuePackets
  <2>4. WireTypeOK'
    <3>1. /\ toClient' = Send(Once({cc}), ValuePacket(type, m.name, value[m.name]))
          /\ toHost' = [toHost EXCEPT ![cc] = Tail(@)]
          /\ UNCHANGED <<backlog, epoch, linked>>
      BY <1>6 DEF ServerReadAddObject, ServerReads, clientVars
    <3>2. toClient' \in [Clients -> Seq(Packets)]
          /\ \A c \in Clients \ linked : toClient'[c] = <<>>
      BY <2>3, <3>1, OnceType, SendType
    <3>. QED  BY <2>1, <3>1, <3>2, ServerReadsType
  <2>5. HostTypeOK'
    BY <1>6, <2>2 DEF ServerReadAddObject, boundVars
  <2>. QED  BY <1>6, <2>4, <2>5 DEF ServerReadAddObject, boundVars
<1>7. ASSUME NEW cc \in Conns, ServerDropAddObject(cc)
      PROVE  HostTypeOK' /\ WireTypeOK' /\ UNCHANGED <<clientVars, acquires>>
  BY <1>7, ServerReadsType
  DEF ServerDropAddObject, ServerReads, hostVars, clientVars, boundVars
<1>8. ASSUME NEW cc \in Conns, ServerReadRemoveObject(cc)
      PROVE  HostTypeOK' /\ WireTypeOK' /\ UNCHANGED <<clientVars, acquires>>
  <2>1. Head(toHost[cc]) \in Requests /\ toHost[cc] # <<>>
    BY <1>8, ServerReadsType DEF ServerReadRemoveObject, ServerReads
  <2>2. Head(toHost[cc]).name \in Names
    BY <2>1 DEF Requests, AddPackets, RemovePackets
  <2>3. WireTypeOK'
    BY <1>8, <2>1, ServerReadsType
    DEF ServerReadRemoveObject, ServerReads, clientVars
  <2>4. HostTypeOK'
    BY <1>8, <2>2 DEF ServerReadRemoveObject, boundVars
  <2>. QED  BY <1>8, <2>3, <2>4 DEF ServerReadRemoveObject, boundVars
<1>9. HostTypeOK' /\ WireTypeOK' /\ UNCHANGED <<clientVars, acquires>>
  BY <1>1, <1>2, <1>3, <1>4, <1>5, <1>6, <1>7, <1>8 DEF HostNext, OnServerRead
<1>10. ClientTypeOK' /\ ReplicaSetsOK'
  BY <1>9 DEF clientVars, replicaVars, ClientTypeOK, ReplicaSetsOK
<1>. QED  BY <1>9, <1>10

(* What ClientDies leaves behind. *)
LEMMA TypeDies ==
  ASSUME TypeOK, NEW c \in linked, ClientDies(c)  PROVE TypeOK'
<1>1. HostTypeOK'
  BY DEF TypeOK, HostTypeOK, ClientDies, hostVars, boundVars
<1>2. WireTypeOK'
  BY EmptySeq DEF TypeOK, WireTypeOK, ClientDies
<1>3. ClientTypeOK'
  BY DEF TypeOK, WireTypeOK, ClientTypeOK, ClientDies, NoReplicaState,
         EmptyTable, ObjectTable, boundVars, NoValue, Uninitialized,
         SignatureMismatch
<1>4. ReplicaSetsOK'
  BY DEF TypeOK, WireTypeOK, ReplicaSetsOK, ClientDies, NoReplicaState
<1>. QED  BY <1>1, <1>2, <1>3, <1>4 DEF TypeOK

(* Setting the state of a replica, or of some of a client's replicas. *)
LEMMA StateType ==
  ASSUME ClientTypeOK, NEW c \in Clients, NEW n \in Names,
         NEW new \in Uninitialized..SignatureMismatch
  PROVE  [state EXCEPT ![c][n] = SetState(@, new)]
           \in [Clients -> [Names -> Uninitialized..SignatureMismatch]]
BY DEF ClientTypeOK, SetState

(* A stored value keeps the type of the table. *)
LEMMA StoredType ==
  ASSUME ClientTypeOK, NEW c \in Clients, NEW n \in Names, NEW v \in Nat
  PROVE  [stored EXCEPT ![c][n] = v] \in [Clients -> [Names -> Nat]]
BY DEF ClientTypeOK

(* So do the states that a group of replicas is set to. *)
LEMMA StatesType ==
  ASSUME ClientTypeOK, NEW c \in Clients, NEW S,
         NEW new \in Uninitialized..SignatureMismatch
  PROVE  [state EXCEPT ![c] = [n \in Names |->
            IF n \in S THEN SetState(@[n], new) ELSE @[n]]]
           \in [Clients -> [Names -> Uninitialized..SignatureMismatch]]
BY DEF ClientTypeOK, SetState

(* Every action of a client keeps the types. *)
LEMMA TypeClient ==
  ASSUME TypeOK, NEW c \in Clients, ClientNext(c)  PROVE TypeOK'
<1>. USE DEF TypeOK
<1>1. CASE ConnectToServer(c)
  <2>1. HostTypeOK'
    BY <1>1 DEF ConnectToServer, HostTypeOK, hostVars, boundVars
  <2>2. WireTypeOK'
    BY <1>1, BoundsAreNaturals DEF ConnectToServer, WireTypeOK, Conns
  <2>3. ClientTypeOK' /\ ReplicaSetsOK'
    BY <1>1 DEF ConnectToServer, ClientTypeOK, ReplicaSetsOK, replicaVars, boundVars
  <2>. QED  BY <2>1, <2>2, <2>3
<1>2. CASE OnShouldReconnect(c)
  <2>1. HostTypeOK'
    BY <1>2 DEF OnShouldReconnect, HostTypeOK, hostVars, boundVars
  <2>2. WireTypeOK'
    BY <1>2, EmptySeq DEF OnShouldReconnect, WireTypeOK
  <2>3. state' \in [Clients -> [Names -> Uninitialized..SignatureMismatch]]
    <3>. DEFINE lost == {n \in attached[c] : connectedSources[c][n] # NoSource}
    <3>1. state' = [state EXCEPT ![c] = [n \in Names |->
                     IF n \in lost THEN SetState(@[n], Suspect) ELSE @[n]]]
      BY <1>2 DEF OnShouldReconnect
    <3>2. Suspect \in Uninitialized..SignatureMismatch
      BY DEF Suspect, Uninitialized, SignatureMismatch
    <3>. HIDE DEF lost
    <3>. QED  BY <3>1, <3>2, StatesType
  <2>4. ClientTypeOK'
    BY <1>2, <2>3
    DEF OnShouldReconnect, ClientTypeOK, EmptyTable, ObjectTable, boundVars
  <2>5. ReplicaSetsOK'
    BY <1>2 DEF OnShouldReconnect, ReplicaSetsOK
  <2>. QED  BY <2>1, <2>2, <2>4, <2>5
<1>3. CASE ClientCrash(c)
  BY <1>3, TypeDies DEF ClientCrash
<1>4. ASSUME NEW n \in Names, NEW sig \in ReplicaSignatures, Acquire(c, n, sig)
      PROVE  TypeOK'
  <2>1. HostTypeOK'
    BY <1>4 DEF Acquire, HostTypeOK, hostVars
  <2>2. <<AddObject(n, sig = NoSignature)>> \in Seq(Requests)
    BY DEF AddObject, Requests, AddPackets
  <2>3. WireTypeOK'
    BY <1>4, <2>2, RequestType DEF Acquire, WireTypeOK
  <2>4. ClientTypeOK'
    BY <1>4, BoundsAreNaturals
    DEF Acquire, ClientTypeOK, NoValue, SetState, Uninitialized, Default,
        SignatureMismatch
  <2>5. ReplicaSetsOK'
    BY <1>4 DEF Acquire, ReplicaSetsOK
  <2>. QED  BY <2>1, <2>3, <2>4, <2>5
<1>5. ASSUME NEW n \in Names, DestroyReplica(c, n)
      PROVE  TypeOK'
  <2>1. HostTypeOK'
    BY <1>5 DEF DestroyReplica, HostTypeOK, hostVars, boundVars
  <2>2. <<RemoveObject(n)>> \in Seq(Requests)
    BY DEF RemoveObject, Requests, RemovePackets
  <2>3. WireTypeOK'
    BY <1>5, <2>2, RequestType DEF DestroyReplica, WireTypeOK
  <2>4. ClientTypeOK'
    BY <1>5
    DEF DestroyReplica, ClientTypeOK, NoValue, Uninitialized, SignatureMismatch,
        boundVars
  <2>5. ReplicaSetsOK'
    BY <1>5 DEF DestroyReplica, ReplicaSetsOK
  <2>. QED  BY <2>1, <2>3, <2>4, <2>5
<1>6. CASE ReadObjectList(c)
  <2>. DEFINE listed == Head(toClient[c]).objects
              known == [n \in Names |-> IF connectedSources[c][n] = NoSource
                                        THEN listed[n] ELSE connectedSources[c][n]]
              waiting == Waiting(c, listed)
              matching == {n \in waiting : CheckSignatures(signature[c][n], known[n])}
  <2>1. c \in linked /\ toClient[c] # <<>> /\ Head(toClient[c]).type = "ObjectList"
    BY <1>6 DEF ReadObjectList, ClientReads
  <2>2. listed \in ObjectTable
    BY <2>1, ClientReadsType
    DEF Packets, ListPackets, ValuePackets, RemovePackets
  <2>3. known \in ObjectTable
    BY <2>2 DEF ObjectTable, ClientTypeOK
  <2>4. matching \in SUBSET Names /\ matching \subseteq replicas[c]
    BY DEF Waiting, ReplicaSetsOK
  <2>5. HostTypeOK'
    BY <1>6 DEF ReadObjectList, HostTypeOK, hostVars, boundVars
  <2>6. WireTypeOK'
    <3>1. PICK order \in SetToSeqs(matching) :
            toHost' = Request(c, [i \in DOMAIN order |->
                                    AddObject(order[i], order[i] \notin hasMeta[c])])
      BY <1>6 DEF ReadObjectList
    <3>2. toHost' \in [Conns -> Seq(Requests)]
      BY <2>4, <3>1, OrderType, RequestType
    <3>. QED  BY <1>6, <2>1, <3>2, ClientReadsType DEF ReadObjectList, ClientReads, WireTypeOK
  <2>7. ClientTypeOK'
    <3>1. state' \in [Clients -> [Names -> Uninitialized..SignatureMismatch]]
      <4>. DEFINE failing == waiting \ matching
      <4>1. state' = [state EXCEPT ![c] = [n \in Names |->
                       IF n \in failing
                       THEN SetState(@[n], SignatureMismatch) ELSE @[n]]]
        BY <1>6 DEF ReadObjectList
      <4>2. SignatureMismatch \in Uninitialized..SignatureMismatch
        BY DEF Uninitialized, SignatureMismatch
      <4>. HIDE DEF failing
      <4>. QED  BY <4>1, <4>2, StatesType
    <3>2. connectedSources' = [connectedSources EXCEPT ![c] = known]
      BY <1>6 DEF ReadObjectList
    <3>. QED  BY <1>6, <2>3, <3>1, <3>2 DEF ReadObjectList, ClientTypeOK, boundVars
  <2>8. ReplicaSetsOK'
    <3>1. attached' = [attached EXCEPT ![c] = @ \cup matching]
      BY <1>6 DEF ReadObjectList
    <3>. QED  BY <1>6, <2>4, <3>1 DEF ReadObjectList, ReplicaSetsOK
  <2>. QED  BY <2>5, <2>6, <2>7, <2>8
<1>7. ASSUME ReadInit(c) \/ ReadInitDynamic(c)  PROVE TypeOK'
  <2>. DEFINE m == Head(toClient[c])
  <2>1. /\ c \in linked /\ toClient[c] # <<>>
        /\ m.type \in {"Init", "InitDynamic"}
    BY <1>7 DEF ReadInit, ReadInitDynamic, ClientReads
  <2>2. m.name \in Names /\ m.value \in Nat
    BY <2>1, ClientReadsType DEF Packets, ListPackets, ValuePackets, RemovePackets
  <2>3. CASE ClientDies(c)
    BY <2>1, <2>3, TypeDies
  <2>4. CASE ~ ClientDies(c)
    <3>1. /\ ClientReads(c, m.type)
          /\ UNCHANGED <<hostVars, backlog, toHost, epoch, linked,
                         connectedSources, boundVars>>
          /\ \/ UNCHANGED replicaVars
             \/ /\ m.name \in replicas[c]
                /\ Initialize(c, m.name, m.value)
                /\ \/ UNCHANGED hasMeta
                   \/ hasMeta' = [hasMeta EXCEPT ![c] = @ \cup {m.name}]
      BY <1>7, <2>4 DEF ReadInit, ReadInitDynamic, ClientReads
    <3>2. HostTypeOK'
      BY <3>1 DEF HostTypeOK, hostVars, boundVars
    <3>3. WireTypeOK'
      BY <2>1, <3>1, ClientReadsType DEF ClientReads, WireTypeOK
    <3>4. Valid \in Uninitialized..SignatureMismatch
      BY DEF Valid, Uninitialized, SignatureMismatch
    <3>5. ClientTypeOK'
      <4>1. stored' \in [Clients -> [Names -> Nat]]
        <5>1. \E n \in Names, v \in Nat :
                stored' \in {stored, [stored EXCEPT ![c][n] = v]}
          BY <2>2, <3>1 DEF Initialize, replicaVars
        <5>2. stored \in [Clients -> [Names -> Nat]]
          BY DEF ClientTypeOK
        <5>. QED  BY <5>1, <5>2, StoredType
      <4>2. state' \in [Clients -> [Names -> Uninitialized..SignatureMismatch]]
        <5>1. PICK n \in Names :
                \/ state' = state
                \/ state' = [state EXCEPT ![c][n] = SetState(@, Valid)]
          BY <2>2, <3>1 DEF Initialize, replicaVars
        <5>2. state \in [Clients -> [Names -> Uninitialized..SignatureMismatch]]
          BY DEF ClientTypeOK
        <5>3. [state EXCEPT ![c][n] = SetState(@, Valid)]
                \in [Clients -> [Names -> Uninitialized..SignatureMismatch]]
          BY <3>4, StateType
        <5>. QED  BY <5>1, <5>2, <5>3
      <4>. QED  BY <3>1, <4>1, <4>2 DEF ClientTypeOK, Initialize, replicaVars, boundVars
    <3>6. ReplicaSetsOK'
      BY <2>2, <3>1 DEF ReplicaSetsOK, Initialize, replicaVars
    <3>. QED  BY <3>2, <3>3, <3>5, <3>6
  <2>. QED  BY <2>3, <2>4
<1>8. ASSUME ReadPropertyChange(c)  PROVE TypeOK'
  <2>. DEFINE m == Head(toClient[c])
  <2>1. c \in linked /\ toClient[c] # <<>> /\ m.type = "PropertyChange"
    BY <1>8 DEF ReadPropertyChange
  <2>2. m.name \in Names /\ m.value \in Nat
    BY <2>1, ClientReadsType DEF Packets, ListPackets, ValuePackets, RemovePackets
  <2>3. CASE ClientDies(c)
    BY <2>1, <2>3, TypeDies
  <2>4. CASE ~ ClientDies(c)
    <3>1. /\ ClientReads(c, "PropertyChange")
          /\ stored' \in {stored, [stored EXCEPT ![c][m.name] = m.value]}
          /\ UNCHANGED <<hostVars, backlog, toHost, epoch, linked,
                         connectedSources, replicas, signature, state, attached,
                         hasMeta, boundVars>>
      BY <1>8, <2>4 DEF ReadPropertyChange
    <3>2. HostTypeOK'
      BY <3>1 DEF HostTypeOK, hostVars, boundVars
    <3>3. WireTypeOK'
      BY <2>1, <3>1, ClientReadsType DEF ClientReads, WireTypeOK
    <3>4. ClientTypeOK'
      <4>1. stored' \in [Clients -> [Names -> Nat]]
        <5>1. \E n \in Names, v \in Nat :
                stored' \in {stored, [stored EXCEPT ![c][n] = v]}
          BY <2>2, <3>1
        <5>2. stored \in [Clients -> [Names -> Nat]]
          BY DEF ClientTypeOK
        <5>. QED  BY <5>1, <5>2, StoredType
      <4>. QED  BY <3>1, <4>1 DEF ClientTypeOK, boundVars
    <3>5. ReplicaSetsOK'
      BY <3>1 DEF ReplicaSetsOK
    <3>. QED  BY <3>2, <3>3, <3>4, <3>5
  <2>. QED  BY <2>3, <2>4
<1>9. CASE ReadRemoveObject(c)
  <2>. DEFINE n == Head(toClient[c]).name
  <2>1. c \in linked /\ toClient[c] # <<>> /\ Head(toClient[c]).type = "RemoveObject"
    BY <1>9 DEF ReadRemoveObject, ClientReads
  <2>2. n \in Names
    BY <2>1, ClientReadsType DEF Packets, ListPackets, ValuePackets, RemovePackets
  <2>3. HostTypeOK'
    BY <1>9 DEF ReadRemoveObject, HostTypeOK, hostVars, boundVars
  <2>4. WireTypeOK'
    BY <1>9, <2>1, ClientReadsType DEF ReadRemoveObject, ClientReads, WireTypeOK
  <2>5. Suspect \in Uninitialized..SignatureMismatch
    BY DEF Suspect, Uninitialized, SignatureMismatch
  <2>6. ClientTypeOK'
    BY <1>9, <2>2, <2>5, StateType
    DEF ReadRemoveObject, ClientTypeOK, ObjectTable, boundVars
  <2>7. ReplicaSetsOK'
    BY <1>9, <2>2 DEF ReadRemoveObject, ReplicaSetsOK
  <2>. QED  BY <2>3, <2>4, <2>6, <2>7
<1>. QED  BY <1>1, <1>2, <1>3, <1>4, <1>5, <1>6, <1>7, <1>8, <1>9
          DEF ClientNext, OnClientRead

(* Every step keeps the types. *)
LEMMA TypeStep ==
  ASSUME TypeOK, [Next]_vars  PROVE TypeOK'
<1>1. CASE HostNext
  BY <1>1, TypeHost
<1>2. ASSUME NEW c \in Clients, ClientNext(c)  PROVE TypeOK'
  BY <1>2, TypeClient
<1>3. CASE UNCHANGED vars
  <2>1. UNCHANGED <<hostVars, wireVars, clientVars, boundVars>>
    BY <1>3 DEF vars
  <2>2. HostTypeOK'
    BY <2>1 DEF TypeOK, HostTypeOK, hostVars, boundVars
  <2>3. WireTypeOK'
    BY <2>1 DEF TypeOK, WireTypeOK, wireVars, clientVars
  <2>4. ClientTypeOK'
    BY <2>1 DEF TypeOK, ClientTypeOK, clientVars, replicaVars, boundVars
  <2>5. ReplicaSetsOK'
    BY <2>1 DEF TypeOK, ReplicaSetsOK, clientVars, replicaVars
  <2>. QED  BY <2>2, <2>3, <2>4, <2>5 DEF TypeOK
<1>. QED  BY <1>1, <1>2, <1>3 DEF Next

(* Every reachable state has the types of TypeOK: in particular a client   *)
(* that is not linked has nothing to read, and a replica is attached only  *)
(* while it lives.                                                         *)
THEOREM TypeCorrect == Spec => []TypeOK
BY TypeInit, TypeStep, PTL DEF Spec

-----------------------------------------------------------------------------
(* Listeners *)

(* A client does nothing to the host but send it requests. *)
LEMMA ClientLeavesHost ==
  ASSUME NEW c \in Clients, ClientNext(c)  PROVE UNCHANGED hostVars
BY DEF ClientNext, OnClientRead, ConnectToServer, OnShouldReconnect, ClientCrash,
       ClientDies, Acquire, DestroyReplica, ReadObjectList, ReadInit,
       ReadInitDynamic, ReadPropertyChange, ReadRemoveObject

(* A request adds only a connection that is alive, and                     *)
(* onServerDisconnect takes it out of every list.                          *)
LEMMA NoDanglingStep ==
  ASSUME TypeOK, NoDanglingListener, [Next]_vars
  PROVE  NoDanglingListener'
<1>. USE DEF NoDanglingListener, TypeOK, HostTypeOK
<1>1. ASSUME NEW n \in Names, NEW sig \in SourceSignatures, EnableRemoting(n, sig)
      PROVE  NoDanglingListener'
  BY <1>1, NoSourceIsNoSignature DEF EnableRemoting
<1>2. ASSUME NEW n \in Names, DisableRemoting(n)
      PROVE  NoDanglingListener'
  BY <1>2 DEF DisableRemoting, NoListeners
<1>3. ASSUME NEW n \in Names, SetProperty(n)
      PROVE  NoDanglingListener'
  BY <1>3 DEF SetProperty
<1>4. ASSUME NEW cc \in Conns, NewConnection(cc)
      PROVE  NoDanglingListener'
  BY <1>4 DEF NewConnection
<1>5. ASSUME NEW cc \in Conns, OnServerDisconnect(cc)
      PROVE  NoDanglingListener'
  BY <1>5 DEF OnServerDisconnect
<1>6. ASSUME NEW cc \in Conns, ServerReadAddObject(cc)
      PROVE  NoDanglingListener'
  <2>1. PICK m : /\ sourceRoots[m.name] # NoSource
                 /\ listeners' = [listeners EXCEPT ![m.name][cc] = @ + 1]
    BY <1>6 DEF ServerReadAddObject
  <2>2. cc \in connections /\ UNCHANGED <<connections, sourceRoots>>
    BY <1>6 DEF ServerReadAddObject, ServerReads
  <2>. QED  BY <2>1, <2>2
<1>7. ASSUME NEW cc \in Conns, ServerDropAddObject(cc)
      PROVE  NoDanglingListener'
  BY <1>7 DEF ServerDropAddObject, hostVars
<1>8. ASSUME NEW cc \in Conns, ServerReadRemoveObject(cc)
      PROVE  NoDanglingListener'
  <2>1. PICK n : \/ listeners' = listeners
                 \/ listeners' = [listeners EXCEPT ![n][cc] = 0]
    BY <1>8 DEF ServerReadRemoveObject
  <2>2. UNCHANGED <<connections, sourceRoots>>
    BY <1>8 DEF ServerReadRemoveObject
  <2>3. \A k \in Names, d \in Conns : listeners'[k][d] \in {0, listeners[k][d]}
    BY <2>1
  <2>. QED  BY <2>2, <2>3
<1>9. ASSUME NEW c \in Clients, ClientNext(c)
      PROVE  NoDanglingListener'
  BY <1>9, ClientLeavesHost DEF hostVars
<1>10. CASE UNCHANGED vars
  BY <1>10 DEF vars, hostVars
<1>. QED  BY <1>1, <1>2, <1>3, <1>4, <1>5, <1>6, <1>7, <1>8, <1>9, <1>10
          DEF Next, HostNext, OnServerRead

(* The bare pointers of m_listeners never outlive their device, and only   *)
(* published sources have any, whatever connections and sources come and   *)
(* go (onServerDisconnect, ~QRemoteObjectRootSource, addListener).         *)
THEOREM ListenersAreAlive == Spec => []NoDanglingListener
<1>1. Init => NoDanglingListener
  BY DEF Init, NoDanglingListener, NoListeners
<1>. QED  BY <1>1, TypeCorrect, NoDanglingStep, PTL DEF Spec

-----------------------------------------------------------------------------
(* Attachment *)

(* The node knows sources only through a socket that is up; with it        *)
(* AttachedIsKnown is inductive.                                           *)
KnownIsLinked ==
  \A c \in Clients, n \in Names :
    connectedSources[c][n] # NoSource => c \in linked

AttachedInv == KnownIsLinked /\ AttachedIsKnown

(* A client attaches replicas of known sources only, and knows sources     *)
(* only while it is linked.                                                *)
LEMMA AttachedClient ==
  ASSUME TypeOK, TypeOK', AttachedInv, NEW c \in Clients, ClientNext(c)
  PROVE  AttachedInv'
<1>. USE DEF AttachedInv, KnownIsLinked, AttachedIsKnown, TypeOK, WireTypeOK,
             ClientTypeOK, ReplicaSetsOK
<1>1. CASE ConnectToServer(c)
  BY <1>1 DEF ConnectToServer, replicaVars
<1>2. CASE OnShouldReconnect(c)
  BY <1>2 DEF OnShouldReconnect, EmptyTable
<1>3. CASE c \in linked /\ ClientDies(c)
  <2>1. /\ linked' = linked \ {c}
        /\ connectedSources' = [connectedSources EXCEPT ![c] = EmptyTable]
        /\ attached' = [attached EXCEPT ![c] = {}]
    BY <1>3 DEF ClientDies, NoReplicaState
  <2>. QED  BY <2>1 DEF EmptyTable
<1>4. ASSUME NEW n \in Names, NEW sig \in ReplicaSignatures, Acquire(c, n, sig)
      PROVE  AttachedInv'
  <2>1. /\ UNCHANGED <<linked, connectedSources>>
        /\ \/ UNCHANGED attached
           \/ /\ connectedSources[c][n] # NoSource
              /\ attached' = [attached EXCEPT ![c] = @ \cup {n}]
    BY <1>4 DEF Acquire
  <2>2. CASE UNCHANGED attached
    BY <2>1, <2>2
  <2>3. CASE /\ connectedSources[c][n] # NoSource
             /\ attached' = [attached EXCEPT ![c] = @ \cup {n}]
    <3>1. c \in linked
      BY <2>3
    <3>. QED  BY <2>1, <2>3, <3>1
  <2>. QED  BY <2>1, <2>2, <2>3
<1>5. ASSUME NEW n \in Names, DestroyReplica(c, n)
      PROVE  AttachedInv'
  <2>1. /\ UNCHANGED <<linked, connectedSources>>
        /\ attached' = [attached EXCEPT ![c] = @ \ {n}]
    BY <1>5 DEF DestroyReplica
  <2>2. \A d \in Clients : attached'[d] \subseteq attached[d]
    BY <2>1
  <2>. QED  BY <2>1, <2>2
<1>6. CASE ReadObjectList(c)
  <2>. DEFINE listed == Head(toClient[c]).objects
              known == [n \in Names |-> IF connectedSources[c][n] = NoSource
                                        THEN listed[n] ELSE connectedSources[c][n]]
              waiting == Waiting(c, listed)
              matching == {n \in waiting : CheckSignatures(signature[c][n], known[n])}
  <2>1. /\ c \in linked
        /\ UNCHANGED linked
        /\ connectedSources' = [connectedSources EXCEPT ![c] = known]
        /\ attached' = [attached EXCEPT ![c] = @ \cup matching]
    BY <1>6 DEF ReadObjectList, ClientReads
  <2>2. \A n \in matching : n \in Names /\ known[n] # NoSource
    BY DEF Waiting
  <2>3. \A n \in Names : connectedSources[c][n] # NoSource => known[n] # NoSource
    OBVIOUS
  <2>. HIDE DEF known, matching
  <2>4. /\ connectedSources'[c] = known
        /\ attached'[c] = attached[c] \cup matching
    BY <2>1
  <2>5. \A d \in Clients \ {c} : /\ connectedSources'[d] = connectedSources[d]
                                 /\ attached'[d] = attached[d]
    BY <2>1
  <2>6. \A n \in attached[c] : n \in Names /\ known[n] # NoSource
    BY <2>3
  <2>7. KnownIsLinked'
    BY <2>1, <2>5
  <2>8. AttachedIsKnown'
    BY <2>1, <2>2, <2>4, <2>5, <2>6
  <2>. QED  BY <2>7, <2>8
<1>7. ASSUME /\ ReadInit(c) \/ ReadInitDynamic(c) \/ ReadPropertyChange(c)
             /\ ~ ClientDies(c)
      PROVE  AttachedInv'
  <2>1. UNCHANGED <<linked, connectedSources, attached>>
    BY <1>7
    DEF ReadInit, ReadInitDynamic, ReadPropertyChange, Initialize, replicaVars
  <2>. QED  BY <2>1
<1>8. CASE ReadRemoveObject(c)
  <2>1. PICK n : /\ connectedSources' = [connectedSources EXCEPT ![c][n] = NoSource]
                 /\ attached' = [attached EXCEPT ![c] = @ \ {n}]
    BY <1>8 DEF ReadRemoveObject
  <2>2. UNCHANGED linked
    BY <1>8 DEF ReadRemoveObject
  <2>. QED  BY <2>1, <2>2
<1>. QED  BY <1>1, <1>2, <1>3, <1>4, <1>5, <1>6, <1>7, <1>8
          DEF ClientNext, OnClientRead, ClientCrash, ReadInit, ReadPropertyChange,
              ReadInitDynamic, ClientReads

(* The host leaves the tables of the clients alone, so that every step     *)
(* keeps AttachedInv.                                                      *)
LEMMA AttachedStep ==
  ASSUME TypeOK, TypeOK', AttachedInv, [Next]_vars
  PROVE  AttachedInv'
<1>1. ASSUME HostNext  PROVE UNCHANGED clientVars
  BY <1>1
  DEF HostNext, OnServerRead, EnableRemoting, DisableRemoting, SetProperty,
      NewConnection, OnServerDisconnect, ServerReadAddObject,
      ServerDropAddObject, ServerReadRemoveObject
<1>2. CASE UNCHANGED clientVars
  BY <1>2 DEF clientVars, replicaVars, AttachedInv, KnownIsLinked, AttachedIsKnown
<1>. QED  BY <1>1, <1>2, AttachedClient DEF Next, vars

(* A replica that has a connectionToSource belongs to a source its node    *)
(* knows and to a socket that is up: what sendCommand and the destructor   *)
(* rely on, through every order of lists, removals and losses.             *)
THEOREM AttachmentIsKnown == Spec => []AttachedIsKnown
<1>1. Init => AttachedInv
  BY DEF Init, AttachedInv, KnownIsLinked, AttachedIsKnown, EmptyTable
<1>2. AttachedInv => AttachedIsKnown
  BY DEF AttachedInv
<1>. QED  BY <1>1, <1>2, TypeCorrect, AttachedStep, PTL DEF Spec

-----------------------------------------------------------------------------
(***************************************************************************)
(* The values of a source and its replicas, for any number of clients,     *)
(* names, connections and changes: no packet and no replica ever goes      *)
(* back, so that a replica is a latent copy of its source (LatentCopy);    *)
(* and who is listed is told of every change.                              *)
(***************************************************************************)

(* Ordered sequences of packets *)

(* What carries values is a packet with a number. *)
LEMMA ValueType ==
  ASSUME NEW m \in Packets, NEW n \in Names, CarriesValue(m, n)
  PROVE  m.value \in Nat
BY DEF CarriesValue, Packets, ListPackets, ValuePackets, RemovePackets

(* Packets written at the end carry the newest values, or none. *)
LEMMA OrderedSend ==
  ASSUME NEW s \in Seq(Packets), NEW t \in Seq(Packets), NEW n \in Names,
         NEW lo \in Nat, NEW hi \in Nat, NEW new \in Nat,
         Ordered(s, n, lo, hi), lo <= hi, hi <= new,
         \A i \in DOMAIN t : CarriesValue(t[i], n) => t[i].value = new
  PROVE  Ordered(s \o t, n, lo, new)
<1>. DEFINE k == Len(t)
<1>1. /\ s \o t \in Seq(Packets)
      /\ Len(s \o t) = Len(s) + k
      /\ \A i \in 1..Len(s) + k :
           (s \o t)[i] = IF i <= Len(s) THEN s[i] ELSE t[i - Len(s)]
  BY ConcatProperties
<1>2. DOMAIN s = 1..Len(s) /\ Len(s) \in Nat /\ DOMAIN t = 1..k /\ k \in Nat
  BY LenProperties
<1>3. DOMAIN (s \o t) = 1..Len(s) + k
  BY <1>1, LenProperties
<1>. HIDE DEF k
<1>4. \A i \in 1..Len(s) + k :
        ~ (i <= Len(s)) /\ CarriesValue((s \o t)[i], n) => (s \o t)[i].value = new
  <2>1. SUFFICES ASSUME NEW i \in 1..Len(s) + k, ~ (i <= Len(s)),
                        CarriesValue((s \o t)[i], n)
                 PROVE  (s \o t)[i].value = new
    OBVIOUS
  <2>2. (s \o t)[i] = t[i - Len(s)] /\ i - Len(s) \in DOMAIN t
    BY <1>1, <1>2, <2>1
  <2>. QED  BY <2>1, <2>2
<1>5. \A i \in 1..Len(s) : s[i] \in Packets
  BY <1>2, ElementOfSeq
<1>. DEFINE u == s \o t
<1>6. DOMAIN u = 1..Len(s) + k
      /\ \A i \in 1..Len(s) + k :
           IF i <= Len(s) THEN u[i] = s[i]
                          ELSE CarriesValue(u[i], n) => u[i].value = new
  BY <1>1, <1>3, <1>4
<1>. HIDE DEF u
<1>7. ASSUME NEW i \in 1..Len(s) + k, CarriesValue(u[i], n)
      PROVE  lo <= u[i].value /\ u[i].value <= new
  <2>1. CASE i <= Len(s)
    <3>1. u[i] = s[i] /\ i \in DOMAIN s /\ s[i].value \in Nat
      BY <1>2, <1>5, <1>6, <1>7, <2>1, ValueType
    <3>. QED  BY <1>7, <3>1 DEF Ordered
  <2>2. CASE ~ (i <= Len(s))
    BY <1>6, <1>7, <2>2
  <2>. QED  BY <2>1, <2>2
<1>8. ASSUME NEW i \in 1..Len(s) + k, NEW j \in 1..Len(s) + k, i <= j,
             CarriesValue(u[i], n), CarriesValue(u[j], n)
      PROVE  u[i].value <= u[j].value
  <2>1. CASE j <= Len(s)
    <3>1. u[i] = s[i] /\ u[j] = s[j] /\ i \in DOMAIN s /\ j \in DOMAIN s
      BY <1>2, <1>6, <1>8, <2>1
    <3>. QED  BY <1>8, <3>1 DEF Ordered
  <2>2. CASE ~ (j <= Len(s))
    <3>1. u[j].value = new
      BY <1>6, <1>8, <2>2
    <3>. QED  BY <1>7, <1>8, <3>1
  <2>. QED  BY <2>1, <2>2
<1>9. Ordered(u, n, lo, new)
  BY <1>6, <1>7, <1>8 DEF Ordered
<1>. QED  BY <1>9 DEF u

(* What is left after a packet is read is no older than it. *)
LEMMA OrderedTail ==
  ASSUME NEW s \in Seq(Packets), s # <<>>, NEW n \in Names,
         NEW lo \in Nat, NEW hi \in Nat, Ordered(s, n, lo, hi)
  PROVE  /\ Ordered(Tail(s), n, lo, hi)
         /\ CarriesValue(Head(s), n) =>
              /\ lo <= Head(s).value /\ Head(s).value <= hi
              /\ Ordered(Tail(s), n, Head(s).value, hi)
<1>1. /\ Len(s) \in Nat \ {0} /\ DOMAIN s = 1..Len(s) /\ Head(s) = s[1]
      /\ Tail(s) \in Seq(Packets) /\ Len(Tail(s)) = Len(s) - 1
      /\ \A i \in 1..Len(Tail(s)) : Tail(s)[i] = s[i + 1]
  BY HeadTailProperties, EmptySeq, LenProperties
<1>2. DOMAIN Tail(s) = 1..Len(s) - 1
  BY <1>1, LenProperties
<1>. QED  BY <1>1, <1>2 DEF Ordered

(* Nothing is older than the defaults, and nothing is out of order among   *)
(* no packets.                                                             *)
LEMMA OrderedLess ==
  ASSUME NEW s \in Seq(Packets), NEW n \in Names, NEW lo \in Nat, NEW hi \in Nat,
         Ordered(s, n, lo, hi)
  PROVE  Ordered(s, n, 0, hi)
<1>1. \A i \in DOMAIN s : s[i] \in Packets
  BY ElementOfSeq, LenProperties
<1>2. \A i \in DOMAIN s : CarriesValue(s[i], n) => s[i].value \in Nat
  BY <1>1, ValueType
<1>. QED  BY <1>2 DEF Ordered

(* An empty channel is ordered. *)
LEMMA OrderedEmpty ==
  ASSUME NEW n, NEW lo, NEW hi  PROVE Ordered(<<>>, n, lo, hi)
BY DEF Ordered

-----------------------------------------------------------------------------
(* The steps *)

(* What the host sends keeps the order when it is the newest value. *)
LEMMA SendOrdered ==
  ASSUME TypeOK, TypeOK', InOrder, NEW times \in [Conns -> Nat], NEW m \in Packets,
         toClient' = Send(times, m), stored' = stored,
         \A n \in Names : value[n] <= value'[n],
         \A n \in Names : CarriesValue(m, n) => m.value = value'[n]
  PROVE  InOrder'
<1>. SUFFICES ASSUME NEW c \in Clients, NEW n \in Names
              PROVE  /\ stored'[c][n] <= value'[n]
                     /\ Ordered(toClient'[c], n, stored'[c][n], value'[n])
  BY DEF InOrder
<1>1. /\ stored[c][n] \in Nat /\ value[n] \in Nat /\ value'[n] \in Nat
      /\ toClient[c] \in Seq(Packets)
  BY DEF TypeOK, HostTypeOK, WireTypeOK, ClientTypeOK
<1>2. /\ stored[c][n] <= value[n]
      /\ Ordered(toClient[c], n, stored[c][n], value[n])
  BY DEF InOrder
<1>3. CASE c \in linked
  <2>1. Current(c) \in Conns
    BY <1>3 DEF TypeOK, WireTypeOK, Current, Conns
  <2>2. times[Current(c)] \in Nat
    BY <2>1
  <2>. DEFINE t == [i \in 1..times[Current(c)] |-> m]
  <2>3. toClient'[c] = toClient[c] \o t
    BY <1>3 DEF Send
  <2>4. t \in Seq(Packets) /\ \A i \in DOMAIN t : t[i] = m
    BY <2>2
  <2>5. value[n] <= value'[n] /\ (CarriesValue(m, n) => m.value = value'[n])
    OBVIOUS
  <2>. HIDE DEF t
  <2>6. Ordered(toClient[c] \o t, n, stored[c][n], value'[n])
    BY <1>1, <1>2, <2>4, <2>5, OrderedSend
  <2>7. stored[c][n] <= value'[n]
    BY <1>1, <1>2, <2>5
  <2>. QED  BY <2>3, <2>6, <2>7
<1>4. CASE c \notin linked
  <2>1. toClient'[c] = <<>>
    BY <1>4, SendType DEF TypeOK, WireTypeOK
  <2>. QED  BY <1>1, <1>2, <2>1, OrderedEmpty
<1>. QED  BY <1>3, <1>4

(* So does a packet that is read, and stored or not. *)
LEMMA ReadOrdered ==
  ASSUME TypeOK, InOrder, NEW c \in linked, toClient[c] # <<>>,
         toClient' = [toClient EXCEPT ![c] = Tail(@)], value' = value,
         \/ stored' = stored
         \/ \E n \in Names : /\ CarriesValue(Head(toClient[c]), n)
                             /\ stored' = [stored EXCEPT ![c][n] = Head(toClient[c]).value]
  PROVE  InOrder'
<1>. SUFFICES ASSUME NEW d \in Clients, NEW n \in Names
              PROVE  /\ stored'[d][n] <= value[n]
                     /\ Ordered(toClient'[d], n, stored'[d][n], value[n])
  BY DEF InOrder
<1>. DEFINE m == Head(toClient[c])
<1>1. /\ stored[d][n] \in Nat /\ value[n] \in Nat /\ c \in Clients
      /\ stored \in [Clients -> [Names -> Nat]]
      /\ toClient \in [Clients -> Seq(Packets)]
  BY DEF TypeOK, HostTypeOK, WireTypeOK, ClientTypeOK
<1>2. /\ stored[d][n] <= value[n]
      /\ Ordered(toClient[d], n, stored[d][n], value[n])
  BY DEF InOrder
<1>3. CASE d # c
  BY <1>1, <1>2, <1>3
<1>4. CASE d = c
  <2>1. toClient'[d] = Tail(toClient[d]) /\ toClient[d] \in Seq(Packets)
    BY <1>1, <1>4
  <2>2. /\ Ordered(Tail(toClient[d]), n, stored[d][n], value[n])
        /\ CarriesValue(m, n) => m.value <= value[n]
                                 /\ Ordered(Tail(toClient[d]), n, m.value, value[n])
    BY <1>1, <1>2, <1>4, OrderedTail
  <2>3. \/ stored'[d][n] = stored[d][n]
        \/ CarriesValue(m, n) /\ stored'[d][n] = m.value
    BY <1>1, <1>4
  <2>. QED  BY <1>2, <2>1, <2>2, <2>3
<1>. QED  BY <1>3, <1>4

(* A client may lose what it was to read, and forget what it has read. *)
LEMMA ForgetOrdered ==
  ASSUME TypeOK, InOrder, value' = value,
         \A c \in Clients : toClient'[c] \in {toClient[c], <<>>},
         \A c \in Clients, n \in Names : stored'[c][n] \in {stored[c][n], 0}
  PROVE  InOrder'
<1>. SUFFICES ASSUME NEW c \in Clients, NEW n \in Names
              PROVE  /\ stored'[c][n] <= value[n]
                     /\ Ordered(toClient'[c], n, stored'[c][n], value[n])
  BY DEF InOrder
<1>1. /\ stored[c][n] \in Nat /\ value[n] \in Nat
      /\ toClient[c] \in Seq(Packets)
  BY DEF TypeOK, HostTypeOK, WireTypeOK, ClientTypeOK
<1>2. /\ stored[c][n] <= value[n]
      /\ Ordered(toClient[c], n, stored[c][n], value[n])
  BY DEF InOrder
<1>3. Ordered(toClient[c], n, 0, value[n])
  BY <1>1, <1>2, OrderedLess
<1>. QED  BY <1>1, <1>2, <1>3, OrderedEmpty

(* The host appends the newest value to the channels, or none. *)
LEMMA InOrderHost ==
  ASSUME TypeOK, TypeOK', InOrder, HostNext  PROVE InOrder'
<1>1. ASSUME NEW n \in Names, NEW sig \in SourceSignatures, EnableRemoting(n, sig)
      PROVE  InOrder'
  <2>. DEFINE m == ObjectList([EmptyTable EXCEPT ![n] = sig])
  <2>1. m \in Packets
    BY DEF ObjectList, Packets, ListPackets, EmptyTable, ObjectTable
  <2>2. toClient' = Send(Once(connections), m)
    BY <1>1 DEF EnableRemoting
  <2>3. UNCHANGED <<value, stored>>
    BY <1>1 DEF EnableRemoting, clientVars, replicaVars
  <2>4. \A k \in Names : ~ CarriesValue(m, k)
    BY DEF CarriesValue, ObjectList
  <2>. HIDE DEF m
  <2>5. \A k \in Names : value[k] \in Nat
    BY DEF TypeOK, HostTypeOK
  <2>. QED  BY <2>1, <2>2, <2>3, <2>4, <2>5, OnceType, SendOrdered
<1>2. ASSUME NEW n \in Names, DisableRemoting(n)
      PROVE  InOrder'
  <2>1. RemoveObject(n) \in Packets /\ listeners[n] \in [Conns -> Nat]
    BY DEF RemoveObject, Packets, RemovePackets, TypeOK, HostTypeOK
  <2>2. toClient' = Send(listeners[n], RemoveObject(n)) /\ UNCHANGED <<value, stored>>
    BY <1>2 DEF DisableRemoting, clientVars, replicaVars
  <2>3. \A k \in Names : ~ CarriesValue(RemoveObject(n), k) /\ value[k] \in Nat
    BY DEF CarriesValue, RemoveObject, TypeOK, HostTypeOK
  <2>. QED  BY <2>1, <2>2, <2>3, SendOrdered
<1>3. ASSUME NEW n \in Names, SetProperty(n)
      PROVE  InOrder'
  <2>. DEFINE m == ValuePacket("PropertyChange", n, value[n] + 1)
  <2>1. value \in [Names -> Nat] /\ listeners[n] \in [Conns -> Nat]
    BY DEF TypeOK, HostTypeOK
  <2>2. m \in Packets
    BY <2>1 DEF ValuePacket, Packets, ValuePackets
  <2>3. toClient' = Send(listeners[n], m) /\ stored' = stored
        /\ value' = [value EXCEPT ![n] = @ + 1]
    BY <1>3 DEF SetProperty, clientVars, replicaVars
  <2>4. \A k \in Names : value[k] <= value'[k]
    BY <2>1, <2>3
  <2>5. \A k \in Names : CarriesValue(m, k) => m.value = value'[k]
    BY <2>1, <2>3 DEF CarriesValue, ValuePacket
  <2>. HIDE DEF m
  <2>. QED  BY <2>1, <2>2, <2>3, <2>4, <2>5, SendOrdered
<1>4. ASSUME NEW cc \in Conns, NewConnection(cc)
      PROVE  InOrder'
  <2>1. ObjectList(sourceRoots) \in Packets
    BY DEF ObjectList, Packets, ListPackets, TypeOK, HostTypeOK
  <2>2. /\ toClient' = Send(Once({cc}), ObjectList(sourceRoots))
        /\ UNCHANGED <<value, stored>>
    BY <1>4 DEF NewConnection, clientVars, replicaVars
  <2>3. \A k \in Names : ~ CarriesValue(ObjectList(sourceRoots), k) /\ value[k] \in Nat
    BY DEF CarriesValue, ObjectList, TypeOK, HostTypeOK
  <2>. QED  BY <2>1, <2>2, <2>3, OnceType, SendOrdered
<1>5. ASSUME NEW cc \in Conns,
             \/ OnServerDisconnect(cc)
             \/ ServerDropAddObject(cc)
             \/ ServerReadRemoveObject(cc)
      PROVE  InOrder'
  <2>1. UNCHANGED <<value, toClient, stored>>
    BY <1>5 DEF OnServerDisconnect, ServerDropAddObject, ServerReadRemoveObject,
                hostVars, clientVars, replicaVars
  <2>. QED  BY <2>1 DEF InOrder
<1>6. ASSUME NEW cc \in Conns, ServerReadAddObject(cc)
      PROVE  InOrder'
  <2>1. PICK name \in Names, type \in {"Init", "InitDynamic"} :
          toClient' = Send(Once({cc}), ValuePacket(type, name, value[name]))
    <3>1. /\ toHost[cc] # <<>> /\ Head(toHost[cc]).type = "AddObject"
          /\ Head(toHost[cc]) \in Requests
      BY <1>6, ServerReadsType DEF ServerReadAddObject, ServerReads
    <3>2. Head(toHost[cc]).name \in Names
      BY <3>1 DEF Requests, AddPackets, RemovePackets
    <3>. QED  BY <1>6, <3>2 DEF ServerReadAddObject
  <2>. DEFINE m == ValuePacket(type, name, value[name])
  <2>2. \A k \in Names : value[k] \in Nat
    BY DEF TypeOK, HostTypeOK
  <2>3. m \in Packets
    BY <2>2 DEF ValuePacket, Packets, ValuePackets
  <2>4. UNCHANGED <<value, stored>>
    BY <1>6 DEF ServerReadAddObject, clientVars, replicaVars
  <2>5. \A k \in Names : CarriesValue(m, k) => m.value = value[k]
    BY DEF CarriesValue, ValuePacket
  <2>6. toClient' = Send(Once({cc}), m)
    BY <2>1
  <2>. HIDE DEF m
  <2>. QED  BY <2>2, <2>3, <2>4, <2>5, <2>6, OnceType, SendOrdered
<1>. QED  BY <1>1, <1>2, <1>3, <1>4, <1>5, <1>6 DEF HostNext, OnServerRead

(* What becomes of a packet that is read: it is gone, and its values are   *)
(* stored, or not, unless the process dies of it.                          *)
LEMMA PacketIsRead ==
  ASSUME TypeOK, NEW c \in Clients, OnClientRead(c)
  PROVE  /\ c \in linked /\ toClient[c] # <<>> /\ value' = value
         /\ \/ ClientDies(c)
            \/ /\ toClient' = [toClient EXCEPT ![c] = Tail(@)]
               /\ \/ stored' = stored
                  \/ \E n \in replicas[c] :
                       /\ CarriesValue(Head(toClient[c]), n)
                       /\ stored' = [stored EXCEPT ![c][n] = Head(toClient[c]).value]
               /\ replicas' = replicas
<1>. DEFINE m == Head(toClient[c])
<1>1. CASE ReadObjectList(c) \/ ReadRemoveObject(c)
  BY <1>1 DEF ReadObjectList, ReadRemoveObject, ClientReads, hostVars
<1>2. CASE ReadInit(c) /\ ~ ClientDies(c)
  BY <1>2 DEF ReadInit, ClientReads, Initialize, CarriesValue, hostVars, replicaVars
<1>3. CASE ReadInitDynamic(c)
  BY <1>3 DEF ReadInitDynamic, ClientReads, Initialize, CarriesValue, hostVars,
              replicaVars
<1>4. CASE ReadPropertyChange(c) /\ ~ ClientDies(c)
  BY <1>4 DEF ReadPropertyChange, ClientReads, CarriesValue, hostVars
<1>5. CASE ClientDies(c) /\ (ReadInit(c) \/ ReadPropertyChange(c))
  BY <1>5 DEF ClientDies, ReadInit, ReadPropertyChange, hostVars
<1>. QED  BY <1>1, <1>2, <1>3, <1>4, <1>5 DEF OnClientRead

(* A client reads the first packet of its channel, or loses all of them. *)
LEMMA InOrderClient ==
  ASSUME TypeOK, InOrder, NEW c \in Clients, ClientNext(c)  PROVE InOrder'
<1>. DEFINE Forgets == /\ value' = value
                       /\ \A d \in Clients : toClient'[d] \in {toClient[d], <<>>}
                       /\ \A d \in Clients, n \in Names :
                            stored'[d][n] \in {stored[d][n], 0}
<1>1. toClient \in [Clients -> Seq(Packets)] /\ stored \in [Clients -> [Names -> Nat]]
  BY DEF TypeOK, WireTypeOK, ClientTypeOK
<1>2. CASE ConnectToServer(c) \/ OnShouldReconnect(c)
  <2>1. Forgets
    BY <1>1, <1>2 DEF ConnectToServer, OnShouldReconnect, hostVars, replicaVars
  <2>. QED  BY <2>1, ForgetOrdered
<1>3. CASE ClientDies(c)
  <2>1. /\ toClient' = [toClient EXCEPT ![c] = <<>>]
        /\ stored' = [stored EXCEPT ![c] = [n \in Names |-> 0]]
        /\ value' = value
    BY <1>3 DEF ClientDies, NoReplicaState, NoValue, hostVars
  <2>2. Forgets
    BY <1>1, <2>1
  <2>. QED  BY <2>2, ForgetOrdered
<1>4. ASSUME NEW n \in Names, NEW sig \in ReplicaSignatures,
             Acquire(c, n, sig)
      PROVE  InOrder'
  <2>1. /\ stored' = [stored EXCEPT ![c][n] = 0]
        /\ UNCHANGED <<value, toClient>>
    BY <1>4 DEF Acquire, NoValue, hostVars
  <2>2. Forgets
    BY <1>1, <2>1
  <2>. QED  BY <2>2, ForgetOrdered
<1>5. ASSUME NEW n \in Names, DestroyReplica(c, n)
      PROVE  InOrder'
  <2>1. /\ stored' = [stored EXCEPT ![c][n] = 0]
        /\ UNCHANGED <<value, toClient>>
    BY <1>5 DEF DestroyReplica, NoValue, hostVars
  <2>2. Forgets
    BY <1>1, <2>1
  <2>. QED  BY <2>2, ForgetOrdered
<1>6. CASE OnClientRead(c) /\ ~ ClientDies(c)
  <2>1. replicas[c] \subseteq Names
    BY DEF TypeOK, ReplicaSetsOK
  <2>. QED  BY <1>6, <2>1, PacketIsRead, ReadOrdered
<1>. QED  BY <1>2, <1>3, <1>4, <1>5, <1>6 DEF ClientNext, ClientCrash

(* Every step keeps the order. *)
LEMMA InOrderStep ==
  ASSUME TypeOK, TypeOK', InOrder, [Next]_vars  PROVE InOrder'
<1>1. CASE UNCHANGED vars
  BY <1>1 DEF vars, hostVars, wireVars, clientVars, replicaVars, InOrder
<1>. QED  BY <1>1, InOrderHost, InOrderClient DEF Next

(* No value in flight is older than one ahead of it or than the one the    *)
(* replica holds, and none is newer than the source's: Init, InitDynamic   *)
(* and changes, written by different code at different times, reach a      *)
(* replica in the order the source had them, across lost connections,      *)
(* withdrawn sources and late packets for an earlier replica of the name.  *)
THEOREM ValuesInOrder == Spec => []InOrder
<1>1. Init => InOrder
  BY OrderedEmpty DEF Init, InOrder, NoValue
<1>. QED  BY <1>1, TypeCorrect, InOrderStep, PTL DEF Spec

-----------------------------------------------------------------------------
(* The refinement *)

(* What is not alive holds nothing: the copies of LatentCopy start from    *)
(* their defaults.                                                         *)
Forgotten ==
  \A c \in Clients, n \in Names : n \notin replicas[c] => stored[c][n] = NoValue

LatentInv == InOrder /\ Forgotten

(* A change of sources that leaves the replicas alone is a change of       *)
(* LatentCopy.                                                             *)
LEMMA MapsToChange ==
  ASSUME TypeOK', \A n \in Names : value[n] <= value'[n],
         UNCHANGED <<replicas, stored>>
  PROVE  Latent!Next
<1>1. \A r \in Clients \X Names : r[2] \in Names
  OBVIOUS
<1>2. \A n \in Names : value'[n] \in Nat
  BY DEF TypeOK, HostTypeOK
<1>3. Latent!Change
  BY <1>1, <1>2 DEF Latent!Change
<1>. QED  BY <1>3 DEF Latent!Next

(* acquire is an Acquire of LatentCopy. *)
LEMMA MapsToAcquire ==
  ASSUME TypeOK, NEW c \in Clients, NEW n \in Names, n \notin replicas[c],
         replicas' = [replicas EXCEPT ![c] = @ \cup {n}],
         stored' = [stored EXCEPT ![c][n] = 0],
         value' = value
  PROVE  Latent!Next
<1>. DEFINE r == <<c, n>>
<1>1. r \in Clients \X Names /\ r[1] = c /\ r[2] = n
  OBVIOUS
<1>2. replicas \in [Clients -> SUBSET Names] /\ stored \in [Clients -> [Names -> Nat]]
  BY DEF TypeOK, ReplicaSetsOK, ClientTypeOK
<1>3. {q \in Clients \X Names : q[2] \in replicas'[q[1]]}
        = {q \in Clients \X Names : q[2] \in replicas[q[1]]} \cup {r}
  BY <1>1, <1>2
<1>4. [q \in Clients \X Names |-> stored'[q[1]][q[2]]]
        = [[q \in Clients \X Names |-> stored[q[1]][q[2]]] EXCEPT ![r] = 0]
  <2>1. \A q \in Clients \X Names :
          q[1] \in Clients /\ q[2] \in Names /\ (q = r <=> q[1] = c /\ q[2] = n)
    OBVIOUS
  <2>2. \A d \in Clients, k \in Names :
          stored'[d][k] = IF d = c /\ k = n THEN 0 ELSE stored[d][k]
    BY <1>2
  <2>3. \A q \in Clients \X Names :
          stored'[q[1]][q[2]] = IF q = r THEN 0 ELSE stored[q[1]][q[2]]
    BY <2>1, <2>2
  <2>. QED  BY <2>3
<1>5. Latent!Acquire(r)
  BY <1>1, <1>3, <1>4 DEF Latent!Acquire
<1>. QED  BY <1>1, <1>5 DEF Latent!Next

(* The end of one or all replicas of a client is a Release of              *)
(* LatentCopy.                                                             *)
LEMMA MapsToRelease ==
  ASSUME TypeOK, NEW c \in Clients, NEW S \in SUBSET replicas[c],
         replicas' = [replicas EXCEPT ![c] = @ \ S],
         \A d \in Clients, n \in Names :
           stored'[d][n] = IF d = c /\ n \in S THEN 0 ELSE stored[d][n],
         value' = value
  PROVE  Latent!Next
<1>. DEFINE R == Clients \X Names
            gone == {q \in R : q[1] = c /\ q[2] \in S}
            alive == {q \in R : q[2] \in replicas[q[1]]}
<1>1. replicas \in [Clients -> SUBSET Names]
  BY DEF TypeOK, ReplicaSetsOK
<1>2. gone \subseteq alive
  OBVIOUS
<1>3. {q \in R : q[2] \in replicas'[q[1]]} = alive \ gone
  BY <1>1
<1>4. [q \in R |-> stored'[q[1]][q[2]]]
        = [q \in R |-> IF q \in gone THEN 0
                       ELSE [p \in R |-> stored[p[1]][p[2]]][q]]
  OBVIOUS
<1>5. Latent!Release(gone)
  BY <1>2, <1>3, <1>4 DEF Latent!Release
<1>. QED  BY <1>2, <1>5 DEF Latent!Next

(* A value taken over, between the one held and the source's, is an        *)
(* Update of LatentCopy.                                                   *)
LEMMA MapsToUpdate ==
  ASSUME TypeOK, NEW c \in Clients, NEW n \in replicas[c], NEW v \in Nat,
         stored[c][n] <= v, v <= value[n],
         stored' = [stored EXCEPT ![c][n] = v],
         UNCHANGED <<value, replicas>>
  PROVE  Latent!Next
<1>. DEFINE r == <<c, n>>
<1>1. /\ n \in Names /\ r \in Clients \X Names /\ r[1] = c /\ r[2] = n
      /\ stored \in [Clients -> [Names -> Nat]] /\ value[n] \in Nat
  BY DEF TypeOK, ReplicaSetsOK, ClientTypeOK, HostTypeOK
<1>2. [q \in Clients \X Names |-> stored'[q[1]][q[2]]]
        = [[q \in Clients \X Names |-> stored[q[1]][q[2]]] EXCEPT ![r] = v]
  <2>1. \A q \in Clients \X Names :
          q[1] \in Clients /\ q[2] \in Names /\ (q = r <=> q[1] = c /\ q[2] = n)
    OBVIOUS
  <2>2. \A d \in Clients, k \in Names :
          stored'[d][k] = IF d = c /\ k = n THEN v ELSE stored[d][k]
    BY <1>1
  <2>3. \A q \in Clients \X Names :
          stored'[q[1]][q[2]] = IF q = r THEN v ELSE stored[q[1]][q[2]]
    BY <2>1, <2>2
  <2>. QED  BY <2>3
<1>3. v \in stored[c][n]..value[n]
  BY <1>1
<1>4. Latent!Update(r)
  BY <1>1, <1>2, <1>3 DEF Latent!Update
<1>. QED  BY <1>1, <1>4 DEF Latent!Next

(* Every step is a step of the abstract specification, and keeps what is   *)
(* not alive at its defaults.                                              *)
LEMMA LatentHost ==
  ASSUME TypeOK, TypeOK', LatentInv, HostNext
  PROVE  Latent!Next /\ Forgotten'
<1>1. value \in [Names -> Nat]
  BY DEF TypeOK, HostTypeOK
<1>2. /\ UNCHANGED clientVars
      /\ \/ UNCHANGED value
         \/ \E n \in Names : value' = [value EXCEPT ![n] = @ + 1]
  BY DEF HostNext, OnServerRead, EnableRemoting, DisableRemoting, SetProperty,
         NewConnection, OnServerDisconnect, ServerReadAddObject,
         ServerDropAddObject, ServerReadRemoveObject, hostVars
<1>3. \A n \in Names : value[n] <= value'[n]
  BY <1>1, <1>2
<1>. QED  BY <1>2, <1>3, MapsToChange DEF clientVars, replicaVars, LatentInv, Forgotten

(* What a client does is a step of LatentCopy, and names without a         *)
(* replica hold nothing.                                                   *)
LEMMA LatentClient ==
  ASSUME TypeOK, TypeOK', LatentInv, NEW c \in Clients, ClientNext(c)
  PROVE  Latent!Next /\ Forgotten'
<1>1. /\ replicas \in [Clients -> SUBSET Names]
      /\ stored \in [Clients -> [Names -> Nat]]
      /\ value \in [Names -> Nat]
  BY DEF TypeOK, ReplicaSetsOK, ClientTypeOK, HostTypeOK
<1>2. CASE UNCHANGED <<value, replicas, stored>>
  BY <1>1, <1>2, MapsToChange DEF LatentInv, Forgotten
<1>3. CASE ClientDies(c)
  <2>1. /\ replicas' = [replicas EXCEPT ![c] = {}]
        /\ stored' = [stored EXCEPT ![c] = [n \in Names |-> 0]]
        /\ value' = value
    BY <1>3 DEF ClientDies, NoReplicaState, NoValue, hostVars
  <2>2. replicas' = [replicas EXCEPT ![c] = @ \ replicas[c]]
    BY <2>1
  <2>3. \A d \in Clients, n \in Names :
          stored'[d][n] = IF d = c /\ n \in replicas[c] THEN 0 ELSE stored[d][n]
    BY <1>1, <2>1 DEF LatentInv, Forgotten, NoValue
  <2>4. Latent!Next
    BY <2>1, <2>2, <2>3, MapsToRelease
  <2>. QED  BY <1>1, <2>1, <2>4 DEF LatentInv, Forgotten, NoValue
<1>4. ASSUME NEW n \in Names, NEW sig \in ReplicaSignatures, Acquire(c, n, sig)
      PROVE  Latent!Next /\ Forgotten'
  <2>1. /\ n \notin replicas[c]
        /\ replicas' = [replicas EXCEPT ![c] = @ \cup {n}]
        /\ stored' = [stored EXCEPT ![c][n] = 0]
        /\ value' = value
    BY <1>4 DEF Acquire, NoValue, hostVars
  <2>2. Forgotten'
    BY <1>1, <2>1 DEF LatentInv, Forgotten, NoValue
  <2>. QED  BY <2>1, <2>2, MapsToAcquire
<1>5. ASSUME NEW n \in Names, DestroyReplica(c, n)
      PROVE  Latent!Next /\ Forgotten'
  <2>1. /\ {n} \in SUBSET replicas[c]
        /\ replicas' = [replicas EXCEPT ![c] = @ \ {n}]
        /\ stored' = [stored EXCEPT ![c][n] = 0]
        /\ value' = value
    BY <1>5 DEF DestroyReplica, NoValue, hostVars
  <2>2. \A d \in Clients, k \in Names :
          stored'[d][k] = IF d = c /\ k \in {n} THEN 0 ELSE stored[d][k]
    BY <1>1, <2>1
  <2>3. Forgotten'
    BY <1>1, <2>1 DEF LatentInv, Forgotten, NoValue
  <2>. QED  BY <2>1, <2>2, <2>3, MapsToRelease
<1>6. CASE OnClientRead(c) /\ ~ ClientDies(c) /\ stored' # stored
  <2>. DEFINE m == Head(toClient[c])
  <2>1. /\ c \in linked /\ toClient[c] # <<>>
        /\ UNCHANGED <<value, replicas>>
    BY <1>6, PacketIsRead
  <2>2. PICK n \in replicas[c] : CarriesValue(m, n)
                                 /\ stored' = [stored EXCEPT ![c][n] = m.value]
    BY <1>6, PacketIsRead
  <2>3. n \in Names /\ m \in Packets
    BY <1>1, <2>1, ClientReadsType
  <2>4. m.value \in Nat
    BY <2>2, <2>3, ValueType
  <2>5. stored[c][n] <= m.value /\ m.value <= value[n]
    <3>1. /\ Ordered(toClient[c], n, stored[c][n], value[n])
          /\ toClient[c] \in Seq(Packets)
          /\ stored[c][n] \in Nat /\ value[n] \in Nat
      BY <1>1, <2>3 DEF LatentInv, InOrder, TypeOK, WireTypeOK
    <3>. QED  BY <2>1, <2>2, <2>3, <3>1, OrderedTail
  <2>6. Latent!Next
    BY <2>1, <2>2, <2>4, <2>5, MapsToUpdate
  <2>7. Forgotten'
    BY <1>1, <2>1, <2>2 DEF LatentInv, Forgotten
  <2>. QED  BY <2>6, <2>7
<1>7. CASE OnClientRead(c) /\ ~ ClientDies(c) /\ stored' = stored
  BY <1>2, <1>7, PacketIsRead
<1>8. CASE ConnectToServer(c) \/ OnShouldReconnect(c)
  BY <1>2, <1>8 DEF ConnectToServer, OnShouldReconnect, hostVars, replicaVars
<1>. QED  BY <1>3, <1>4, <1>5, <1>6, <1>7, <1>8 DEF ClientNext, ClientCrash

(* What the packets, connections and processes give an application is a    *)
(* latent copy of each source: LatentCopy is implemented under the mapping *)
(* of Latent, for any number of clients, names, connections and changes.   *)
THEOREM LatentCopies == Spec => ImplementsLatentCopy
<1>. DEFINE barred == <<[r \in Clients \X Names |-> value[r[2]]],
                        {r \in Clients \X Names : r[2] \in replicas[r[1]]},
                        [r \in Clients \X Names |-> stored[r[1]][r[2]]]>>
<1>1. Init => Latent!Init /\ LatentInv
  <2>1. Init => InOrder /\ Forgotten
    BY OrderedEmpty DEF Init, InOrder, Forgotten, NoValue
  <2>2. Init => Latent!Init
    BY DEF Init, Latent!Init, NoValue
  <2>. QED  BY <2>1, <2>2 DEF LatentInv
<1>2. TypeOK /\ TypeOK' /\ LatentInv /\ [Next]_vars
      => LatentInv' /\ [Latent!Next]_barred
  <2>1. SUFFICES ASSUME TypeOK, TypeOK', LatentInv, [Next]_vars
                 PROVE  LatentInv' /\ [Latent!Next]_barred
    OBVIOUS
  <2>2. InOrder'
    BY <2>1, InOrderStep DEF LatentInv
  <2>3. CASE Next
    BY <2>1, <2>2, <2>3, LatentHost, LatentClient DEF Next, LatentInv
  <2>4. CASE UNCHANGED vars
    BY <2>1, <2>2, <2>4
    DEF vars, hostVars, clientVars, replicaVars, LatentInv, Forgotten
  <2>. QED  BY <2>1, <2>3, <2>4
<1>. QED  BY <1>1, <1>2, TypeCorrect, PTL DEF Spec, ImplementsLatentCopy, Latent!Spec

-----------------------------------------------------------------------------
(* The last values in a sequence of packets *)

Carrying(s, n) == {i \in DOMAIN s : CarriesValue(s[i], n)}

Newest(s, n, v) ==
  \E last \in Carrying(s, n) :
    /\ \A i \in Carrying(s, n) : i <= last
    /\ s[last].value = v

(* The packets of two sequences in a row. *)
LEMMA CarryingConcat ==
  ASSUME NEW s \in Seq(Packets), NEW t \in Seq(Packets)
  PROVE  /\ DOMAIN s = 1..Len(s) /\ Len(s) \in Nat
         /\ DOMAIN t = 1..Len(t) /\ Len(t) \in Nat
         /\ DOMAIN (s \o t) = 1..Len(s) + Len(t)
         /\ \A i \in DOMAIN s : (s \o t)[i] = s[i]
         /\ \A i \in Len(s) + 1..Len(s) + Len(t) :
              i - Len(s) \in DOMAIN t /\ (s \o t)[i] = t[i - Len(s)]
<1>1. /\ s \o t \in Seq(Packets) /\ Len(s \o t) = Len(s) + Len(t)
      /\ \A i \in 1..Len(s) + Len(t) :
           (s \o t)[i] = IF i <= Len(s) THEN s[i] ELSE t[i - Len(s)]
  BY ConcatProperties
<1>2. /\ DOMAIN s = 1..Len(s) /\ Len(s) \in Nat
      /\ DOMAIN t = 1..Len(t) /\ Len(t) \in Nat
  BY LenProperties
<1>3. DOMAIN (s \o t) = 1..Len(s) + Len(t)
  BY <1>1, LenProperties
<1>. QED  BY <1>1, <1>2, <1>3

(* What is written at the end becomes the last, if it carries values.      *)
LEMMA NewestSent ==
  ASSUME NEW s \in Seq(Packets), NEW t \in Seq(Packets), NEW n, NEW v, t # <<>>,
         \A i \in DOMAIN t : CarriesValue(t[i], n) /\ t[i].value = v
  PROVE  Newest(s \o t, n, v)
<1>. DEFINE u == s \o t
            last == Len(s) + Len(t)
<1>1. Len(t) # 0
  BY EmptySeq
<1>2. last \in Len(s) + 1..last /\ DOMAIN u = 1..last /\ last \in DOMAIN u
  BY <1>1, CarryingConcat
<1>3. CarriesValue(u[last], n) /\ u[last].value = v
  BY <1>2, CarryingConcat
<1>. HIDE DEF u
<1>4. last \in Carrying(u, n) /\ \A i \in Carrying(u, n) : i <= last
  BY <1>2, <1>3 DEF Carrying
<1>. QED  BY <1>3, <1>4 DEF Newest, u

(* If it does not, nothing changes. *)
LEMMA CarryingKept ==
  ASSUME NEW s \in Seq(Packets), NEW t \in Seq(Packets), NEW n,
         \A i \in DOMAIN t : ~ CarriesValue(t[i], n)
  PROVE  /\ Carrying(s \o t, n) = Carrying(s, n)
         /\ \A j \in Carrying(s, n) : (s \o t)[j] = s[j]
<1>. DEFINE u == s \o t
<1>1. /\ DOMAIN s = 1..Len(s) /\ Len(s) \in Nat /\ Len(t) \in Nat
      /\ DOMAIN u = 1..Len(s) + Len(t)
      /\ \A i \in DOMAIN s : u[i] = s[i]
  BY CarryingConcat
<1>2. \A i \in Len(s) + 1..Len(s) + Len(t) : ~ CarriesValue(u[i], n)
  BY CarryingConcat
<1>. HIDE DEF u
<1>3. Carrying(u, n) = Carrying(s, n) /\ \A i \in Carrying(s, n) : u[i] = s[i]
  BY <1>1, <1>2 DEF Carrying
<1>. QED  BY <1>3 DEF u

(* The last values stay the last until they are read.                      *)
LEMMA NewestTail ==
  ASSUME NEW s \in Seq(Packets), s # <<>>, NEW n, NEW v
  PROVE  /\ Newest(s, n, v) =>
              \/ Newest(Tail(s), n, v)
              \/ /\ CarriesValue(Head(s), n) /\ Head(s).value = v
                 /\ Carrying(Tail(s), n) = {}
         /\ Carrying(s, n) = {} =>
              ~ CarriesValue(Head(s), n) /\ Carrying(Tail(s), n) = {}
<1>1. /\ Len(s) \in Nat \ {0} /\ DOMAIN s = 1..Len(s) /\ Head(s) = s[1]
      /\ Tail(s) \in Seq(Packets) /\ Len(Tail(s)) = Len(s) - 1
      /\ \A i \in 1..Len(Tail(s)) : Tail(s)[i] = s[i + 1]
  BY HeadTailProperties, EmptySeq, LenProperties
<1>2. DOMAIN Tail(s) = 1..Len(s) - 1
  BY <1>1, LenProperties
<1>3. \A i \in Carrying(Tail(s), n) : i + 1 \in Carrying(s, n)
  BY <1>1, <1>2 DEF Carrying
<1>4. ASSUME Carrying(s, n) = {}
      PROVE  ~ CarriesValue(Head(s), n) /\ Carrying(Tail(s), n) = {}
  BY <1>1, <1>3, <1>4 DEF Carrying
<1>5. ASSUME NEW last \in Carrying(s, n), \A i \in Carrying(s, n) : i <= last,
             s[last].value = v
      PROVE  \/ Newest(Tail(s), n, v)
             \/ /\ CarriesValue(Head(s), n) /\ Head(s).value = v
                /\ Carrying(Tail(s), n) = {}
  <2>1. CASE last = 1
    <3>1. Carrying(Tail(s), n) = {}
      BY <1>2, <1>3, <1>5, <2>1 DEF Carrying
    <3>. QED  BY <1>1, <1>5, <2>1, <3>1 DEF Carrying
  <2>2. CASE last # 1
    <3>1. last - 1 \in Carrying(Tail(s), n) /\ Tail(s)[last - 1].value = v
      BY <1>1, <1>2, <1>5, <2>2 DEF Carrying
    <3>2. \A i \in Carrying(Tail(s), n) : i <= last - 1
      BY <1>1, <1>2, <1>3, <1>5 DEF Carrying
    <3>. QED  BY <3>1, <3>2 DEF Newest
  <2>. QED  BY <2>1, <2>2
<1>. QED  BY <1>4, <1>5 DEF Newest

-----------------------------------------------------------------------------
(* The invariant *)

(* No end of a connection lives that the client has not made yet. *)
NoFuture == \A cc \in backlog \cup connections : cc[2] <= epoch[cc[1]]

(* Coherent, for one replica. *)
HasNewest(c, n) == n \in replicas[c] /\ state[c][n] = Valid => stored[c][n] = value[n]

CoherentAt(c, n) ==
  listeners[n][Current(c)] > 0 =>
    \/ Newest(toClient[c], n, value[n])
    \/ Carrying(toClient[c], n) = {} /\ HasNewest(c, n)

CoherentInv == NoFuture /\ \A c \in linked, n \in Names : CoherentAt(c, n)

(* The invariant of each replica gives Coherent. *)
LEMMA InvIsCoherent == CoherentInv => Coherent
<1>. SUFFICES ASSUME CoherentInv, NEW c \in linked, NEW n \in Names,
                     listeners[n][Current(c)] > 0
              PROVE  IF ValuesInFlight(c, n) = {}
                     THEN HasNewest(c, n)
                     ELSE \E last \in ValuesInFlight(c, n) :
                            /\ \A i \in ValuesInFlight(c, n) : i <= last
                            /\ toClient[c][last].value = value[n]
  BY DEF Coherent, HasNewest
<1>1. Carrying(toClient[c], n) = ValuesInFlight(c, n)
  BY DEF Carrying, ValuesInFlight
<1>2. CoherentAt(c, n)
  BY DEF CoherentInv
<1>. QED  BY <1>1, <1>2 DEF CoherentAt, Newest

-----------------------------------------------------------------------------
(* The steps *)

(* No connection is known to the host before the client has made it. *)
LEMMA NoFutureStep ==
  ASSUME TypeOK, NoFuture, [Next]_vars  PROVE NoFuture'
<1>. USE DEF NoFuture, TypeOK, WireTypeOK, HostTypeOK
<1>1. ASSUME NEW n \in Names,
             \/ \E sig \in SourceSignatures : EnableRemoting(n, sig)
             \/ DisableRemoting(n) \/ SetProperty(n)
      PROVE  UNCHANGED <<backlog, connections, epoch>>
  BY <1>1 DEF EnableRemoting, DisableRemoting, SetProperty, clientVars
<1>2. ASSUME NEW cc \in Conns, OnServerRead(cc)
      PROVE  UNCHANGED <<backlog, connections, epoch>>
  BY <1>2 DEF OnServerRead, ServerReadAddObject, ServerDropAddObject,
              ServerReadRemoveObject, hostVars, clientVars
<1>3. ASSUME NEW cc \in Conns, NewConnection(cc) \/ OnServerDisconnect(cc)
      PROVE  /\ backlog' \cup connections' \subseteq backlog \cup connections
             /\ epoch' = epoch
  BY <1>3 DEF NewConnection, OnServerDisconnect, clientVars
<1>4. ASSUME NEW c \in Clients, ConnectToServer(c)
      PROVE  NoFuture'
  <2>1. /\ epoch' = [epoch EXCEPT ![c] = @ + 1]
        /\ backlog' = backlog \cup {<<c, epoch[c] + 1>>}
        /\ connections' = connections
    BY <1>4 DEF ConnectToServer, hostVars
  <2>2. \A d \in Clients : epoch[d] \in Nat /\ epoch[d] <= epoch'[d]
    BY <2>1, BoundsAreNaturals
  <2>3. \A cc \in backlog \cup connections : cc[1] \in Clients /\ cc[2] \in Nat
    BY DEF Conns
  <2>4. epoch'[c] = epoch[c] + 1
    BY <2>1
  <2>. QED  BY <2>1, <2>2, <2>3, <2>4
<1>5. ASSUME NEW c \in Clients, ClientNext(c), ~ ConnectToServer(c)
      PROVE  UNCHANGED <<backlog, connections, epoch>>
  BY <1>5, ClientLeavesHost
  DEF ClientNext, OnClientRead, OnShouldReconnect, ClientCrash, ClientDies, Acquire,
      DestroyReplica, ReadObjectList, ReadInit, ReadInitDynamic,
      ReadPropertyChange, ReadRemoveObject, hostVars
<1>6. CASE UNCHANGED vars
  BY <1>6 DEF vars, hostVars, wireVars, clientVars
<1>. QED  BY <1>1, <1>2, <1>3, <1>4, <1>5, <1>6 DEF Next, HostNext

(* What the host sends keeps the listeners up to date: those that are new  *)
(* are sent the values, those that were there every change.                *)
LEMMA SendCoherent ==
  ASSUME TypeOK, NEW times \in [Conns -> Nat], NEW m \in Packets,
         \A c \in linked, n \in Names : CoherentAt(c, n),
         toClient' = Send(times, m), UNCHANGED clientVars,
         \A n \in Names, cc \in Conns : listeners'[n][cc] > 0 =>
           \/ CarriesValue(m, n) /\ m.value = value'[n] /\ times[cc] > 0
           \/ /\ listeners[n][cc] > 0 /\ value'[n] = value[n]
              /\ ~ CarriesValue(m, n) \/ times[cc] = 0
  PROVE  \A c \in linked', n \in Names : CoherentAt(c, n)'
<1>. SUFFICES ASSUME NEW c \in linked, NEW n \in Names,
                     listeners'[n][Current(c)] > 0
              PROVE  \/ Newest(toClient'[c], n, value'[n])
                     \/ Carrying(toClient'[c], n) = {} /\ HasNewest(c, n)'
  BY DEF CoherentAt, Current, clientVars
<1>. DEFINE cc == Current(c)
<1>1. cc \in Conns /\ c \in Clients /\ toClient[c] \in Seq(Packets) /\ times[cc] \in Nat
  BY DEF TypeOK, WireTypeOK, Current, Conns
<1>. DEFINE copies == [i \in 1..times[cc] |-> m]
<1>2. toClient'[c] = toClient[c] \o copies
  BY <1>1 DEF Send
<1>3. /\ copies \in Seq(Packets)
      /\ DOMAIN copies = 1..times[cc]
      /\ \A i \in DOMAIN copies : copies[i] = m
  BY <1>1
<1>. HIDE DEF copies
<1>4. CASE CarriesValue(m, n) /\ m.value = value'[n] /\ times[cc] > 0
  <2>1. copies # <<>>
    BY <1>1, <1>3, <1>4
  <2>2. Newest(toClient'[c], n, value'[n])
    BY <1>1, <1>2, <1>3, <1>4, <2>1, NewestSent
  <2>. QED  BY <2>2
<1>5. CASE /\ listeners[n][cc] > 0 /\ value'[n] = value[n]
           /\ ~ CarriesValue(m, n) \/ times[cc] = 0
  <2>1. CoherentAt(c, n) /\ listeners[n][Current(c)] > 0
    BY <1>5
  <2>2. HasNewest(c, n)' = HasNewest(c, n)
    BY <1>5 DEF HasNewest, clientVars, replicaVars
  <2>3. \A i \in DOMAIN copies : ~ CarriesValue(copies[i], n)
    BY <1>1, <1>3, <1>5
  <2>4. /\ Carrying(toClient'[c], n) = Carrying(toClient[c], n)
        /\ \A j \in Carrying(toClient[c], n) : toClient'[c][j] = toClient[c][j]
    <3>. DEFINE old == toClient[c]
    <3>1. old \in Seq(Packets)
      BY <1>1
    <3>. HIDE DEF old
    <3>2. /\ Carrying(old \o copies, n) = Carrying(old, n)
          /\ \A j \in Carrying(old, n) : (old \o copies)[j] = old[j]
      BY ONLY <1>3, <2>3, <3>1, CarryingKept
    <3>. QED  BY <1>2, <3>2 DEF old
  <2>5. Newest(toClient[c], n, value[n]) => Newest(toClient'[c], n, value'[n])
    BY <1>5, <2>4 DEF Newest
  <2>. QED  BY <2>1, <2>2, <2>4, <2>5 DEF CoherentAt
<1>. QED  BY <1>1, <1>4, <1>5

(* Who is no longer listed need not be told. *)
LEMMA QuietCoherent ==
  ASSUME \A c \in linked, n \in Names : CoherentAt(c, n), TypeOK,
         UNCHANGED <<toClient, value, clientVars>>,
         \A n \in Names, cc \in Conns : listeners'[n][cc] > 0 => listeners[n][cc] > 0
  PROVE  \A c \in linked', n \in Names : CoherentAt(c, n)'
<1>. SUFFICES ASSUME NEW c \in linked, NEW n \in Names
              PROVE  CoherentAt(c, n)'
  BY DEF clientVars
<1>1. Current(c) \in Conns /\ Current(c)' = Current(c)
  BY DEF TypeOK, WireTypeOK, Current, Conns, clientVars
<1>2. CoherentAt(c, n) /\ HasNewest(c, n)' = HasNewest(c, n)
  BY DEF HasNewest, clientVars, replicaVars
<1>. QED  BY <1>1, <1>2 DEF CoherentAt

(* A packet that is read takes its values to the replica.                  *)
LEMMA ReadCoherent ==
  ASSUME TypeOK, \A c \in linked, n \in Names : CoherentAt(c, n),
         NEW c \in linked, toClient[c] # <<>>,
         toClient' = [toClient EXCEPT ![c] = Tail(@)],
         UNCHANGED <<value, listeners, linked, epoch>>,
         \A d \in linked \ {c}, n \in Names : HasNewest(d, n)' = HasNewest(d, n),
         \A n \in Names : n \in replicas'[c] /\ state'[c][n] = Valid =>
           \/ /\ CarriesValue(Head(toClient[c]), n)
              /\ stored'[c][n] = Head(toClient[c]).value
           \/ /\ ~ CarriesValue(Head(toClient[c]), n)
              /\ n \in replicas[c] /\ state[c][n] = Valid
              /\ stored'[c][n] = stored[c][n]
  PROVE  \A d \in linked', n \in Names : CoherentAt(d, n)'
<1>. SUFFICES ASSUME NEW d \in linked, NEW n \in Names,
                     listeners[n][Current(d)] > 0
              PROVE  \/ Newest(toClient'[d], n, value[n])
                     \/ Carrying(toClient'[d], n) = {} /\ HasNewest(d, n)'
  BY DEF CoherentAt, Current
<1>1. \/ Newest(toClient[d], n, value[n])
      \/ Carrying(toClient[d], n) = {} /\ HasNewest(d, n)
  BY DEF CoherentAt
<1>2. toClient \in [Clients -> Seq(Packets)] /\ c \in Clients /\ d \in Clients
  BY DEF TypeOK, WireTypeOK
<1>3. CASE d # c
  <2>1. toClient'[d] = toClient[d] /\ HasNewest(d, n)' = HasNewest(d, n)
    BY <1>2, <1>3
  <2>. QED  BY <1>1, <2>1
<1>4. CASE d = c
  <2>. DEFINE s == toClient[c]
              v == value[n]
  <2>1. toClient'[d] = Tail(s) /\ s \in Seq(Packets) /\ s # <<>>
    BY <1>2, <1>4
  <2>2. \/ Newest(s, n, v)
        \/ Carrying(s, n) = {} /\ HasNewest(c, n)
    BY <1>1, <1>4
  <2>3. n \in replicas'[c] /\ state'[c][n] = Valid =>
           \/ CarriesValue(Head(s), n) /\ stored'[c][n] = Head(s).value
           \/ /\ ~ CarriesValue(Head(s), n)
              /\ n \in replicas[c] /\ state[c][n] = Valid
              /\ stored'[c][n] = stored[c][n]
    OBVIOUS
  <2>4. HasNewest(c, n)' <=>
          (n \in replicas'[c] /\ state'[c][n] = Valid => stored'[c][n] = v)
    BY DEF HasNewest
  <2>5. HasNewest(c, n) <=>
          (n \in replicas[c] /\ state[c][n] = Valid => stored[c][n] = v)
    BY DEF HasNewest
  <2>. HIDE DEF s, v
  <2>6. CASE Newest(s, n, v)
    <3>1. \/ Newest(Tail(s), n, v)
          \/ /\ CarriesValue(Head(s), n) /\ Head(s).value = v
             /\ Carrying(Tail(s), n) = {}
      BY ONLY <2>1, <2>6, NewestTail
    <3>. QED  BY <1>4, <2>1, <2>3, <2>4, <3>1 DEF v
  <2>7. CASE Carrying(s, n) = {} /\ HasNewest(c, n)
    <3>1. ~ CarriesValue(Head(s), n) /\ Carrying(Tail(s), n) = {}
      BY ONLY <2>1, <2>7, NewestTail
    <3>. QED  BY <1>4, <2>1, <2>3, <2>4, <2>5, <2>7, <3>1
  <2>. QED  BY <2>2, <2>6, <2>7
<1>. QED  BY <1>3, <1>4

(* Who forgets what it has read says Valid of nothing new, and who is      *)
(* newly connected is not listed.                                          *)
LEMMA ForgetCoherent ==
  ASSUME TypeOK, \A c \in linked, n \in Names : CoherentAt(c, n),
         UNCHANGED <<value, listeners>>,
         \A c \in linked' :
           \/ /\ c \in linked /\ epoch'[c] = epoch[c] /\ toClient'[c] = toClient[c]
              /\ \A n \in Names : n \in replicas'[c] /\ state'[c][n] = Valid =>
                   /\ n \in replicas[c] /\ state[c][n] = Valid
                   /\ stored'[c][n] = stored[c][n]
           \/ \A n \in Names : ~ (listeners[n][<<c, epoch'[c]>>] > 0)
  PROVE  \A c \in linked', n \in Names : CoherentAt(c, n)'
<1>. SUFFICES ASSUME NEW c \in linked', NEW n \in Names,
                     listeners[n][<<c, epoch'[c]>>] > 0
              PROVE  \/ Newest(toClient'[c], n, value[n])
                     \/ Carrying(toClient'[c], n) = {} /\ HasNewest(c, n)'
  BY DEF CoherentAt, Current
<1>1. /\ c \in linked /\ epoch'[c] = epoch[c] /\ toClient'[c] = toClient[c]
      /\ n \in replicas'[c] /\ state'[c][n] = Valid =>
           /\ n \in replicas[c] /\ state[c][n] = Valid
           /\ stored'[c][n] = stored[c][n]
  OBVIOUS
<1>2. \/ Newest(toClient[c], n, value[n])
      \/ Carrying(toClient[c], n) = {} /\ HasNewest(c, n)
  BY <1>1 DEF CoherentAt, Current
<1>. QED  BY <1>1, <1>2 DEF HasNewest

(* The host tells its listeners what it changes. *)
LEMMA CoherentHost ==
  ASSUME TypeOK, TypeOK', \A c \in linked, n \in Names : CoherentAt(c, n), HostNext
  PROVE  \A c \in linked', n \in Names : CoherentAt(c, n)'
<1>. DEFINE Goal == \A c \in linked', n \in Names : CoherentAt(c, n)'
<1>0. /\ value \in [Names -> Nat]
      /\ listeners \in [Names -> [Conns -> Nat]]
      /\ listeners' \in [Names -> [Conns -> Nat]]
  BY DEF TypeOK, HostTypeOK
<1>1. ASSUME NEW n \in Names, NEW sig \in SourceSignatures, EnableRemoting(n, sig)
      PROVE  Goal
  <2>. DEFINE m == ObjectList([EmptyTable EXCEPT ![n] = sig])
  <2>1. m \in Packets
    BY DEF ObjectList, Packets, ListPackets, EmptyTable, ObjectTable
  <2>2. toClient' = Send(Once(connections), m)
        /\ UNCHANGED <<value, listeners, clientVars>>
    BY <1>1 DEF EnableRemoting
  <2>3. \A k \in Names : ~ CarriesValue(m, k)
    BY DEF CarriesValue, ObjectList
  <2>. HIDE DEF m
  <2>. QED  BY <2>1, <2>2, <2>3, OnceType, SendCoherent
<1>2. ASSUME NEW n \in Names, DisableRemoting(n)
      PROVE  Goal
  <2>1. RemoveObject(n) \in Packets /\ listeners[n] \in [Conns -> Nat]
    BY <1>0 DEF RemoveObject, Packets, RemovePackets
  <2>2. /\ toClient' = Send(listeners[n], RemoveObject(n))
        /\ UNCHANGED <<value, clientVars>>
        /\ listeners' = [listeners EXCEPT ![n] = NoListeners]
    BY <1>2 DEF DisableRemoting
  <2>3. \A k \in Names, cc \in Conns : listeners'[k][cc] > 0 => listeners[k][cc] > 0
    BY <1>0, <2>2 DEF NoListeners
  <2>4. \A k \in Names : ~ CarriesValue(RemoveObject(n), k)
    BY DEF CarriesValue, RemoveObject
  <2>. QED  BY <2>1, <2>2, <2>3, <2>4, SendCoherent
<1>3. ASSUME NEW n \in Names, SetProperty(n)
      PROVE  Goal
  <2>. DEFINE m == ValuePacket("PropertyChange", n, value[n] + 1)
  <2>1. m \in Packets /\ listeners[n] \in [Conns -> Nat]
    BY <1>0 DEF ValuePacket, Packets, ValuePackets
  <2>2. /\ toClient' = Send(listeners[n], m)
        /\ UNCHANGED <<listeners, clientVars>>
        /\ value' = [value EXCEPT ![n] = @ + 1]
    BY <1>3 DEF SetProperty
  <2>3. /\ CarriesValue(m, n) /\ m.value = value'[n]
        /\ \A k \in Names \ {n} : ~ CarriesValue(m, k) /\ value'[k] = value[k]
    BY <1>0, <2>2 DEF CarriesValue, ValuePacket
  <2>. HIDE DEF m
  <2>4. \A k \in Names, cc \in Conns : listeners'[k][cc] > 0 =>
          \/ CarriesValue(m, k) /\ m.value = value'[k] /\ listeners[n][cc] > 0
          \/ /\ listeners[k][cc] > 0 /\ value'[k] = value[k]
             /\ ~ CarriesValue(m, k) \/ listeners[n][cc] = 0
    BY <2>2, <2>3
  <2>. QED  BY <2>1, <2>2, <2>4, SendCoherent
<1>4. ASSUME NEW cc \in Conns, NewConnection(cc)
      PROVE  Goal
  <2>1. ObjectList(sourceRoots) \in Packets
    BY DEF ObjectList, Packets, ListPackets, TypeOK, HostTypeOK
  <2>2. /\ toClient' = Send(Once({cc}), ObjectList(sourceRoots))
        /\ UNCHANGED <<value, listeners, clientVars>>
    BY <1>4 DEF NewConnection
  <2>3. \A k \in Names : ~ CarriesValue(ObjectList(sourceRoots), k)
    BY DEF CarriesValue, ObjectList
  <2>. QED  BY <2>1, <2>2, <2>3, OnceType, SendCoherent
<1>5. ASSUME NEW cc \in Conns,
             \/ OnServerDisconnect(cc)
             \/ ServerDropAddObject(cc)
             \/ ServerReadRemoveObject(cc)
      PROVE  Goal
  <2>1. UNCHANGED <<value, toClient, clientVars>>
    BY <1>5 DEF OnServerDisconnect, ServerDropAddObject, ServerReadRemoveObject,
                hostVars
  <2>2. \A k \in Names, d \in Conns : listeners'[k][d] \in {0, listeners[k][d]}
    <3>1. CASE OnServerDisconnect(cc)
      BY <1>0, <3>1 DEF OnServerDisconnect
    <3>2. CASE ServerDropAddObject(cc)
      BY <3>2 DEF ServerDropAddObject, hostVars
    <3>3. CASE ServerReadRemoveObject(cc)
      <4>1. PICK n : \/ listeners' = listeners
                     \/ listeners' = [listeners EXCEPT ![n][cc] = 0]
        BY <3>3 DEF ServerReadRemoveObject
      <4>. QED  BY <1>0, <4>1
    <3>. QED  BY <1>5, <3>1, <3>2, <3>3
  <2>3. \A k \in Names, d \in Conns : listeners'[k][d] > 0 => listeners[k][d] > 0
    BY <2>2
  <2>. QED  BY <2>1, <2>3, QuietCoherent
<1>6. ASSUME NEW cc \in Conns, ServerReadAddObject(cc)
      PROVE  Goal
  <2>1. PICK name \in Names, type \in {"Init", "InitDynamic"} :
          /\ toClient' = Send(Once({cc}), ValuePacket(type, name, value[name]))
          /\ listeners' = [listeners EXCEPT ![name][cc] = @ + 1]
    <3>1. /\ toHost[cc] # <<>> /\ Head(toHost[cc]).type = "AddObject"
          /\ Head(toHost[cc]) \in Requests
      BY <1>6, ServerReadsType DEF ServerReadAddObject, ServerReads
    <3>2. Head(toHost[cc]).name \in Names
      BY <3>1 DEF Requests, AddPackets, RemovePackets
    <3>. QED  BY <1>6, <3>2 DEF ServerReadAddObject
  <2>. DEFINE m == ValuePacket(type, name, value[name])
              times == Once({cc})
  <2>2. m \in Packets
    BY <1>0 DEF ValuePacket, Packets, ValuePackets
  <2>3. toClient' = Send(times, m) /\ UNCHANGED <<value, clientVars>>
    BY <1>6, <2>1 DEF ServerReadAddObject
  <2>4. /\ CarriesValue(m, name) /\ m.value = value[name]
        /\ \A k \in Names \ {name} : ~ CarriesValue(m, k)
    BY DEF CarriesValue, ValuePacket
  <2>5. times \in [Conns -> Nat] /\ times[cc] = 1
        /\ \A d \in Conns \ {cc} : times[d] = 0
    BY DEF Once
  <2>6. \A k \in Names, d \in Conns :
          k # name \/ d # cc => listeners'[k][d] = listeners[k][d]
    BY <1>0, <2>1
  <2>. HIDE DEF m, times
  <2>7. \A k \in Names, d \in Conns : listeners'[k][d] > 0 =>
          \/ CarriesValue(m, k) /\ m.value = value'[k] /\ times[d] > 0
          \/ /\ listeners[k][d] > 0 /\ value'[k] = value[k]
             /\ ~ CarriesValue(m, k) \/ times[d] = 0
    BY <2>3, <2>4, <2>5, <2>6
  <2>. QED  BY <2>2, <2>3, <2>5, <2>7, SendCoherent
<1>. QED  BY <1>1, <1>2, <1>3, <1>4, <1>5, <1>6 DEF HostNext, OnServerRead

(* What a packet does to the replicas that are Valid after it. *)
LEMMA ReadMakesValid ==
  ASSUME TypeOK, NEW c \in Clients, OnClientRead(c), ~ ClientDies(c)
  PROVE  /\ UNCHANGED <<value, listeners, linked, epoch>>
         /\ \A d \in linked \ {c}, n \in Names : HasNewest(d, n)' = HasNewest(d, n)
         /\ \A n \in Names : n \in replicas'[c] /\ state'[c][n] = Valid =>
              \/ /\ CarriesValue(Head(toClient[c]), n)
                 /\ stored'[c][n] = Head(toClient[c]).value
              \/ /\ ~ CarriesValue(Head(toClient[c]), n)
                 /\ n \in replicas[c] /\ state[c][n] = Valid
                 /\ stored'[c][n] = stored[c][n]
<1>. DEFINE m == Head(toClient[c])
<1>0. /\ state \in [Clients -> [Names -> Uninitialized..SignatureMismatch]]
      /\ stored \in [Clients -> [Names -> Nat]]
      /\ linked \subseteq Clients
  BY DEF TypeOK, ClientTypeOK, WireTypeOK
<1>1. CASE ReadObjectList(c)
  <2>1. /\ \A n \in Names : ~ CarriesValue(m, n)
        /\ UNCHANGED <<value, listeners, linked, epoch, replicas, stored>>
    BY <1>1 DEF ReadObjectList, ClientReads, CarriesValue, hostVars
  <2>2. PICK S : state' = [state EXCEPT ![c] = [n \in Names |->
                    IF n \in S THEN SetState(@[n], SignatureMismatch) ELSE @[n]]]
    BY <1>1 DEF ReadObjectList
  <2>3. \A n \in Names : state'[c][n] \in {state[c][n], SignatureMismatch}
    BY <1>0, <2>2, SetStateType
  <2>4. \A d \in Clients \ {c} : state'[d] = state[d]
    BY <1>0, <2>2
  <2>. QED  BY <1>0, <2>1, <2>3, <2>4 DEF HasNewest, Valid, SignatureMismatch
<1>2. CASE ReadRemoveObject(c)
  <2>1. /\ \A n \in Names : ~ CarriesValue(m, n)
        /\ UNCHANGED <<value, listeners, linked, epoch, replicas, stored>>
    BY <1>2 DEF ReadRemoveObject, ClientReads, CarriesValue, hostVars
  <2>2. PICK k : \/ state' = state
                 \/ state' = [state EXCEPT ![c][k] = SetState(@, Suspect)]
    BY <1>2 DEF ReadRemoveObject
  <2>3. \A n \in Names : state'[c][n] \in {state[c][n], Suspect}
    BY <1>0, <2>2, SetStateType
  <2>4. \A d \in Clients \ {c} : state'[d] = state[d]
    BY <1>0, <2>2
  <2>. QED  BY <1>0, <2>1, <2>3, <2>4 DEF HasNewest, Valid, Suspect
<1>3. CASE (ReadInit(c) \/ ReadInitDynamic(c)) /\ ~ ClientDies(c)
  <2>1. /\ UNCHANGED <<value, listeners, linked, epoch, replicas>>
        /\ m.type \in {"Init", "InitDynamic"}
        /\ \/ m.name \notin replicas[c] /\ UNCHANGED <<state, stored>>
           \/ /\ m.name \in replicas[c]
              /\ stored' = [stored EXCEPT ![c][m.name] = m.value]
              /\ state' = [state EXCEPT ![c][m.name] = SetState(@, Valid)]
    BY <1>3 DEF ReadInit, ReadInitDynamic, Initialize, ClientReads, hostVars,
                replicaVars
  <2>2. \A n \in Names : CarriesValue(m, n) <=> n = m.name
    BY <2>1 DEF CarriesValue
  <2>3. \A n \in Names : n \in replicas[c] =>
          IF n = m.name THEN stored'[c][n] = m.value
          ELSE state'[c][n] = state[c][n] /\ stored'[c][n] = stored[c][n]
    BY <1>0, <2>1
  <2>4. \A d \in Clients \ {c} : state'[d] = state[d] /\ stored'[d] = stored[d]
    BY <1>0, <2>1
  <2>. QED  BY <1>0, <2>1, <2>2, <2>3, <2>4 DEF HasNewest
<1>4. CASE ReadPropertyChange(c) /\ ~ ClientDies(c)
  <2>1. /\ UNCHANGED <<value, listeners, linked, epoch, replicas, state>>
        /\ m.type = "PropertyChange"
        /\ stored' = IF m.name \in replicas[c]
                     THEN [stored EXCEPT ![c][m.name] = m.value] ELSE stored
    BY <1>4 DEF ReadPropertyChange, ClientReads, hostVars
  <2>2. \A n \in Names : CarriesValue(m, n) <=> n = m.name
    BY <2>1 DEF CarriesValue
  <2>3. \A n \in Names : n \in replicas[c] =>
          stored'[c][n] = IF n = m.name THEN m.value ELSE stored[c][n]
    BY <1>0, <2>1
  <2>4. \A d \in Clients \ {c} : stored'[d] = stored[d]
    BY <1>0, <2>1
  <2>. QED  BY <1>0, <2>1, <2>2, <2>3, <2>4 DEF HasNewest
<1>. QED  BY <1>1, <1>2, <1>3, <1>4 DEF OnClientRead

(* A client takes the values in flight over in their order, or loses       *)
(* them with the connection.                                               *)
LEMMA CoherentClient ==
  ASSUME TypeOK, NoDanglingListener, CoherentInv, NEW c \in Clients, ClientNext(c)
  PROVE  \A d \in linked', n \in Names : CoherentAt(d, n)'
<1>. DEFINE Keeps(d) ==
              /\ d \in linked /\ epoch'[d] = epoch[d] /\ toClient'[d] = toClient[d]
              /\ \A n \in Names : n \in replicas'[d] /\ state'[d][n] = Valid =>
                   /\ n \in replicas[d] /\ state[d][n] = Valid
                   /\ stored'[d][n] = stored[d][n]
<1>0. /\ \A d \in linked, n \in Names : CoherentAt(d, n)
      /\ UNCHANGED <<value, listeners>>
      /\ linked \subseteq Clients
      /\ epoch \in [Clients -> 0..MaxEpochs]
      /\ toClient \in [Clients -> Seq(Packets)]
      /\ state \in [Clients -> [Names -> Uninitialized..SignatureMismatch]]
      /\ stored \in [Clients -> [Names -> Nat]]
      /\ replicas \in [Clients -> SUBSET Names]
  BY ClientLeavesHost
  DEF CoherentInv, hostVars, TypeOK, WireTypeOK, ClientTypeOK, ReplicaSetsOK
<1>1. CASE ConnectToServer(c)
  <2>1. /\ linked' = linked \cup {c} /\ epoch' = [epoch EXCEPT ![c] = @ + 1]
        /\ UNCHANGED <<toClient, replicas, state, stored>> /\ c \notin linked
        /\ epoch[c] < MaxEpochs
    BY <1>1 DEF ConnectToServer, replicaVars
  <2>2. \A d \in linked : Keeps(d)
    BY <1>0, <2>1
  <2>3. \A n \in Names : ~ (listeners[n][<<c, epoch'[c]>>] > 0)
    <3>1. epoch'[c] = epoch[c] + 1 /\ epoch[c] \in Nat
      BY <1>0, <2>1, BoundsAreNaturals
    <3>2. <<c, epoch'[c]>> \in Conns
      BY <2>1, <3>1, BoundsAreNaturals DEF Conns
    <3>3. <<c, epoch'[c]>> \notin connections
      BY <3>1 DEF CoherentInv, NoFuture
    <3>. QED  BY <3>2, <3>3 DEF NoDanglingListener
  <2>4. \A d \in linked' : \/ Keeps(d)
                           \/ \A n \in Names : ~ (listeners[n][<<d, epoch'[d]>>] > 0)
    BY <2>1, <2>2, <2>3
  <2>. QED  BY <1>0, <2>4, ForgetCoherent
<1>2. CASE OnShouldReconnect(c) \/ ClientDies(c)
  <2>1. linked' = linked \ {c} /\ epoch' = epoch
    BY <1>2 DEF OnShouldReconnect, ClientDies
  <2>2. \A d \in Clients \ {c} : /\ toClient'[d] = toClient[d]
                                /\ replicas'[d] = replicas[d]
                                /\ state'[d] = state[d] /\ stored'[d] = stored[d]
    BY <1>0, <1>2 DEF OnShouldReconnect, ClientDies, NoReplicaState
  <2>3. \A d \in linked' : Keeps(d)
    BY <1>0, <2>1, <2>2
  <2>. QED  BY <1>0, <2>3, ForgetCoherent
<1>3. ASSUME NEW n \in Names, NEW sig \in ReplicaSignatures, Acquire(c, n, sig)
      PROVE  \A d \in linked', k \in Names : CoherentAt(d, k)'
  <2>1. /\ UNCHANGED <<toClient, epoch, linked>>
        /\ replicas' = [replicas EXCEPT ![c] = @ \cup {n}]
        /\ stored' = [stored EXCEPT ![c][n] = NoValue]
    BY <1>3 DEF Acquire
  <2>2. PICK new \in {Uninitialized, Default, SignatureMismatch} :
          state' = [state EXCEPT ![c][n] = new]
    <3>1. PICK initial \in {Uninitialized, Default} :
            \E new \in {initial, SetState(initial, SignatureMismatch)} :
              state' = [state EXCEPT ![c][n] = new]
      BY <1>3 DEF Acquire
    <3>. QED  BY <3>1, SetStateType
  <2>3. new # Valid
    BY DEF Uninitialized, Default, SignatureMismatch, Valid
  <2>4. \A d \in linked' : Keeps(d)
    BY <1>0, <2>1, <2>2, <2>3
  <2>. QED  BY <1>0, <2>4, ForgetCoherent
<1>4. ASSUME NEW n \in Names, DestroyReplica(c, n)
      PROVE  \A d \in linked', k \in Names : CoherentAt(d, k)'
  <2>1. /\ UNCHANGED <<toClient, epoch, linked>>
        /\ replicas' = [replicas EXCEPT ![c] = @ \ {n}]
        /\ state' = [state EXCEPT ![c][n] = Uninitialized]
        /\ stored' = [stored EXCEPT ![c][n] = NoValue]
    BY <1>4 DEF DestroyReplica
  <2>2. \A d \in linked' : Keeps(d)
    BY <1>0, <2>1
  <2>. QED  BY <1>0, <2>2, ForgetCoherent
<1>5. CASE OnClientRead(c) /\ ~ ClientDies(c)
  <2>1. /\ c \in linked /\ toClient[c] # <<>>
        /\ toClient' = [toClient EXCEPT ![c] = Tail(@)]
    BY <1>5, PacketIsRead
  <2>. QED  BY <1>0, <1>5, <2>1, ReadMakesValid, ReadCoherent
<1>. QED  BY <1>1, <1>2, <1>3, <1>4, <1>5 DEF ClientNext, ClientCrash

(* Every step keeps the invariant. *)
LEMMA CoherentStep ==
  ASSUME TypeOK, TypeOK', NoDanglingListener, CoherentInv, [Next]_vars
  PROVE  CoherentInv'
<1>1. NoFuture'
  BY NoFutureStep DEF CoherentInv
<1>2. \A c \in linked, n \in Names : CoherentAt(c, n)
  BY DEF CoherentInv
<1>3. CASE UNCHANGED vars
  <2>1. /\ UNCHANGED <<toClient, value, clientVars>>
        /\ \A n \in Names, cc \in Conns : listeners'[n][cc] = listeners[n][cc]
    BY <1>3 DEF vars, hostVars, wireVars
  <2>2. \A c \in linked', n \in Names : CoherentAt(c, n)'
    BY <1>2, <2>1, QuietCoherent
  <2>. QED  BY <1>1, <2>2 DEF CoherentInv
<1>4. CASE HostNext
  <2>1. \A c \in linked', n \in Names : CoherentAt(c, n)'
    BY <1>2, <1>4, CoherentHost
  <2>. QED  BY <1>1, <2>1 DEF CoherentInv
<1>5. ASSUME NEW c \in Clients, ClientNext(c)
      PROVE  CoherentInv'
  <2>1. \A d \in linked', n \in Names : CoherentAt(d, n)'
    BY <1>5, CoherentClient
  <2>. QED  BY <1>1, <2>1 DEF CoherentInv
<1>. QED  BY <1>3, <1>4, <1>5 DEF Next

(* Whoever a source lists is told of every change: the last values on the  *)
(* way to it are the source's, and when none are on the way a Valid        *)
(* replica holds them, though addListener and handleMetaCall send them at  *)
(* different times, over connections that come and go, for replicas that   *)
(* do and for sources that are withdrawn and published again.              *)
THEOREM ListenersAreTold == Spec => []Coherent
<1>1. Init => CoherentInv
  BY DEF Init, CoherentInv, NoFuture
<1>2. CoherentInv => Coherent
  BY InvIsCoherent
<1>. QED  BY <1>1, <1>2, TypeCorrect, ListenersAreAlive, CoherentStep, PTL DEF Spec

-----------------------------------------------------------------------------
(* No replica says Valid of a source its node does not know: what          *)
(* ValidIsAttached rests on is the order of announcements, withdrawals and *)
(* first values on a connection.                                           *)

-----------------------------------------------------------------------------
(* What a client knows of a name once it has read the first k packets of s *)

Announces(m, n) == m.type = "ObjectList" /\ m.objects[n] # NoSource
Withdraws(m, n) == m.type = "RemoveObject" /\ m.name = n
Initializes(m, n) == m.type \in {"Init", "InitDynamic"} /\ m.name = n

KnownAfter(known, s, n, k) ==
  \E j \in 0..k :
    /\ IF j = 0 THEN known # NoSource ELSE Announces(s[j], n)
    /\ \A i \in j + 1..k : ~ Withdraws(s[i], n)

(* The first packets are the same whatever follows them. *)
LEMMA KnownConcat ==
  ASSUME NEW s \in Seq(Packets), NEW t \in Seq(Packets), NEW n, NEW known,
         NEW k \in 0..Len(s), KnownAfter(known, s, n, k)
  PROVE  KnownAfter(known, s \o t, n, k)
<1>. DEFINE u == s \o t
<1>1. DOMAIN s = 1..Len(s) /\ Len(s) \in Nat /\ \A i \in DOMAIN s : u[i] = s[i]
  BY CarryingConcat
<1>. HIDE DEF u
<1>2. \A i \in 1..k : u[i] = s[i]
  BY <1>1
<1>3. PICK j \in 0..k : /\ IF j = 0 THEN known # NoSource ELSE Announces(s[j], n)
                       /\ \A i \in j + 1..k : ~ Withdraws(s[i], n)
  BY DEF KnownAfter
<1>4. /\ IF j = 0 THEN known # NoSource ELSE Announces(u[j], n)
      /\ \A i \in j + 1..k : ~ Withdraws(u[i], n)
  BY <1>2, <1>3
<1>5. KnownAfter(known, u, n, k)
  BY <1>4 DEF KnownAfter
<1>. QED  BY <1>5 DEF u

(* What does not withdraw a source leaves it known. *)
LEMMA KnownKept ==
  ASSUME NEW s \in Seq(Packets), NEW t \in Seq(Packets), NEW n, NEW known,
         NEW k \in Len(s)..Len(s) + Len(t), KnownAfter(known, s, n, Len(s)),
         \A i \in DOMAIN t : ~ Withdraws(t[i], n)
  PROVE  KnownAfter(known, s \o t, n, k)
<1>. DEFINE u == s \o t
<1>1. /\ DOMAIN s = 1..Len(s) /\ Len(s) \in Nat /\ Len(t) \in Nat
      /\ \A i \in DOMAIN s : u[i] = s[i]
  BY CarryingConcat
<1>2. \A i \in Len(s) + 1..Len(s) + Len(t) : ~ Withdraws(u[i], n)
  BY CarryingConcat
<1>. HIDE DEF u
<1>3. PICK j \in 0..Len(s) :
        /\ IF j = 0 THEN known # NoSource ELSE Announces(s[j], n)
        /\ \A i \in j + 1..Len(s) : ~ Withdraws(s[i], n)
  BY DEF KnownAfter
<1>4. \A i \in j + 1..k : ~ Withdraws(u[i], n)
  <2>1. SUFFICES ASSUME NEW i \in j + 1..k  PROVE ~ Withdraws(u[i], n)
    OBVIOUS
  <2>2. CASE i <= Len(s)
    <3>1. i \in j + 1..Len(s) /\ i \in DOMAIN s
      BY <1>1, <2>2
    <3>. QED  BY <1>1, <1>3, <3>1
  <2>3. CASE ~ (i <= Len(s))
    <3>1. i \in Len(s) + 1..Len(s) + Len(t)
      BY <1>1, <2>3
    <3>. QED  BY <1>2, <3>1
  <2>. QED  BY <2>2, <2>3
<1>5. j \in 0..k /\ IF j = 0 THEN known # NoSource ELSE Announces(u[j], n)
  BY <1>1, <1>3
<1>6. KnownAfter(known, u, n, k)
  BY <1>4, <1>5 DEF KnownAfter
<1>. QED  BY <1>6 DEF u

(* What is announced is known. *)
LEMMA KnownAnnounced ==
  ASSUME NEW s \in Seq(Packets), NEW t \in Seq(Packets), NEW n, NEW known, t # <<>>,
         \A i \in DOMAIN t : Announces(t[i], n)
  PROVE  KnownAfter(known, s \o t, n, Len(s \o t))
<1>. DEFINE u == s \o t
            last == Len(s) + Len(t)
<1>1. Len(t) # 0
  BY EmptySeq
<1>2. Len(s) \in Nat /\ Len(t) \in Nat /\ last \in Len(s) + 1..last
  BY <1>1, CarryingConcat
<1>3. Announces(u[last], n)
  BY <1>2, CarryingConcat
<1>4. Len(u) = last
  BY ConcatProperties
<1>. HIDE DEF u
<1>5. KnownAfter(known, u, n, last)
  BY <1>2, <1>3 DEF KnownAfter
<1>. QED  BY <1>4, <1>5 DEF u

(* What is known after a packet is read. *)
LEMMA KnownTail ==
  ASSUME NEW s \in Seq(Packets), s # <<>>, NEW n, NEW known, NEW new,
         NEW k \in 1..Len(s), KnownAfter(known, s, n, k),
         Announces(Head(s), n) => new # NoSource,
         known # NoSource /\ ~ Withdraws(Head(s), n) => new # NoSource
  PROVE  KnownAfter(new, Tail(s), n, k - 1)
<1>1. /\ Len(s) \in Nat \ {0} /\ Head(s) = s[1]
      /\ Tail(s) \in Seq(Packets) /\ Len(Tail(s)) = Len(s) - 1
      /\ \A i \in 1..Len(Tail(s)) : Tail(s)[i] = s[i + 1]
  BY HeadTailProperties, EmptySeq, LenProperties
<1>2. PICK j \in 0..k : /\ IF j = 0 THEN known # NoSource ELSE Announces(s[j], n)
                       /\ \A i \in j + 1..k : ~ Withdraws(s[i], n)
  BY DEF KnownAfter
<1>. DEFINE t == Tail(s)
<1>3. \A i \in 1..k - 1 : t[i] = s[i + 1]
  BY <1>1
<1>. HIDE DEF t
<1>4. CASE j <= 1
  <2>1. new # NoSource
    <3>1. CASE j = 0
      <4>1. 1 \in j + 1..k
        BY <3>1
      <4>. QED  BY <1>1, <1>2, <3>1, <4>1
    <3>2. CASE j = 1
      BY <1>1, <1>2, <3>2
    <3>. QED  BY <1>4, <3>1, <3>2
  <2>2. \A i \in 1..k - 1 : ~ Withdraws(t[i], n)
    BY <1>2, <1>3, <1>4
  <2>3. KnownAfter(new, t, n, k - 1)
    BY <2>1, <2>2 DEF KnownAfter
  <2>. QED  BY <2>3 DEF t
<1>5. CASE ~ (j <= 1)
  <2>1. j - 1 \in 1..k - 1 /\ Announces(t[j - 1], n)
    BY <1>2, <1>3, <1>5
  <2>2. \A i \in (j - 1) + 1..k - 1 : ~ Withdraws(t[i], n)
    BY <1>2, <1>3, <1>5
  <2>3. KnownAfter(new, t, n, k - 1)
    BY <2>1, <2>2 DEF KnownAfter
  <2>. QED  BY <2>3 DEF t
<1>. QED  BY <1>4, <1>5

-----------------------------------------------------------------------------
(* The invariant *)

(* What the host publishes it has announced on every connection it knows.  *)
SourcesAnnounced ==
  \A c \in linked, n \in Names :
    Current(c) \in connections /\ sourceRoots[n] # NoSource =>
      KnownAfter(connectedSources[c][n], toClient[c], n, Len(toClient[c]))

(* First values follow the announcement of their source. *)
InitsAnnounced ==
  \A c \in linked, n \in Names : \A i \in DOMAIN toClient[c] :
    Initializes(toClient[c][i], n) =>
      KnownAfter(connectedSources[c][n], toClient[c], n, i - 1)

(* A replica that is not attached to a source its node knows does not match. *)
DetachedMismatches ==
  \A c \in Clients : \A n \in replicas[c] \ attached[c] :
    connectedSources[c][n] # NoSource => state[c][n] = SignatureMismatch

(* No source has the defaults of a replica, and no packet carries them.    *)
Counted == {m \in Packets : m \in ValuePackets => m.value # NoValue}

ValuesCount ==
  /\ \A n \in Names : value[n] # NoValue
  /\ toClient \in [Clients -> Seq(Counted)]

ValidInv ==
  /\ NoFuture /\ SourcesAnnounced /\ InitsAnnounced
  /\ DetachedMismatches /\ ValuesCount /\ ValidIsAttached

-----------------------------------------------------------------------------
(* Announcements: the steps *)

Announced == SourcesAnnounced /\ InitsAnnounced

(* What the host sends follows the announcement of its source, and         *)
(* withdraws nothing that stays published.                                 *)
LEMMA SendAnnounced ==
  ASSUME TypeOK, Announced, NEW times \in [Conns -> Nat], NEW m \in Packets,
         toClient' = Send(times, m), UNCHANGED clientVars,
         \A c \in linked, n \in Names :
           Current(c) \in connections' /\ sourceRoots'[n] # NoSource =>
             \/ times[Current(c)] > 0 /\ Announces(m, n)
             \/ /\ Current(c) \in connections /\ sourceRoots[n] # NoSource
                /\ ~ Withdraws(m, n),
         \A c \in linked, n \in Names :
           times[Current(c)] > 0 /\ Initializes(m, n) =>
             Current(c) \in connections /\ sourceRoots[n] # NoSource
  PROVE  Announced'
<1>. SUFFICES ASSUME NEW c \in linked, NEW n \in Names
              PROVE  /\ Current(c) \in connections' /\ sourceRoots'[n] # NoSource =>
                          KnownAfter(connectedSources[c][n], toClient'[c], n,
                                     Len(toClient'[c]))
                     /\ \A i \in DOMAIN toClient'[c] :
                          Initializes(toClient'[c][i], n) =>
                            KnownAfter(connectedSources[c][n], toClient'[c], n, i - 1)
  BY DEF Announced, SourcesAnnounced, InitsAnnounced, Current, clientVars
<1>. DEFINE cc == Current(c)
            s == toClient[c]
            t == [i \in 1..times[cc] |-> m]
            known == connectedSources[c][n]
<1>1. cc \in Conns /\ c \in Clients /\ s \in Seq(Packets) /\ times[cc] \in Nat
  BY DEF TypeOK, WireTypeOK, Current, Conns
<1>2. toClient'[c] = s \o t
  BY <1>1 DEF Send
<1>3. /\ t \in Seq(Packets) /\ Len(t) = times[cc]
      /\ DOMAIN t = 1..times[cc] /\ \A i \in DOMAIN t : t[i] = m
  BY <1>1
<1>4. cc \in connections /\ sourceRoots[n] # NoSource => KnownAfter(known, s, n, Len(s))
  BY DEF Announced, SourcesAnnounced
<1>5. \A i \in DOMAIN s : Initializes(s[i], n) => KnownAfter(known, s, n, i - 1)
  BY DEF Announced, InitsAnnounced
<1>6. cc \in connections' /\ sourceRoots'[n] # NoSource =>
        \/ times[cc] > 0 /\ Announces(m, n)
        \/ /\ cc \in connections /\ sourceRoots[n] # NoSource
           /\ ~ Withdraws(m, n)
  OBVIOUS
<1>7. times[cc] > 0 /\ Initializes(m, n) => cc \in connections /\ sourceRoots[n] # NoSource
  OBVIOUS
<1>8. /\ DOMAIN s = 1..Len(s) /\ Len(s) \in Nat
      /\ s \o t \in Seq(Packets) /\ Len(s \o t) = Len(s) + Len(t)
      /\ DOMAIN (s \o t) = 1..Len(s) + Len(t)
      /\ \A i \in DOMAIN s : (s \o t)[i] = s[i]
      /\ \A i \in Len(s) + 1..Len(s) + Len(t) : (s \o t)[i] = m
  BY <1>1, <1>3, CarryingConcat, ConcatProperties
<1>. HIDE DEF cc, s, t, known
<1>9. ASSUME cc \in connections', sourceRoots'[n] # NoSource
      PROVE  KnownAfter(known, s \o t, n, Len(s \o t))
  <2>1. CASE times[cc] > 0 /\ Announces(m, n)
    <3>1. t # <<>> /\ \A i \in DOMAIN t : Announces(t[i], n)
      BY <1>1, <1>3, <2>1
    <3>. QED  BY ONLY <1>1, <1>3, <3>1, KnownAnnounced DEF s
  <2>2. CASE cc \in connections /\ sourceRoots[n] # NoSource /\ ~ Withdraws(m, n)
    <3>1. /\ KnownAfter(known, s, n, Len(s)) /\ \A i \in DOMAIN t : ~ Withdraws(t[i], n)
          /\ s \in Seq(Packets) /\ Len(s) + Len(t) \in Len(s)..Len(s) + Len(t)
      BY <1>1, <1>3, <1>4, <1>8, <2>2
    <3>2. KnownAfter(known, s \o t, n, Len(s) + Len(t))
      BY ONLY <1>3, <3>1, KnownKept
    <3>. QED  BY <1>8, <3>2
  <2>. QED  BY <1>6, <1>9, <2>1, <2>2
<1>10. ASSUME NEW i \in DOMAIN (s \o t), Initializes((s \o t)[i], n)
       PROVE  KnownAfter(known, s \o t, n, i - 1)
  <2>1. CASE i \in DOMAIN s
    <3>1. KnownAfter(known, s, n, i - 1) /\ i - 1 \in 0..Len(s)
      BY <1>5, <1>8, <1>10, <2>1
    <3>. QED  BY ONLY <1>1, <1>3, <3>1, KnownConcat DEF s
  <2>2. CASE i \notin DOMAIN s
    <3>1. i \in Len(s) + 1..Len(s) + Len(t) /\ i - 1 \in Len(s)..Len(s) + Len(t)
      BY <1>1, <1>3, <1>8, <1>10, <2>2
    <3>2. Initializes(m, n) /\ times[cc] > 0
      BY <1>1, <1>3, <1>8, <1>10, <3>1
    <3>3. KnownAfter(known, s, n, Len(s))
      BY <1>4, <1>7, <3>2
    <3>4. \A j \in DOMAIN t : ~ Withdraws(t[j], n)
      BY <1>3, <3>2 DEF Initializes, Withdraws
    <3>5. s \in Seq(Packets)
      BY <1>1 DEF s
    <3>. QED  BY ONLY <1>3, <3>1, <3>3, <3>4, <3>5, KnownKept
  <2>. QED  BY <2>1, <2>2
<1>11. toClient'[c] = s \o t
  BY <1>2 DEF s, t
<1>. QED  BY <1>9, <1>10, <1>11 DEF cc, known

(* What is read has been announced, and makes its source known. *)
LEMMA ReadAnnounced ==
  ASSUME TypeOK, Announced, NEW c \in linked, toClient[c] # <<>>,
         toClient' = [toClient EXCEPT ![c] = Tail(@)],
         UNCHANGED <<linked, epoch, connections, sourceRoots>>,
         \A d \in linked \ {c} : connectedSources'[d] = connectedSources[d],
         \A n \in Names :
           /\ Announces(Head(toClient[c]), n) => connectedSources'[c][n] # NoSource
           /\ connectedSources[c][n] # NoSource /\ ~ Withdraws(Head(toClient[c]), n)
                => connectedSources'[c][n] # NoSource
  PROVE  Announced'
<1>. SUFFICES ASSUME NEW d \in linked, NEW n \in Names
              PROVE  /\ Current(d) \in connections /\ sourceRoots[n] # NoSource =>
                          KnownAfter(connectedSources'[d][n], toClient'[d], n,
                                     Len(toClient'[d]))
                     /\ \A i \in DOMAIN toClient'[d] :
                          Initializes(toClient'[d][i], n) =>
                            KnownAfter(connectedSources'[d][n], toClient'[d], n, i - 1)
  BY DEF Announced, SourcesAnnounced, InitsAnnounced, Current
<1>1. /\ Current(d) \in connections /\ sourceRoots[n] # NoSource =>
           KnownAfter(connectedSources[d][n], toClient[d], n, Len(toClient[d]))
      /\ \A i \in DOMAIN toClient[d] :
           Initializes(toClient[d][i], n) =>
             KnownAfter(connectedSources[d][n], toClient[d], n, i - 1)
  BY DEF Announced, SourcesAnnounced, InitsAnnounced
<1>2. toClient \in [Clients -> Seq(Packets)] /\ c \in Clients /\ d \in Clients
  BY DEF TypeOK, WireTypeOK
<1>3. CASE d # c
  <2>1. toClient'[d] = toClient[d] /\ connectedSources'[d] = connectedSources[d]
    BY <1>2, <1>3
  <2>. QED  BY <1>1, <2>1
<1>4. CASE d = c
  <2>. DEFINE s == toClient[c]
              t == Tail(s)
              known == connectedSources[c][n]
              new == connectedSources'[c][n]
  <2>1. toClient'[d] = t /\ s \in Seq(Packets) /\ s # <<>>
    BY <1>2, <1>4
  <2>2. /\ Len(s) \in Nat \ {0} /\ Len(t) = Len(s) - 1
        /\ DOMAIN s = 1..Len(s) /\ DOMAIN t = 1..Len(s) - 1
        /\ \A i \in 1..Len(s) - 1 : t[i] = s[i + 1]
    <3>1. /\ Len(s) \in Nat \ {0}
          /\ t \in Seq(Packets) /\ Len(t) = Len(s) - 1
          /\ \A i \in 1..Len(t) : t[i] = s[i + 1]
      BY <2>1, HeadTailProperties, EmptySeq, LenProperties
    <3>. QED  BY <2>1, <3>1, LenProperties
  <2>3. /\ Announces(Head(s), n) => new # NoSource
        /\ known # NoSource /\ ~ Withdraws(Head(s), n) => new # NoSource
    OBVIOUS
  <2>4. /\ Current(d) \in connections /\ sourceRoots[n] # NoSource =>
             KnownAfter(known, s, n, Len(s))
        /\ \A i \in DOMAIN s : Initializes(s[i], n) => KnownAfter(known, s, n, i - 1)
    BY <1>1, <1>4
  <2>. HIDE DEF s, t, known, new
  <2>5. ASSUME NEW k \in 1..Len(s), KnownAfter(known, s, n, k)
        PROVE  KnownAfter(new, t, n, k - 1)
    BY ONLY <2>1, <2>3, <2>5, KnownTail DEF t
  <2>6. Current(d) \in connections /\ sourceRoots[n] # NoSource =>
          KnownAfter(new, t, n, Len(t))
    <3>1. Len(s) \in 1..Len(s)
      BY <2>2
    <3>. QED  BY <2>2, <2>4, <2>5, <3>1
  <2>7. ASSUME NEW i \in DOMAIN t, Initializes(t[i], n)
        PROVE  KnownAfter(new, t, n, i - 1)
    <3>1. /\ i + 1 \in DOMAIN s /\ s[i + 1] = t[i]
          /\ i \in 1..Len(s) /\ (i + 1) - 1 = i
      BY <2>2
    <3>2. KnownAfter(known, s, n, i)
      BY <2>4, <2>7, <3>1
    <3>. QED  BY <2>5, <3>1, <3>2
  <2>. QED  BY <1>4, <2>1, <2>6, <2>7 DEF new
<1>. QED  BY <1>3, <1>4

(* A connection that is new has nothing announced, and needs nothing. *)
LEMMA ForgetAnnounced ==
  ASSUME TypeOK, Announced, UNCHANGED sourceRoots, connections' \subseteq connections,
         \A c \in linked' :
           \/ /\ c \in linked /\ epoch'[c] = epoch[c] /\ toClient'[c] = toClient[c]
              /\ connectedSources'[c] = connectedSources[c]
           \/ toClient'[c] = <<>> /\ <<c, epoch'[c]>> \notin connections
  PROVE  Announced'
<1>. SUFFICES ASSUME NEW c \in linked', NEW n \in Names
              PROVE  /\ <<c, epoch'[c]>> \in connections' /\ sourceRoots[n] # NoSource =>
                          KnownAfter(connectedSources'[c][n], toClient'[c], n,
                                     Len(toClient'[c]))
                     /\ \A i \in DOMAIN toClient'[c] :
                          Initializes(toClient'[c][i], n) =>
                            KnownAfter(connectedSources'[c][n], toClient'[c], n, i - 1)
  BY DEF Announced, SourcesAnnounced, InitsAnnounced, Current
<1>1. CASE /\ c \in linked /\ epoch'[c] = epoch[c] /\ toClient'[c] = toClient[c]
           /\ connectedSources'[c] = connectedSources[c]
  BY <1>1 DEF Announced, SourcesAnnounced, InitsAnnounced, Current
<1>2. CASE toClient'[c] = <<>> /\ <<c, epoch'[c]>> \notin connections
  BY <1>2
<1>. QED  BY <1>1, <1>2

(* The host tells the clients of its list what it publishes and its        *)
(* listeners what it withdraws.                                            *)
LEMMA AnnouncedHost ==
  ASSUME TypeOK, NoDanglingListener, Announced, HostNext  PROVE Announced'
<1>0. /\ sourceRoots \in ObjectTable
      /\ listeners \in [Names -> [Conns -> Nat]]
      /\ \A c \in linked : Current(c) \in Conns /\ c \in Clients
  BY DEF TypeOK, HostTypeOK, WireTypeOK, Current, Conns
<1>1. ASSUME NEW n \in Names, NEW sig \in SourceSignatures, EnableRemoting(n, sig)
      PROVE  Announced'
  <2>. DEFINE m == ObjectList([EmptyTable EXCEPT ![n] = sig])
  <2>1. m \in Packets
    BY DEF ObjectList, Packets, ListPackets, EmptyTable, ObjectTable
  <2>2. /\ toClient' = Send(Once(connections), m)
        /\ sourceRoots' = [sourceRoots EXCEPT ![n] = sig]
        /\ UNCHANGED <<connections, clientVars>>
    BY <1>1 DEF EnableRemoting
  <2>3. /\ \A k \in Names : ~ Initializes(m, k) /\ ~ Withdraws(m, k)
        /\ Announces(m, n)
    BY NoSourceIsNoSignature
    DEF Initializes, Withdraws, Announces, ObjectList, EmptyTable
  <2>4. \A cc \in connections : cc \in Conns => Once(connections)[cc] = 1
    BY DEF Once
  <2>5. \A k \in Names : k # n => sourceRoots'[k] = sourceRoots[k]
    BY <1>0, <2>2 DEF ObjectTable
  <2>. HIDE DEF m
  <2>6. \A c \in linked, k \in Names :
          Current(c) \in connections' /\ sourceRoots'[k] # NoSource =>
            \/ Once(connections)[Current(c)] > 0 /\ Announces(m, k)
            \/ /\ Current(c) \in connections /\ sourceRoots[k] # NoSource
               /\ ~ Withdraws(m, k)
    BY <1>0, <2>2, <2>3, <2>4, <2>5
  <2>. QED  BY <2>1, <2>2, <2>3, <2>6, OnceType, SendAnnounced
<1>2. ASSUME NEW n \in Names, DisableRemoting(n)
      PROVE  Announced'
  <2>1. RemoveObject(n) \in Packets /\ listeners[n] \in [Conns -> Nat]
    BY <1>0 DEF RemoveObject, Packets, RemovePackets
  <2>2. /\ toClient' = Send(listeners[n], RemoveObject(n))
        /\ sourceRoots' = [sourceRoots EXCEPT ![n] = NoSource]
        /\ UNCHANGED <<connections, clientVars>>
    BY <1>2 DEF DisableRemoting
  <2>3. \A k \in Names : /\ ~ Initializes(RemoveObject(n), k)
                         /\ k # n => ~ Withdraws(RemoveObject(n), k)
    BY DEF Initializes, Withdraws, RemoveObject
  <2>4. \A k \in Names : sourceRoots'[k] # NoSource =>
                           k # n /\ sourceRoots[k] # NoSource
    BY <1>0, <2>2 DEF ObjectTable
  <2>5. \A c \in linked, k \in Names :
          Current(c) \in connections' /\ sourceRoots'[k] # NoSource =>
            /\ Current(c) \in connections /\ sourceRoots[k] # NoSource
            /\ ~ Withdraws(RemoveObject(n), k)
    BY <2>2, <2>3, <2>4
  <2>. QED  BY <2>1, <2>2, <2>3, <2>5, SendAnnounced
<1>3. ASSUME NEW n \in Names, SetProperty(n)
      PROVE  Announced'
  <2>. DEFINE m == ValuePacket("PropertyChange", n, value[n] + 1)
  <2>1. m \in Packets /\ listeners[n] \in [Conns -> Nat]
    BY <1>0 DEF ValuePacket, Packets, ValuePackets, TypeOK, HostTypeOK
  <2>2. /\ toClient' = Send(listeners[n], m)
        /\ UNCHANGED <<connections, sourceRoots, clientVars>>
    BY <1>3 DEF SetProperty
  <2>3. \A k \in Names : ~ Initializes(m, k) /\ ~ Withdraws(m, k)
    BY DEF Initializes, Withdraws, ValuePacket
  <2>. HIDE DEF m
  <2>4. \A c \in linked, k \in Names :
          Current(c) \in connections' /\ sourceRoots'[k] # NoSource =>
            /\ Current(c) \in connections /\ sourceRoots[k] # NoSource
            /\ ~ Withdraws(m, k)
    BY <2>2, <2>3
  <2>. QED  BY <2>1, <2>2, <2>3, <2>4, SendAnnounced
<1>4. ASSUME NEW cc \in Conns, NewConnection(cc)
      PROVE  Announced'
  <2>. DEFINE m == ObjectList(sourceRoots)
  <2>1. m \in Packets
    BY <1>0 DEF ObjectList, Packets, ListPackets
  <2>2. /\ toClient' = Send(Once({cc}), m)
        /\ UNCHANGED <<sourceRoots, clientVars>>
        /\ connections' = connections \cup {cc}
    BY <1>4 DEF NewConnection
  <2>3. \A k \in Names : /\ ~ Initializes(m, k) /\ ~ Withdraws(m, k)
                         /\ sourceRoots[k] # NoSource => Announces(m, k)
    BY DEF Initializes, Withdraws, Announces, ObjectList
  <2>4. Once({cc})[cc] = 1
    BY DEF Once
  <2>. HIDE DEF m
  <2>5. \A c \in linked, k \in Names :
          Current(c) \in connections' /\ sourceRoots'[k] # NoSource =>
            \/ Once({cc})[Current(c)] > 0 /\ Announces(m, k)
            \/ /\ Current(c) \in connections /\ sourceRoots[k] # NoSource
               /\ ~ Withdraws(m, k)
    BY <2>2, <2>3, <2>4
  <2>. QED  BY <2>1, <2>2, <2>3, <2>5, OnceType, SendAnnounced
<1>5. ASSUME NEW cc \in Conns,
             \/ OnServerDisconnect(cc)
             \/ ServerDropAddObject(cc)
             \/ ServerReadRemoveObject(cc)
      PROVE  Announced'
  <2>1. /\ UNCHANGED <<sourceRoots, toClient, clientVars>>
        /\ connections' \subseteq connections
    BY <1>5 DEF OnServerDisconnect, ServerDropAddObject, ServerReadRemoveObject,
                hostVars
  <2>2. \A c \in linked' : /\ c \in linked /\ epoch'[c] = epoch[c]
                           /\ toClient'[c] = toClient[c]
                           /\ connectedSources'[c] = connectedSources[c]
    BY <2>1 DEF clientVars
  <2>. QED  BY <2>1, <2>2, ForgetAnnounced
<1>6. ASSUME NEW cc \in Conns, ServerReadAddObject(cc)
      PROVE  Announced'
  <2>1. PICK name \in Names, type \in {"Init", "InitDynamic"} :
          /\ toClient' = Send(Once({cc}), ValuePacket(type, name, value[name]))
          /\ sourceRoots[name] # NoSource
    <3>1. /\ toHost[cc] # <<>> /\ Head(toHost[cc]).type = "AddObject"
          /\ Head(toHost[cc]) \in Requests
      BY <1>6, ServerReadsType DEF ServerReadAddObject, ServerReads
    <3>2. Head(toHost[cc]).name \in Names
      BY <3>1 DEF Requests, AddPackets, RemovePackets
    <3>. QED  BY <1>6, <3>2 DEF ServerReadAddObject
  <2>. DEFINE m == ValuePacket(type, name, value[name])
              times == Once({cc})
  <2>2. m \in Packets
    BY DEF ValuePacket, Packets, ValuePackets, TypeOK, HostTypeOK
  <2>3. /\ toClient' = Send(times, m)
        /\ UNCHANGED <<connections, sourceRoots, clientVars>>
        /\ cc \in connections
    BY <1>6, <2>1 DEF ServerReadAddObject, ServerReads
  <2>4. \A k \in Names : ~ Withdraws(m, k) /\ (Initializes(m, k) => k = name)
    BY DEF Initializes, Withdraws, ValuePacket
  <2>5. times \in [Conns -> Nat] /\ \A d \in Conns : times[d] > 0 => d = cc
    BY DEF Once
  <2>. HIDE DEF m, times
  <2>6. \A c \in linked, k \in Names :
          /\ Current(c) \in connections' /\ sourceRoots'[k] # NoSource =>
               /\ Current(c) \in connections /\ sourceRoots[k] # NoSource
               /\ ~ Withdraws(m, k)
          /\ times[Current(c)] > 0 /\ Initializes(m, k) =>
               Current(c) \in connections /\ sourceRoots[k] # NoSource
    BY <1>0, <2>1, <2>3, <2>4, <2>5
  <2>. QED  BY <2>2, <2>3, <2>5, <2>6, SendAnnounced
<1>. QED  BY <1>1, <1>2, <1>3, <1>4, <1>5, <1>6 DEF HostNext, OnServerRead

(* What a packet tells the node of sources. *)
LEMMA ReadMakesKnown ==
  ASSUME TypeOK, NEW c \in Clients, OnClientRead(c), ~ ClientDies(c)
  PROVE  /\ UNCHANGED <<linked, epoch, hostVars>>
         /\ \A d \in linked \ {c} : connectedSources'[d] = connectedSources[d]
         /\ \A n \in Names :
              /\ Announces(Head(toClient[c]), n) => connectedSources'[c][n] # NoSource
              /\ connectedSources[c][n] # NoSource /\ ~ Withdraws(Head(toClient[c]), n)
                   => connectedSources'[c][n] # NoSource
<1>. DEFINE m == Head(toClient[c])
<1>0. connectedSources \in [Clients -> ObjectTable] /\ linked \subseteq Clients
  BY DEF TypeOK, ClientTypeOK, WireTypeOK
<1>1. CASE ReadObjectList(c)
  <2>1. /\ UNCHANGED <<linked, epoch, hostVars>> /\ m.type = "ObjectList"
        /\ connectedSources' = [connectedSources EXCEPT ![c] =
             [n \in Names |-> IF connectedSources[c][n] = NoSource
                              THEN m.objects[n] ELSE connectedSources[c][n]]]
    BY <1>1 DEF ReadObjectList, ClientReads
  <2>. QED  BY <1>0, <2>1 DEF Announces
<1>2. CASE ReadRemoveObject(c)
  <2>1. /\ UNCHANGED <<linked, epoch, hostVars>> /\ m.type = "RemoveObject"
        /\ connectedSources' = [connectedSources EXCEPT ![c][m.name] = NoSource]
    BY <1>2 DEF ReadRemoveObject, ClientReads
  <2>2. \A n \in Names : n # m.name => connectedSources'[c][n] = connectedSources[c][n]
    BY <1>0, <2>1 DEF ObjectTable
  <2>. QED  BY <1>0, <2>1, <2>2 DEF Announces, Withdraws
<1>3. CASE (ReadInit(c) \/ ReadInitDynamic(c) \/ ReadPropertyChange(c)) /\ ~ ClientDies(c)
  <2>1. /\ UNCHANGED <<linked, epoch, hostVars, connectedSources>>
        /\ m.type # "ObjectList"
    BY <1>3 DEF ReadInit, ReadInitDynamic, ReadPropertyChange, ClientReads
  <2>. QED  BY <2>1 DEF Announces
<1>. QED  BY <1>1, <1>2, <1>3 DEF OnClientRead

(* What a client has read, or lost with its connection, keeps what is      *)
(* still in flight true.                                                   *)
LEMMA AnnouncedClient ==
  ASSUME TypeOK, NoFuture, Announced, NEW c \in Clients, ClientNext(c)
  PROVE  Announced'
<1>0. /\ UNCHANGED hostVars
      /\ linked \subseteq Clients
      /\ epoch \in [Clients -> 0..MaxEpochs]
      /\ toClient \in [Clients -> Seq(Packets)]
      /\ connectedSources \in [Clients -> ObjectTable]
      /\ \A d \in Clients \ linked : toClient[d] = <<>>
  BY ClientLeavesHost DEF TypeOK, WireTypeOK, ClientTypeOK
<1>. DEFINE Keeps(d) == /\ d \in linked /\ epoch'[d] = epoch[d]
                        /\ toClient'[d] = toClient[d]
                        /\ connectedSources'[d] = connectedSources[d]
<1>1. CASE ConnectToServer(c)
  <2>1. /\ linked' = linked \cup {c} /\ epoch' = [epoch EXCEPT ![c] = @ + 1]
        /\ UNCHANGED <<toClient, connectedSources>> /\ c \notin linked
    BY <1>1 DEF ConnectToServer
  <2>2. \A d \in linked : Keeps(d)
    BY <1>0, <2>1
  <2>3. toClient'[c] = <<>> /\ <<c, epoch'[c]>> \notin connections
    <3>1. epoch'[c] = epoch[c] + 1 /\ epoch[c] \in Nat
      BY <1>0, <2>1, BoundsAreNaturals
    <3>. QED  BY <1>0, <2>1, <3>1 DEF NoFuture
  <2>. DEFINE Fresh(d) == toClient'[d] = <<>> /\ <<d, epoch'[d]>> \notin connections
  <2>4. \A d \in linked' : Keeps(d) \/ Fresh(d)
    <3>1. Fresh(c)
      BY <2>3
    <3>2. \A d \in linked' : d \in linked \/ d = c
      BY <2>1
    <3>. HIDE DEF Keeps, Fresh
    <3>. QED  BY <2>2, <3>1, <3>2
  <2>. QED  BY <1>0, <2>4, ForgetAnnounced DEF hostVars
<1>2. CASE OnShouldReconnect(c) \/ ClientDies(c)
  <2>1. linked' = linked \ {c} /\ epoch' = epoch
    BY <1>2 DEF OnShouldReconnect, ClientDies
  <2>2. \A d \in Clients \ {c} : /\ toClient'[d] = toClient[d]
                                 /\ connectedSources'[d] = connectedSources[d]
    BY <1>0, <1>2 DEF OnShouldReconnect, ClientDies
  <2>3. \A d \in linked' : Keeps(d)
    BY <1>0, <2>1, <2>2
  <2>. QED  BY <1>0, <2>3, ForgetAnnounced DEF hostVars
<1>3. ASSUME NEW n \in Names,
             \/ \E sig \in ReplicaSignatures : Acquire(c, n, sig)
             \/ DestroyReplica(c, n)
      PROVE  Announced'
  <2>1. UNCHANGED <<toClient, epoch, linked, connectedSources>>
    BY <1>3 DEF Acquire, DestroyReplica
  <2>2. \A d \in linked' : Keeps(d)
    BY <2>1
  <2>. QED  BY <1>0, <2>2, ForgetAnnounced DEF hostVars
<1>4. CASE OnClientRead(c) /\ ~ ClientDies(c)
  <2>1. /\ c \in linked /\ toClient[c] # <<>>
        /\ toClient' = [toClient EXCEPT ![c] = Tail(@)]
    BY <1>4, PacketIsRead
  <2>. QED  BY <1>4, <2>1, ReadMakesKnown, ReadAnnounced DEF hostVars
<1>. QED  BY <1>1, <1>2, <1>3, <1>4 DEF ClientNext, ClientCrash

-----------------------------------------------------------------------------
(* Values: the steps *)

(* Sending a packet that counts keeps the channels typed. *)
LEMMA SendCounted ==
  ASSUME TypeOK, NEW times \in [Conns -> Nat], NEW m \in Counted,
         toClient \in [Clients -> Seq(Counted)]
  PROVE  Send(times, m) \in [Clients -> Seq(Counted)]
<1>1. ASSUME NEW c \in linked
      PROVE  toClient[c] \o [i \in 1..times[Current(c)] |-> m] \in Seq(Counted)
  <2>1. Current(c) \in Conns /\ c \in Clients
    BY DEF TypeOK, WireTypeOK, Current, Conns
  <2>2. [i \in 1..times[Current(c)] |-> m] \in Seq(Counted)
    BY <2>1
  <2>. QED  BY <2>1, <2>2, ConcatProperties
<1>. QED  BY <1>1 DEF Send

(* The host sends no values of a source that never had any. *)
LEMMA CountsHost ==
  ASSUME TypeOK, ValuesCount, HostNext  PROVE ValuesCount'
<1>. DEFINE Others == ListPackets \cup RemovePackets
<1>0. /\ value \in [Names -> Nat] /\ sourceRoots \in ObjectTable
      /\ listeners \in [Names -> [Conns -> Nat]]
      /\ toClient \in [Clients -> Seq(Counted)]
      /\ \A n \in Names : value[n] # 0
  BY DEF TypeOK, HostTypeOK, ValuesCount, NoValue
<1>1. Others \subseteq Counted
  BY DEF Counted, Packets, ListPackets, RemovePackets, ValuePackets
<1>2. ASSUME NEW type \in {"Init", "InitDynamic", "PropertyChange"},
             NEW n \in Names, NEW v \in Nat \ {0}
      PROVE  ValuePacket(type, n, v) \in Counted
  BY DEF ValuePacket, Counted, Packets, ValuePackets, NoValue
<1>3. ASSUME NEW n \in Names, NEW sig \in SourceSignatures, EnableRemoting(n, sig)
      PROVE  ValuesCount'
  <2>. DEFINE m == ObjectList([EmptyTable EXCEPT ![n] = sig])
  <2>1. m \in Others
    BY DEF ObjectList, ListPackets, EmptyTable, ObjectTable
  <2>2. toClient' = Send(Once(connections), m) /\ value' = value
    BY <1>3 DEF EnableRemoting
  <2>. HIDE DEF m
  <2>. QED  BY <1>0, <1>1, <2>1, <2>2, OnceType, SendCounted DEF ValuesCount, NoValue
<1>4. ASSUME NEW n \in Names, DisableRemoting(n)
      PROVE  ValuesCount'
  <2>1. RemoveObject(n) \in Others /\ listeners[n] \in [Conns -> Nat]
    BY <1>0 DEF RemoveObject, RemovePackets
  <2>2. toClient' = Send(listeners[n], RemoveObject(n)) /\ value' = value
    BY <1>4 DEF DisableRemoting
  <2>. QED  BY <1>0, <1>1, <2>1, <2>2, SendCounted DEF ValuesCount, NoValue
<1>5. ASSUME NEW n \in Names, SetProperty(n)
      PROVE  ValuesCount'
  <2>1. /\ toClient' = Send(listeners[n], ValuePacket("PropertyChange", n, value[n] + 1))
        /\ value' = [value EXCEPT ![n] = @ + 1]
    BY <1>5 DEF SetProperty
  <2>2. ValuePacket("PropertyChange", n, value[n] + 1) \in Counted
        /\ listeners[n] \in [Conns -> Nat]
    BY <1>0, <1>2
  <2>3. \A k \in Names : value'[k] # 0
    BY <1>0, <2>1
  <2>. QED  BY <1>0, <2>1, <2>2, <2>3, SendCounted DEF ValuesCount, NoValue
<1>6. ASSUME NEW cc \in Conns, NewConnection(cc)
      PROVE  ValuesCount'
  <2>1. ObjectList(sourceRoots) \in Others
    BY <1>0 DEF ObjectList, ListPackets
  <2>2. toClient' = Send(Once({cc}), ObjectList(sourceRoots)) /\ value' = value
    BY <1>6 DEF NewConnection
  <2>. QED  BY <1>0, <1>1, <2>1, <2>2, OnceType, SendCounted DEF ValuesCount, NoValue
<1>7. ASSUME NEW cc \in Conns,
             \/ OnServerDisconnect(cc)
             \/ ServerDropAddObject(cc)
             \/ ServerReadRemoveObject(cc)
      PROVE  ValuesCount'
  BY <1>7 DEF OnServerDisconnect, ServerDropAddObject, ServerReadRemoveObject,
              hostVars, ValuesCount
<1>8. ASSUME NEW cc \in Conns, ServerReadAddObject(cc)
      PROVE  ValuesCount'
  <2>1. PICK name \in Names, type \in {"Init", "InitDynamic"} :
          toClient' = Send(Once({cc}), ValuePacket(type, name, value[name]))
    <3>1. /\ toHost[cc] # <<>> /\ Head(toHost[cc]).type = "AddObject"
          /\ Head(toHost[cc]) \in Requests
      BY <1>8, ServerReadsType DEF ServerReadAddObject, ServerReads
    <3>2. Head(toHost[cc]).name \in Names
      BY <3>1 DEF Requests, AddPackets, RemovePackets
    <3>. QED  BY <1>8, <3>2 DEF ServerReadAddObject
  <2>2. ValuePacket(type, name, value[name]) \in Counted
    BY <1>0, <1>2
  <2>3. value' = value
    BY <1>8 DEF ServerReadAddObject
  <2>. QED  BY <1>0, <2>1, <2>2, <2>3, OnceType, SendCounted DEF ValuesCount, NoValue
<1>. QED  BY <1>3, <1>4, <1>5, <1>6, <1>7, <1>8 DEF HostNext, OnServerRead

(* Reading leaves the values that are in flight. *)
LEMMA CountsClient ==
  ASSUME TypeOK, ValuesCount, NEW c \in Clients, ClientNext(c)  PROVE ValuesCount'
<1>1. value' = value
  BY ClientLeavesHost DEF hostVars
<1>2. toClient \in [Clients -> Seq(Counted)]
  BY DEF ValuesCount
<1>3. \/ toClient' = toClient
      \/ toClient' = [toClient EXCEPT ![c] = <<>>]
      \/ toClient[c] # <<>> /\ toClient' = [toClient EXCEPT ![c] = Tail(@)]
  <2>1. CASE ConnectToServer(c) \/ OnShouldReconnect(c) \/ ClientDies(c)
    BY <2>1 DEF ConnectToServer, OnShouldReconnect, ClientDies
  <2>2. ASSUME NEW n \in Names,
               \/ \E sig \in ReplicaSignatures : Acquire(c, n, sig)
               \/ DestroyReplica(c, n)
        PROVE  toClient' = toClient
    BY <2>2 DEF Acquire, DestroyReplica
  <2>3. CASE OnClientRead(c) /\ ~ ClientDies(c)
    BY <2>3, PacketIsRead
  <2>. QED  BY <2>1, <2>2, <2>3 DEF ClientNext, ClientCrash
<1>4. toClient[c] # <<>> => Tail(toClient[c]) \in Seq(Counted)
  BY <1>2, HeadTailProperties
<1>5. toClient' \in [Clients -> Seq(Counted)]
  <2>. HIDE DEF Counted
  <2>1. CASE toClient' = toClient
    BY <1>2, <2>1
  <2>2. CASE toClient' = [toClient EXCEPT ![c] = <<>>]
    BY <1>2, <2>2, EmptySeq
  <2>3. CASE toClient[c] # <<>> /\ toClient' = [toClient EXCEPT ![c] = Tail(@)]
    BY <1>2, <1>4, <2>3
  <2>. QED  BY <1>3, <2>1, <2>2, <2>3
<1>. QED  BY <1>1, <1>5 DEF ValuesCount

-----------------------------------------------------------------------------
(* Replicas: the steps *)

ReplicaOK(c, n) ==
  /\ n \in replicas[c] \ attached[c] /\ connectedSources[c][n] # NoSource
       => state[c][n] = SignatureMismatch
  /\ state[c][n] = Valid => n \in attached[c] /\ stored[c][n] # NoValue

(* Both invariants say ReplicaOK of each replica. *)
LEMMA EachReplicaOK ==
  ASSUME TypeOK
  PROVE  DetachedMismatches /\ ValidIsAttached
           <=> \A c \in Clients, n \in Names : ReplicaOK(c, n)
BY DEF TypeOK, ReplicaSetsOK, DetachedMismatches, ValidIsAttached, ReplicaOK

(* What a client does leaves the replicas of the others alone. *)
LEMMA OtherReplicas ==
  ASSUME TypeOK, NEW c \in Clients, ClientNext(c), NEW d \in Clients \ {c}
  PROVE  /\ replicas'[d] = replicas[d] /\ attached'[d] = attached[d]
         /\ connectedSources'[d] = connectedSources[d]
         /\ state'[d] = state[d] /\ stored'[d] = stored[d]
<1>0. /\ replicas \in [Clients -> SUBSET Names] /\ attached \in [Clients -> SUBSET Names]
      /\ connectedSources \in [Clients -> ObjectTable]
      /\ state \in [Clients -> [Names -> Uninitialized..SignatureMismatch]]
      /\ stored \in [Clients -> [Names -> Nat]]
  BY DEF TypeOK, ClientTypeOK, ReplicaSetsOK
<1>1. CASE ConnectToServer(c) \/ OnShouldReconnect(c)
  BY <1>0, <1>1 DEF ConnectToServer, OnShouldReconnect, replicaVars
<1>2. CASE ClientDies(c)
  BY <1>0, <1>2 DEF ClientDies, NoReplicaState
<1>3. ASSUME NEW n \in Names, NEW sig \in ReplicaSignatures, Acquire(c, n, sig)
      PROVE  /\ replicas'[d] = replicas[d] /\ attached'[d] = attached[d]
             /\ connectedSources'[d] = connectedSources[d]
             /\ state'[d] = state[d] /\ stored'[d] = stored[d]
  BY <1>0, <1>3 DEF Acquire
<1>4. ASSUME NEW n \in Names, DestroyReplica(c, n)
      PROVE  /\ replicas'[d] = replicas[d] /\ attached'[d] = attached[d]
             /\ connectedSources'[d] = connectedSources[d]
             /\ state'[d] = state[d] /\ stored'[d] = stored[d]
  BY <1>0, <1>4 DEF DestroyReplica
<1>5. CASE ReadObjectList(c)
  BY <1>0, <1>5 DEF ReadObjectList
<1>6. CASE ReadRemoveObject(c)
  BY <1>0, <1>6 DEF ReadRemoveObject
<1>7. CASE (ReadInit(c) \/ ReadInitDynamic(c)) /\ ~ ClientDies(c)
  BY <1>0, <1>7 DEF ReadInit, ReadInitDynamic, Initialize, replicaVars
<1>8. CASE ReadPropertyChange(c) /\ ~ ClientDies(c)
  BY <1>0, <1>8 DEF ReadPropertyChange
<1>. QED  BY <1>1, <1>2, <1>3, <1>4, <1>5, <1>6, <1>7, <1>8
          DEF ClientNext, ClientCrash, OnClientRead

(* setState: a mismatch stays one, and a replica that is Suspect was lost. *)
LEMMA SetStates ==
  ASSUME NEW old \in Uninitialized..SignatureMismatch
  PROVE  /\ SetState(old, SignatureMismatch) = SignatureMismatch
         /\ SetState(old, Suspect) # Valid
         /\ SetState(SignatureMismatch, Valid) = SignatureMismatch
BY DEF SetState, Uninitialized, Valid, Suspect, SignatureMismatch

(* What a client does leaves its replicas attached, or told otherwise by   *)
(* what is still in flight.                                                *)
LEMMA ReplicasClient ==
  ASSUME TypeOK, AttachedIsKnown, InitsAnnounced, ValuesCount, NEW c \in Clients,
         \A n \in Names : ReplicaOK(c, n), ClientNext(c)
  PROVE  \A n \in Names : ReplicaOK(c, n)'
<1>. DEFINE m == Head(toClient[c])
<1>0. /\ replicas \in [Clients -> SUBSET Names] /\ attached \in [Clients -> SUBSET Names]
      /\ connectedSources \in [Clients -> ObjectTable]
      /\ state \in [Clients -> [Names -> Uninitialized..SignatureMismatch]]
      /\ stored \in [Clients -> [Names -> Nat]]
      /\ attached[c] \subseteq replicas[c]
  BY DEF TypeOK, ClientTypeOK, ReplicaSetsOK
<1>1. CASE ConnectToServer(c)
  BY <1>1 DEF ConnectToServer, replicaVars, ReplicaOK
<1>2. CASE OnShouldReconnect(c)
  <2>1. /\ replicas' = replicas /\ stored' = stored
        /\ connectedSources' = [connectedSources EXCEPT ![c] = EmptyTable]
        /\ state' = [state EXCEPT ![c] = [n \in Names |->
                       IF n \in attached[c] /\ connectedSources[c][n] # NoSource
                       THEN SetState(@[n], Suspect) ELSE @[n]]]
    BY <1>2 DEF OnShouldReconnect
  <2>2. \A n \in attached[c] : connectedSources[c][n] # NoSource
    BY DEF AttachedIsKnown
  <2>3. \A n \in Names : connectedSources'[c][n] = NoSource
    BY <1>0, <2>1 DEF EmptyTable
  <2>4. \A n \in Names : state'[c][n] = IF n \in attached[c]
                                        THEN SetState(state[c][n], Suspect)
                                        ELSE state[c][n]
    BY <1>0, <2>1, <2>2
  <2>5. \A n \in Names : state'[c][n] # Valid
    BY <1>0, <2>4, SetStates DEF ReplicaOK
  <2>. QED  BY <2>3, <2>5 DEF ReplicaOK
<1>3. CASE ClientDies(c)
  <2>1. replicas'[c] = {} /\ \A n \in Names : state'[c][n] = Uninitialized
    BY <1>0, <1>3 DEF ClientDies, NoReplicaState
  <2>. QED  BY <2>1 DEF ReplicaOK, Uninitialized, Valid
<1>4. ASSUME NEW n \in Names, NEW sig \in ReplicaSignatures, Acquire(c, n, sig)
      PROVE  \A k \in Names : ReplicaOK(c, k)'
  <2>. DEFINE source == connectedSources[c][n]
              matches == CheckSignatures(sig, source)
              initial == IF sig = NoSignature THEN Uninitialized ELSE Default
  <2>1. /\ n \notin replicas[c] /\ connectedSources' = connectedSources
        /\ replicas' = [replicas EXCEPT ![c] = @ \cup {n}]
        /\ stored' = [stored EXCEPT ![c][n] = NoValue]
        /\ state' = [state EXCEPT ![c][n] =
                       IF source # NoSource /\ ~ matches
                       THEN SetState(initial, SignatureMismatch) ELSE initial]
        /\ attached' = [attached EXCEPT ![c] =
                          IF source # NoSource /\ matches THEN @ \cup {n} ELSE @]
    BY <1>4 DEF Acquire
  <2>2. initial \in Uninitialized..SignatureMismatch /\ initial # Valid
    BY DEF Uninitialized, Default, Valid, SignatureMismatch
  <2>. HIDE DEF matches, initial
  <2>3. ReplicaOK(c, n)'
    BY <1>0, <2>1, <2>2, SetStates DEF ReplicaOK, SignatureMismatch, Valid
  <2>4. \A k \in Names \ {n} : ReplicaOK(c, k)'
    BY <1>0, <2>1 DEF ReplicaOK
  <2>. QED  BY <2>3, <2>4
<1>5. ASSUME NEW n \in Names, DestroyReplica(c, n)
      PROVE  \A k \in Names : ReplicaOK(c, k)'
  <2>1. /\ connectedSources' = connectedSources
        /\ replicas' = [replicas EXCEPT ![c] = @ \ {n}]
        /\ stored' = [stored EXCEPT ![c][n] = NoValue]
        /\ state' = [state EXCEPT ![c][n] = Uninitialized]
        /\ attached' = [attached EXCEPT ![c] = @ \ {n}]
    BY <1>5 DEF DestroyReplica
  <2>2. ReplicaOK(c, n)'
    BY <1>0, <2>1 DEF ReplicaOK, Uninitialized, Valid
  <2>3. \A k \in Names \ {n} : ReplicaOK(c, k)'
    BY <1>0, <2>1 DEF ReplicaOK
  <2>. QED  BY <2>2, <2>3
<1>6. CASE ReadObjectList(c)
  <2>. DEFINE listed == m.objects
              known == [n \in Names |-> IF connectedSources[c][n] = NoSource
                                        THEN listed[n] ELSE connectedSources[c][n]]
              waiting == Waiting(c, listed)
              matching == {n \in waiting : CheckSignatures(signature[c][n], known[n])}
  <2>1. /\ UNCHANGED <<replicas, stored>>
        /\ connectedSources' = [connectedSources EXCEPT ![c] = known]
        /\ attached' = [attached EXCEPT ![c] = @ \cup matching]
        /\ state' = [state EXCEPT ![c] = [n \in Names |->
                       IF n \in waiting \ matching
                       THEN SetState(@[n], SignatureMismatch) ELSE @[n]]]
    BY <1>6 DEF ReadObjectList
  <2>2. \A n \in Names : n \in waiting <=>
          n \in replicas[c] \ attached[c] /\ listed[n] # NoSource
    BY <1>0 DEF Waiting
  <2>3. \A n \in Names : connectedSources'[c][n] =
          IF connectedSources[c][n] = NoSource THEN listed[n] ELSE connectedSources[c][n]
    BY <1>0, <2>1
  <2>4. matching \subseteq waiting
    OBVIOUS
  <2>. HIDE DEF waiting, matching, known
  <2>5. \A n \in Names : /\ n \in attached'[c] <=> n \in attached[c] \cup matching
                         /\ state'[c][n] = IF n \in waiting \ matching
                                           THEN SetState(state[c][n], SignatureMismatch)
                                           ELSE state[c][n]
    BY <1>0, <2>1
  <2>6. ASSUME NEW n \in Names  PROVE ReplicaOK(c, n)'
    <3>1. CASE n \in waiting \ matching
      BY <1>0, <2>5, <3>1, SetStates DEF ReplicaOK, SignatureMismatch, Valid
    <3>2. CASE n \in matching
      BY <2>1, <2>4, <2>5, <3>2 DEF ReplicaOK
    <3>3. CASE n \notin waiting
      BY <2>1, <2>2, <2>3, <2>4, <2>5, <3>3 DEF ReplicaOK
    <3>. QED  BY <3>1, <3>2, <3>3
  <2>. QED  BY <2>6
<1>7. CASE ReadRemoveObject(c)
  <2>1. /\ UNCHANGED <<replicas, stored>>
        /\ connectedSources' = [connectedSources EXCEPT ![c][m.name] = NoSource]
        /\ attached' = [attached EXCEPT ![c] = @ \ {m.name}]
        /\ state' = IF m.name \in attached[c]
                    THEN [state EXCEPT ![c][m.name] = SetState(@, Suspect)] ELSE state
    BY <1>7 DEF ReadRemoveObject
  <2>2. PICK k : k = m.name
    OBVIOUS
  <2>3. ASSUME k \in Names  PROVE ReplicaOK(c, k)'
    <3>1. connectedSources'[c][k] = NoSource
      BY <1>0, <2>1, <2>2, <2>3 DEF ObjectTable
    <3>2. state'[c][k] # Valid
      BY <1>0, <2>1, <2>2, <2>3, SetStates DEF ReplicaOK
    <3>. QED  BY <3>1, <3>2 DEF ReplicaOK
  <2>4. ASSUME NEW n \in Names, n # k  PROVE ReplicaOK(c, n)'
    BY <1>0, <2>1, <2>2, <2>4 DEF ReplicaOK, ObjectTable
  <2>. QED  BY <2>3, <2>4
<1>8. CASE (ReadInit(c) \/ ReadInitDynamic(c)) /\ ~ ClientDies(c)
  <2>1. /\ UNCHANGED <<replicas, attached, connectedSources>>
        /\ m.type \in {"Init", "InitDynamic"} /\ c \in linked /\ toClient[c] # <<>>
        /\ \/ m.name \notin replicas[c] /\ UNCHANGED <<state, stored>>
           \/ /\ m.name \in replicas[c]
              /\ stored' = [stored EXCEPT ![c][m.name] = m.value]
              /\ state' = [state EXCEPT ![c][m.name] = SetState(@, Valid)]
    BY <1>8 DEF ReadInit, ReadInitDynamic, Initialize, ClientReads, replicaVars
  <2>2. CASE m.name \notin replicas[c]
    BY <2>1, <2>2 DEF ReplicaOK
  <2>3. CASE m.name \in replicas[c]
    <3>1. m.name \in Names
      BY <1>0, <2>3
    <3>2. connectedSources[c][m.name] # NoSource
      <4>1. toClient[c] \in Seq(Packets) /\ toClient[c] # <<>>
        BY <2>1 DEF TypeOK, WireTypeOK
      <4>2. 1 \in DOMAIN toClient[c] /\ toClient[c][1] = m
        BY <4>1, EmptySeq, LenProperties, HeadTailProperties
      <4>3. Initializes(toClient[c][1], m.name)
        BY <2>1, <4>2 DEF Initializes
      <4>4. KnownAfter(connectedSources[c][m.name], toClient[c], m.name, 1 - 1)
        BY <2>1, <3>1, <4>2, <4>3 DEF InitsAnnounced
      <4>. QED  BY <4>4 DEF KnownAfter
    <3>3. m.value # NoValue
      <4>1. toClient[c] \in Seq(Counted) /\ toClient[c] # <<>>
        BY <2>1 DEF ValuesCount
      <4>2. m \in Counted
        BY <4>1, HeadTailProperties
      <4>3. m \in ValuePackets
        BY <2>1, <4>2 DEF Counted, Packets, ListPackets, RemovePackets
      <4>. QED  BY <4>2, <4>3 DEF Counted
    <3>4. /\ stored'[c][m.name] = m.value
          /\ state'[c][m.name] = SetState(state[c][m.name], Valid)
      BY <1>0, <2>1, <2>3, <3>1
    <3>5. PICK k : k = m.name
      OBVIOUS
    <3>6. ReplicaOK(c, k)'
      <4>1. CASE k \in attached[c]
        BY <2>1, <3>3, <3>4, <3>5, <4>1 DEF ReplicaOK
      <4>2. CASE k \notin attached[c]
        <5>1. state[c][k] = SignatureMismatch
          BY <2>3, <3>1, <3>2, <3>5, <4>2 DEF ReplicaOK
        <5>2. state'[c][k] = SignatureMismatch
          BY <3>4, <3>5, <5>1, SetStates DEF Uninitialized, SignatureMismatch
        <5>. QED  BY <5>2 DEF ReplicaOK, SignatureMismatch, Valid
      <4>. QED  BY <4>1, <4>2
    <3>7. ASSUME NEW n \in Names, n # k  PROVE ReplicaOK(c, n)'
      BY <1>0, <2>1, <3>5, <3>7 DEF ReplicaOK
    <3>. QED  BY <3>6, <3>7
  <2>. QED  BY <2>2, <2>3
<1>9. CASE ReadPropertyChange(c) /\ ~ ClientDies(c)
  <2>1. /\ UNCHANGED <<replicas, attached, connectedSources, state>>
        /\ m.type = "PropertyChange" /\ c \in linked /\ toClient[c] # <<>>
        /\ stored' = IF m.name \in replicas[c]
                     THEN [stored EXCEPT ![c][m.name] = m.value] ELSE stored
    BY <1>9 DEF ReadPropertyChange, ClientReads
  <2>2. m.value # NoValue
    <3>1. toClient[c] \in Seq(Counted) /\ toClient[c] # <<>>
      BY <2>1 DEF ValuesCount
    <3>2. m \in Counted
      BY <3>1, HeadTailProperties
    <3>3. m \in ValuePackets
      BY <2>1, <3>2 DEF Counted, Packets, ListPackets, RemovePackets
    <3>. QED  BY <3>2, <3>3 DEF Counted
  <2>3. \A n \in Names : stored'[c][n] \in {stored[c][n], m.value}
    BY <1>0, <2>1
  <2>. QED  BY <2>1, <2>2, <2>3 DEF ReplicaOK
<1>. QED  BY <1>1, <1>2, <1>3, <1>4, <1>5, <1>6, <1>7, <1>8, <1>9
          DEF ClientNext, ClientCrash, OnClientRead

(* Every step keeps each replica attached, or told otherwise. *)
LEMMA ReplicasStep ==
  ASSUME TypeOK, TypeOK', AttachedIsKnown, InitsAnnounced, ValuesCount,
         DetachedMismatches, ValidIsAttached, [Next]_vars
  PROVE  DetachedMismatches' /\ ValidIsAttached'
<1>1. \A c \in Clients, n \in Names : ReplicaOK(c, n)
  BY EachReplicaOK
<1>2. ASSUME UNCHANGED clientVars
      PROVE  DetachedMismatches' /\ ValidIsAttached'
  BY <1>2 DEF clientVars, replicaVars, DetachedMismatches, ValidIsAttached
<1>3. ASSUME HostNext  PROVE UNCHANGED clientVars
  BY <1>3 DEF HostNext, OnServerRead, EnableRemoting, DisableRemoting, SetProperty,
              NewConnection, OnServerDisconnect, ServerReadAddObject,
              ServerDropAddObject, ServerReadRemoveObject
<1>4. ASSUME NEW c \in Clients, ClientNext(c)
      PROVE  DetachedMismatches' /\ ValidIsAttached'
  <2>1. \A n \in Names : ReplicaOK(c, n)'
    BY <1>1, <1>4, ReplicasClient
  <2>2. \A d \in Clients \ {c}, n \in Names : ReplicaOK(d, n)'
    BY <1>1, <1>4, OtherReplicas DEF ReplicaOK
  <2>3. \A d \in Clients, n \in Names : ReplicaOK(d, n)'
    BY <2>1, <2>2
  <2>4. TypeOK' => (DetachedMismatches' /\ ValidIsAttached'
                      <=> \A d \in Clients, n \in Names : ReplicaOK(d, n)')
    BY DEF TypeOK, ReplicaSetsOK, DetachedMismatches, ValidIsAttached, ReplicaOK
  <2>. QED  BY <2>3, <2>4
<1>5. UNCHANGED vars => UNCHANGED clientVars
  BY DEF vars
<1>. QED  BY <1>2, <1>3, <1>4, <1>5 DEF Next

(* Every step keeps ValidInv. *)
LEMMA ValidStep ==
  ASSUME TypeOK, TypeOK', NoDanglingListener, AttachedIsKnown, ValidInv, [Next]_vars
  PROVE  ValidInv'
<1>. USE DEF ValidInv
<1>1. NoFuture'
  BY NoFutureStep
<1>2. Announced'
  <2>1. CASE UNCHANGED vars
    BY <2>1 DEF vars, hostVars, wireVars, clientVars, Announced, SourcesAnnounced,
                InitsAnnounced, Current
  <2>. QED  BY <2>1, AnnouncedHost, AnnouncedClient DEF Next, Announced
<1>3. ValuesCount'
  <2>1. CASE UNCHANGED vars
    BY <2>1 DEF vars, hostVars, wireVars, ValuesCount
  <2>. QED  BY <2>1, CountsHost, CountsClient DEF Next
<1>4. DetachedMismatches' /\ ValidIsAttached'
  BY ReplicasStep
<1>. QED  BY <1>1, <1>2, <1>3, <1>4 DEF Announced

(* A replica that says Valid is attached to a source its node knows, and   *)
(* has values: no packet that is handled late revives it after its source  *)
(* is withdrawn, its connection lost or its signature refused, for the     *)
(* first values of a name never overtake the announcement of its source.   *)
THEOREM ValidAreAttached == Spec => []ValidIsAttached
<1>1. Init => ValidInv
  <2>1. Init => NoFuture /\ SourcesAnnounced /\ InitsAnnounced /\ DetachedMismatches
    BY DEF Init, NoFuture, SourcesAnnounced, InitsAnnounced, DetachedMismatches
  <2>2. Init => ValuesCount
    BY EmptySeq DEF Init, ValuesCount, NoValue
  <2>3. Init => ValidIsAttached
    BY DEF Init, ValidIsAttached, Uninitialized, Valid
  <2>. QED  BY <2>1, <2>2, <2>3 DEF ValidInv
<1>2. ValidInv => ValidIsAttached
  BY DEF ValidInv
<1>. QED  BY <1>1, <1>2, TypeCorrect, ListenersAreAlive, AttachmentIsKnown, ValidStep,
             PTL DEF Spec

-----------------------------------------------------------------------------
(* The changes of state a replica goes through in its life, in every order *)
(* of packets, losses and calls                                            *)

(* Only a replica without a signature starts Uninitialized, and none       *)
(* returns to that state: such a replica matches every source.             *)
UninitializedIsDynamic ==
  \A c \in Clients, n \in Names :
    state[c][n] = Uninitialized => signature[c][n] = NoSignature

(* The step of Lifecycle for one replica. *)
LifecycleOK(c, n) ==
  n \in replicas[c] \cap replicas'[c] /\ state'[c][n] # state[c][n] => LawfulMove(c, n)

(* What setState makes of a state, for the three states it is called with. *)
LEMMA SetStateCases ==
  ASSUME NEW s \in Uninitialized..SignatureMismatch
  PROVE  /\ SetState(s, Valid) # s => <<s, Valid>> \in Transitions
         /\ SetState(s, Valid) \in {s, Valid}
         /\ SetState(s, Suspect) # s => <<s, Suspect>> \in Transitions \cup EarlyLosses
         /\ SetState(s, Suspect) \in {s, Suspect}
         /\ SetState(s, SignatureMismatch) = SignatureMismatch
         /\ s \notin {Uninitialized, Valid, SignatureMismatch}
              => <<s, SignatureMismatch>> \in Transitions
         /\ SetState(s, Valid) # Uninitialized
         /\ SetState(s, Suspect) # Uninitialized
<1>1. s \in {0, 1, 2, 3, 4}
  BY DEF Uninitialized, SignatureMismatch
<1>2. \A new \in {2, 3, 4} :
        SetState(s, new) = IF s # 3 /\ s >= new THEN s ELSE new
  BY DEF SetState, Suspect
<1>. QED  BY <1>1, <1>2
          DEF Transitions, EarlyLosses, Uninitialized, Default, Valid, Suspect,
              SignatureMismatch

(* What a client does, and what happens to it, moves each of its replicas  *)
(* along a transition that is allowed.                                     *)
LEMMA LifecycleClient ==
  ASSUME TypeOK, TypeOK', ValidIsAttached, ValidIsAttached', UninitializedIsDynamic,
         NEW c \in Clients, ClientNext(c), NEW n \in Names
  PROVE  /\ LifecycleOK(c, n)
         /\ state'[c][n] = Uninitialized => signature'[c][n] = NoSignature
<1>. DEFINE s == state[c][n]
            m == Head(toClient[c])
<1>0. /\ s \in Uninitialized..SignatureMismatch
      /\ state \in [Clients -> [Names -> Uninitialized..SignatureMismatch]]
      /\ signature \in [Clients -> [Names -> ReplicaSignatures \cup {NoSignature}]]
      /\ replicas \in [Clients -> SUBSET Names]
      /\ s = Uninitialized => signature[c][n] = NoSignature
      /\ s = Valid => n \in attached[c]
      /\ state'[c][n] = Valid => n \in attached'[c]
  BY DEF TypeOK, ClientTypeOK, ReplicaSetsOK, UninitializedIsDynamic, ValidIsAttached
<1>a. ASSUME UNCHANGED <<state, signature>>
      PROVE  /\ LifecycleOK(c, n)
             /\ state'[c][n] = Uninitialized => signature'[c][n] = NoSignature
  BY <1>0, <1>a DEF LifecycleOK
<1>b. ASSUME UNCHANGED signature, NEW new \in {Valid, Suspect},
             \/ state'[c][n] = s
             \/ /\ state'[c][n] = SetState(s, new)
                /\ new = Suspect => n \in attached[c] \ attached'[c]
      PROVE  /\ LifecycleOK(c, n)
             /\ state'[c][n] = Uninitialized => signature'[c][n] = NoSignature
  <2>1. /\ state'[c][n] # s => <<s, state'[c][n]>> \in Transitions \cup EarlyLosses
        /\ state'[c][n] \in {s, new}
        /\ state'[c][n] = Uninitialized => s = Uninitialized
    BY <1>0, <1>b, SetStateCases
  <2>2. state'[c][n] = SignatureMismatch => state'[c][n] = s
    BY <2>1 DEF Valid, Suspect, SignatureMismatch
  <2>3. state'[c][n] # s /\ state'[c][n] = Suspect => n \in attached[c] \ attached'[c]
    BY <1>b, <2>1 DEF Valid, Suspect
  <2>. QED  BY <1>0, <1>b, <2>1, <2>2, <2>3 DEF LifecycleOK, LawfulMove
<1>c. ASSUME ClientDies(c)
      PROVE  /\ LifecycleOK(c, n)
             /\ state'[c][n] = Uninitialized => signature'[c][n] = NoSignature
  BY <1>0, <1>c DEF ClientDies, NoReplicaState, LifecycleOK
<1>1. CASE ConnectToServer(c)
  BY <1>1, <1>a DEF ConnectToServer, replicaVars
<1>2. CASE OnShouldReconnect(c)
  <2>1. /\ UNCHANGED signature
        /\ \/ state'[c][n] = s
           \/ /\ state'[c][n] = SetState(s, Suspect)
              /\ n \in attached[c] \ attached'[c]
    BY <1>0, <1>2 DEF OnShouldReconnect, TypeOK, ReplicaSetsOK
  <2>. QED  BY <1>b, <2>1
<1>3. CASE ClientCrash(c)
  BY <1>3, <1>c DEF ClientCrash
<1>4. CASE \E k \in Names, sig \in ReplicaSignatures : Acquire(c, k, sig)
  <2>1. PICK k \in Names, sig \in ReplicaSignatures : Acquire(c, k, sig)
    BY <1>4
  <2>2. CASE n = k
    <3>1. n \notin replicas[c] /\ signature'[c][n] = sig
      BY <1>0, <2>1, <2>2 DEF Acquire
    <3>2. \/ state'[c][n] = IF sig = NoSignature THEN Uninitialized ELSE Default
          \/ state'[c][n] = SignatureMismatch
      BY <1>0, <2>1, <2>2
      DEF Acquire, SetState, Uninitialized, Default, Suspect, SignatureMismatch
    <3>3. state'[c][n] = Uninitialized => sig = NoSignature
      BY <3>2 DEF Uninitialized, Default, SignatureMismatch
    <3>. QED  BY <3>1, <3>3 DEF LifecycleOK
  <2>3. CASE n # k
    BY <1>0, <2>1, <2>3 DEF Acquire, LifecycleOK
  <2>. QED  BY <2>2, <2>3
<1>5. CASE \E k \in Names : DestroyReplica(c, k)
  <2>1. PICK k \in Names : DestroyReplica(c, k)
    BY <1>5
  <2>2. n = k => n \notin replicas'[c] /\ signature'[c][n] = NoSignature
    BY <1>0, <2>1 DEF DestroyReplica
  <2>3. n # k => state'[c][n] = s /\ signature'[c][n] = signature[c][n]
    BY <1>0, <2>1 DEF DestroyReplica
  <2>. QED  BY <1>0, <2>2, <2>3 DEF LifecycleOK
<1>6. CASE ReadObjectList(c)
  <2>. DEFINE listed == m.objects
              known == [k \in Names |-> IF connectedSources[c][k] = NoSource
                                        THEN listed[k] ELSE connectedSources[c][k]]
              waiting == Waiting(c, listed)
              matching == {k \in waiting : CheckSignatures(signature[c][k], known[k])}
  <2>1. /\ UNCHANGED signature
        /\ state' = [state EXCEPT ![c] = [k \in Names |->
                       IF k \in waiting \ matching
                       THEN SetState(@[k], SignatureMismatch) ELSE @[k]]]
    BY <1>6 DEF ReadObjectList
  <2>2. CASE n \in waiting \ matching
    <3>1. /\ n \notin attached[c] /\ signature[c][n] # NoSignature
          /\ known[n] # NoSource /\ ~ CheckSignatures(signature[c][n], known[n])
      BY <2>2 DEF Waiting, CheckSignatures
    <3>6. connectedSources'[c] = known
      BY <1>0, <1>6 DEF ReadObjectList, TypeOK, ClientTypeOK
    <3>2. state'[c][n] = SignatureMismatch
      BY <1>0, <2>1, <2>2, SetStateCases
    <3>3. s \notin {Uninitialized, Valid}
      BY <1>0, <3>1
    <3>4. s # SignatureMismatch => <<s, SignatureMismatch>> \in Transitions
      BY <1>0, <3>3, SetStateCases
    <3>5. SignatureMismatch \notin {Uninitialized, Valid, Suspect}
      BY DEF SignatureMismatch, Uninitialized, Valid, Suspect
    <3>. QED  BY <3>1, <3>2, <3>4, <3>5, <3>6 DEF LifecycleOK, LawfulMove
  <2>3. CASE n \notin waiting \ matching
    <3>1. state'[c][n] = s
      BY <1>0, <2>1, <2>3
    <3>. QED  BY <1>0, <2>1, <3>1 DEF LifecycleOK
  <2>. QED  BY <2>2, <2>3
<1>7. CASE ReadInit(c) \/ ReadInitDynamic(c)
  <2>1. CASE ClientDies(c)
    BY <1>c, <2>1
  <2>2. CASE ~ ClientDies(c)
    <3>1. \/ UNCHANGED <<state, signature>>
          \/ \E k \in Names : \E v : Initialize(c, k, v)
      <4>1. m.name \in replicas[c] => m.name \in Names
        BY <1>0
      <4>. QED  BY <1>7, <2>2, <4>1 DEF ReadInit, ReadInitDynamic, replicaVars
    <3>2. ASSUME NEW k \in Names, NEW v, Initialize(c, k, v)
          PROVE  UNCHANGED signature /\ state'[c][n] \in {s, SetState(s, Valid)}
      BY <1>0, <3>2 DEF Initialize
    <3>3. Valid # Suspect
      BY DEF Valid, Suspect
    <3>. QED  BY <1>a, <1>b, <3>1, <3>2, <3>3
  <2>. QED  BY <2>1, <2>2
<1>8. CASE ReadPropertyChange(c)
  <2>1. ClientDies(c) \/ UNCHANGED <<state, signature>>
    BY <1>8 DEF ReadPropertyChange
  <2>. QED  BY <1>a, <1>c, <2>1
<1>9. CASE ReadRemoveObject(c)
  <2>1. /\ UNCHANGED signature
        /\ \/ state'[c][n] = s
           \/ /\ state'[c][n] = SetState(s, Suspect)
              /\ n \in attached[c] \ attached'[c]
    BY <1>0, <1>9 DEF ReadRemoveObject, TypeOK, ReplicaSetsOK
  <2>. QED  BY <1>b, <2>1
<1>. QED  BY <1>1, <1>2, <1>3, <1>4, <1>5, <1>6, <1>7, <1>8, <1>9
          DEF ClientNext, OnClientRead

(* A client changes the state and the signature of its own replicas only.  *)
LEMMA OtherLives ==
  ASSUME TypeOK, NEW c \in Clients, ClientNext(c), NEW d \in Clients \ {c}
  PROVE  state'[d] = state[d] /\ signature'[d] = signature[d]
<1>1. state'[d] = state[d]
  BY OtherReplicas
<1>2. signature \in [Clients -> [Names -> ReplicaSignatures \cup {NoSignature}]]
  BY DEF TypeOK, ClientTypeOK
<1>3. \/ UNCHANGED signature
      \/ ClientDies(c)
      \/ \E n \in Names, sig \in ReplicaSignatures : Acquire(c, n, sig)
      \/ \E n \in Names : DestroyReplica(c, n)
  BY DEF ClientNext, ConnectToServer, OnShouldReconnect, ClientCrash, OnClientRead,
         ReadObjectList, ReadInit, ReadInitDynamic, ReadPropertyChange,
         ReadRemoveObject, Initialize, replicaVars
<1>4. CASE ClientDies(c)
  BY <1>1, <1>2, <1>4 DEF ClientDies, NoReplicaState
<1>5. ASSUME NEW n \in Names, NEW sig \in ReplicaSignatures, Acquire(c, n, sig)
      PROVE  signature'[d] = signature[d]
  BY <1>2, <1>5 DEF Acquire
<1>6. ASSUME NEW n \in Names, DestroyReplica(c, n)
      PROVE  signature'[d] = signature[d]
  BY <1>2, <1>6 DEF DestroyReplica
<1>. QED  BY <1>1, <1>3, <1>4, <1>5, <1>6

(* Every step moves each replica along a transition that is allowed. *)
LEMMA LifecycleStep ==
  ASSUME TypeOK, TypeOK', ValidIsAttached, ValidIsAttached', UninitializedIsDynamic,
         [Next]_vars
  PROVE  /\ \A c \in Clients, n \in Names : LifecycleOK(c, n)
         /\ UninitializedIsDynamic'
<1>1. ASSUME UNCHANGED clientVars
      PROVE  /\ \A c \in Clients, n \in Names : LifecycleOK(c, n)
             /\ UninitializedIsDynamic'
  BY <1>1 DEF clientVars, replicaVars, LifecycleOK, UninitializedIsDynamic
<1>2. ASSUME HostNext  PROVE UNCHANGED clientVars
  BY <1>2 DEF HostNext, OnServerRead, EnableRemoting, DisableRemoting, SetProperty,
              NewConnection, OnServerDisconnect, ServerReadAddObject,
              ServerDropAddObject, ServerReadRemoveObject
<1>3. ASSUME NEW c \in Clients, ClientNext(c)
      PROVE  /\ \A d \in Clients, n \in Names : LifecycleOK(d, n)
             /\ UninitializedIsDynamic'
  <2>1. \A n \in Names :
          /\ LifecycleOK(c, n)
          /\ state'[c][n] = Uninitialized => signature'[c][n] = NoSignature
    BY <1>3, LifecycleClient
  <2>2. \A d \in Clients \ {c}, n \in Names :
          state'[d][n] = state[d][n] /\ signature'[d][n] = signature[d][n]
    BY <1>3, OtherLives
  <2>3. \A d \in Clients, n \in Names :
          /\ LifecycleOK(d, n)
          /\ state'[d][n] = Uninitialized => signature'[d][n] = NoSignature
    BY <2>1, <2>2 DEF LifecycleOK, UninitializedIsDynamic
  <2>. QED  BY <2>3 DEF UninitializedIsDynamic
<1>4. UNCHANGED vars => UNCHANGED clientVars
  BY DEF vars
<1>. QED  BY <1>1, <1>2, <1>3, <1>4 DEF Next

(* The state of a living replica changes only by what happens to its       *)
(* connection to the source, as LawfulMove says (setState and its          *)
(* callers): values never revive one whose signature was refused or that   *)
(* is detached, and a loss makes it Suspect and nothing else.  It rests on *)
(* ValidIsAttached: a Valid replica is attached, so that no list of        *)
(* objects can find that it does not match.                                *)
THEOREM LivesAreOrderly == Spec => Lifecycle
<1>1. Init => UninitializedIsDynamic
  BY DEF Init, UninitializedIsDynamic
<1>2. ASSUME TypeOK, TypeOK', \A c \in Clients, n \in Names : LifecycleOK(c, n)
      PROVE  [\A c \in Clients : \A n \in replicas[c] \cap replicas'[c] :
                state'[c][n] # state[c][n] => LawfulMove(c, n)]_vars
  BY <1>2 DEF TypeOK, ReplicaSetsOK, LifecycleOK
<1>. QED  BY <1>1, <1>2, TypeCorrect, ValidAreAttached, LifecycleStep,
             PTL DEF Spec, Lifecycle

=============================================================================
