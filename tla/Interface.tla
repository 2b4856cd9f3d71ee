------------------------------ MODULE Interface ------------------------------
(***************************************************************************)
(* The tables by which both ends number the members of one interface.  A   *)
(* packet names a signal, a slot or a property by its index alone, and the *)
(* tables are made by different code: repc writes the Source, the Replica  *)
(* and the SourceAPI of a class of a .rep file, DynamicApiMap reads any    *)
(* QObject, and a dynamic replica builds its metaobject from a definition  *)
(* it was sent.  The initial states choose what is published and how, and  *)
(* how it is acquired; then both ends use the interface.                   *)
(*                                                                         *)
(* A name is a pair of strings.  An index counts from 1 and 0 is what -1   *)
(* is in the code; offsets of the members of QObject and of                *)
(* QRemoteObjectReplica are left out.  At most one property is a pointer,  *)
(* to an object t of the declared class, with one property x, to u, of a   *)
(* class derived from it that adds a property y, or to none.  The replica  *)
(* is connected for good: SourceReplica is about lost connections.         *)
(***************************************************************************)
EXTENDS Naturals, Sequences, SequencesExt

CONSTANTS
  Designs,     \* what is published and acquired: see DesignsAreClasses
  MaxEvents    \* bound: signals, changes, calls and writes

VARIABLES
  \* The program at the source
  design,   \* the initial choice
  object,   \* its metaobject
  value,    \* values of its properties
  kid,      \* values of the properties of t and u
  \* The host
  api,      \* the SourceApiMap
  host,     \* the root source and its child source
  \* The wires, the replica's node
  up, down,
  meta,     \* m_metaObject
  replica,  \* m_propertyStorage, the child replica, dynamicTypes
  \* The program at the replica: what it has read of the replica and its child
  seen, seenKid,
  \* History
  due,      \* signals emitted and not heard yet
  wanted,   \* calls made and not performed yet
  wrong,    \* pairs of what was expected and what came
  events

vars == <<design, object, value, kid, api, host, up, down, meta, replica, seen,
          seenKid, due, wanted, wrong, events>>

None == <<"none", "">>
Nothing == [name |-> None, args |-> <<>>]
Values == {"old", "new"}
Pointers == {"null", "t", "u"}

Indices(s) == [i \in DOMAIN s |-> i]
\* A set of numbers as a sequence
InOrder(S) ==
  [k \in 1..Cardinality(S) |-> CHOOSE i \in S : Cardinality({j \in S : j <= i}) = k]
NameIn(s, i) == IF i \in DOMAIN s THEN s[i].name ELSE None
\* indexOfMethod and indexOfProperty; 0 when there is none
IndexOf(s, name) == SelectInSeq(s, LAMBDA x : x.name = name)

Signal(name, arity, pointer, cloned) ==
  [name |-> name, sort |-> "signal", arity |-> arity, pointer |-> pointer,
   cloned |-> cloned]
Slot(name) ==
  [name |-> name, sort |-> "slot", arity |-> 1, pointer |-> FALSE, cloned |-> FALSE]

-----------------------------------------------------------------------------
(* The classes repc writes.  Signals come before slots in a metaobject.    *)

WithModifier(c, modifiers) == {i \in DOMAIN c.props : c.props[i].mod \in modifiers}
OfModifier(c, modifiers) ==
  LET order == InOrder(WithModifier(c, modifiers))
  IN  [k \in DOMAIN order |-> c.props[order[k]]]
Modifiers == {"Constant", "ReadOnly", "ReadWrite", "ReadPush", "SourceOnlySetter"}
Changing == Modifiers \ {"Constant"}
Changed(p) == <<"changed", p.name>>

ChangedSignals(props) ==
  [i \in DOMAIN props |-> Signal(Changed(props[i]), 1, props[i].sort = "class", FALSE)]
OwnSignals(c) ==
  [i \in DOMAIN c.signals |-> Signal(<<"signal", c.signals[i].name>>,
                                     c.signals[i].arity, FALSE, FALSE)]
SourceSignals(c) == ChangedSignals(OfModifier(c, Changing)) \o OwnSignals(c)

\* The replica also notifies of constants, once: last, for the sake of indices.
ReplicaSignalsInOrder(c) == ChangedSignals(c.props) \o OwnSignals(c)
ReplicaSignals(c) ==
  ChangedSignals(OfModifier(c, Changing)) \o OwnSignals(c)
    \o ChangedSignals(OfModifier(c, {"Constant"}))

PushSlots(c) ==
  LET pushed == OfModifier(c, {"ReadPush"})
  IN [i \in DOMAIN pushed |-> Slot(<<"push", pushed[i].name>>)]
OwnSlots(c) == [i \in DOMAIN c.slots |-> Slot(<<"slot", c.slots[i]>>)]
Slots(c) == PushSlots(c) \o OwnSlots(c)

Setters == {"ReadWrite", "ReadPush", "SourceOnlySetter"}
SourceProperty(p) ==
  [name |-> <<"property", p.name>>, sort |-> p.sort, write |-> p.mod \in Setters,
   fixed |-> p.mod = "Constant",
   notify |-> IF p.mod = "Constant" THEN None ELSE Changed(p)]
ReplicaProperty(p) ==
  [name |-> <<"property", p.name>>, sort |-> p.sort, write |-> p.mod = "ReadWrite",
   fixed |-> FALSE, notify |-> Changed(p)]

SourceClass(c) ==
  [props   |-> [i \in DOMAIN c.props |-> SourceProperty(c.props[i])],
   methods |-> SourceSignals(c) \o Slots(c)]
ReplicaClass(c) ==
  [props   |-> [i \in DOMAIN c.props |-> ReplicaProperty(c.props[i])],
   methods |-> ReplicaSignals(c) \o Slots(c)]

-----------------------------------------------------------------------------
(* The object that is published, and its SourceApiMap.                     *)

\* A class of the program's own between QObject and the published class
Base == [props |-> <<[name |-> <<"property", "base">>, sort |-> "value", write |-> FALSE,
                      fixed |-> TRUE, notify |-> None]>>,
         methods |-> <<Signal(<<"signal", "base">>, 0, FALSE, FALSE),
                       Slot(<<"slot", "base">>)>>]

Own(d) == IF d.pub = "plain" THEN d.class ELSE SourceClass(d.class)
ObjectOf(d) ==
  IF d.base THEN [props |-> Base.props \o Own(d).props,
                  methods |-> Base.methods \o Own(d).methods]
  ELSE Own(d)
PropertyOffset(d) == IF d.base THEN Len(Base.props) ELSE 0
MethodOffset(d) == IF d.base THEN Len(Base.methods) ELSE 0

\* generateSourceAPI: indices are looked up by name in the object's metaobject
ApiProperties(c, o) ==
  [i \in DOMAIN c.props |-> IndexOf(o.props, <<"property", c.props[i].name>>)]
ApiSignalNames(c) ==
  LET changing == OfModifier(c, Changing)
  IN [i \in DOMAIN changing |-> Changed(changing[i])]
       \o [i \in DOMAIN c.signals |-> <<"signal", c.signals[i].name>>]
ApiMethodNames(c) ==
  LET pushed == OfModifier(c, {"ReadPush"})
  IN [i \in DOMAIN pushed |-> <<"push", pushed[i].name>>]
       \o [i \in DOMAIN c.slots |-> <<"slot", c.slots[i]>>]
\* The signature of a push slot for an enum of the class lacks the capital.
MethodSignatures(c) ==
  LET pushed == OfModifier(c, {"ReadPush"})
  IN [i \in DOMAIN pushed |-> <<IF pushed[i].enum THEN "pushUncapped" ELSE "push",
                                pushed[i].name>>]
       \o [i \in DOMAIN c.slots |-> <<"slot", c.slots[i]>>]
\* propertyRawIndexFromSignal, for the signals that notify of a property
RawIndexPosition(c) == Indices(OfModifier(c, Changing))
RawIndex(c) == InOrder(WithModifier(c, Changing))

SourceApi(c, o) ==
  [properties  |-> ApiProperties(c, o),
   signals     |-> [i \in DOMAIN ApiSignalNames(c) |-> IndexOf(o.methods, ApiSignalNames(c)[i])],
   methods     |-> [i \in DOMAIN ApiMethodNames(c) |-> IndexOf(o.methods, ApiMethodNames(c)[i])],
   raw         |-> RawIndex(c),
   signalNames |-> ApiSignalNames(c),
   methodNames |-> MethodSignatures(c)]

\* DynamicApiMap: the members of the class itself, notifying signals first.  Two
\* properties with one signal have it twice.
DynamicApi(d, o) ==
  LET po == PropertyOffset(d)
      mo == MethodOffset(d)
      raw == InOrder({i \in DOMAIN Own(d).props : o.props[po + i].notify # None})
      notifiers == [k \in DOMAIN raw |-> IndexOf(o.methods, o.props[po + raw[k]].notify)]
      ofSort(sort) == {i \in DOMAIN o.methods : i > mo /\ o.methods[i].sort = sort}
      signals == notifiers \o InOrder(ofSort("signal") \ ToSet(notifiers))
      methods == InOrder(ofSort("slot"))
  IN [properties  |-> [i \in DOMAIN Own(d).props |-> po + i],
      signals     |-> signals,
      methods     |-> methods,
      raw         |-> raw,
      signalNames |-> [k \in DOMAIN signals |-> o.methods[signals[k]].name],
      methodNames |-> [k \in DOMAIN methods |-> o.methods[methods[k]].name]]

ApiOf(d, o) == IF d.pub = "repc" THEN SourceApi(d.class, o) ELSE DynamicApi(d, o)

\* serializeDefinition
Definition(o, a) ==
  [signals |-> [k \in DOMAIN a.signals |-> [o.methods[a.signals[k]] EXCEPT
                                              !.name = a.signalNames[k], !.cloned = FALSE]],
   methods |-> [k \in DOMAIN a.methods |-> Slot(a.methodNames[k])],
   props   |-> [i \in DOMAIN a.properties |-> o.props[a.properties[i]]]]

\* addDynamicType: every property can be written
DynamicType(def) ==
  [props   |-> [i \in DOMAIN def.props |-> [def.props[i] EXCEPT !.write = TRUE]],
   methods |-> def.signals \o def.methods]

MetaOf(d, o, a) ==
  IF d.acq = "dynamic" THEN DynamicType(Definition(o, a)) ELSE ReplicaClass(d.class)

-----------------------------------------------------------------------------
(* What may be published: classes whose members have names of their own.   *)

IsSeq(s) == s \in Seq(ToSet(s))
IsProperty(p) == p \in [name : {p.name}, sort : {"value", "class"}, write : BOOLEAN,
                        fixed : BOOLEAN, notify : {p.notify}]
IsMethod(m) == m \in [name : {m.name}, sort : {"signal", "slot"}, arity : Nat,
                      pointer : BOOLEAN, cloned : BOOLEAN]
Distinct(s) == \A i, j \in DOMAIN s : s[i].name = s[j].name => i = j

\* Of a .rep file: a property of a class has a setter at the source alone.
RepClass(c) ==
  /\ c.props \in Seq([name : STRING, mod : Modifiers, sort : {"value", "class"},
                      enum : BOOLEAN])
  /\ c.signals \in Seq([name : STRING, arity : Nat]) /\ c.slots \in Seq(STRING)
  /\ Distinct(c.props) /\ Distinct(c.signals)
  /\ \A i, j \in DOMAIN c.slots : c.slots[i] = c.slots[j] => i = j
  /\ \A i, j \in DOMAIN c.props :
       c.props[i].sort = "class" =>
         c.props[i].mod = "SourceOnlySetter" /\ (c.props[j].sort = "class" => i = j)

\* Of a program: a property is notified of without arguments, or with its value.
PlainClass(o) ==
  /\ IsSeq(o.props) /\ \A i \in DOMAIN o.props : IsProperty(o.props[i])
  /\ IsSeq(o.methods) /\ \A m \in DOMAIN o.methods : IsMethod(o.methods[m])
  /\ Distinct(o.props) /\ Distinct(o.methods)
  /\ \A i, j \in DOMAIN o.props : {o.props[i].sort, o.props[j].sort} = {"class"} => i = j
  /\ \A m \in DOMAIN o.methods : LET method == o.methods[m] IN
       /\ method.name # None
       /\ method.pointer => \E i \in DOMAIN o.props :
            o.props[i].sort = "class" /\ o.props[i].notify = method.name
       /\ method.name[1] = "push" => \A i \in DOMAIN o.props :
            o.props[i].name = <<"property", method.name[2]>> => o.props[i].sort = "value"
  /\ \A i \in DOMAIN o.props :
       o.props[i].notify # None => \E m \in DOMAIN o.methods :
         LET signal == o.methods[m] IN
         /\ signal.name = o.props[i].notify /\ signal.sort = "signal" /\ ~signal.cloned
         /\ signal.arity \in {0, 1}
         /\ signal.pointer <=> signal.arity = 1 /\ o.props[i].sort = "class"

\* Nothing is named like the members of Base.
ApartFromBase(o) ==
  /\ \A i \in DOMAIN o.props : o.props[i].name # <<"property", "base">>
  /\ \A m \in DOMAIN o.methods : o.methods[m].name \notin {<<"signal", "base">>, <<"slot", "base">>}

ASSUME DesignsAreClasses ==
  /\ \A d \in Designs :
       /\ {d.base, d.crowd, d.renamed} \subseteq BOOLEAN
       /\ \/ d.pub = "plain" /\ d.acq = "dynamic" /\ PlainClass(d.class)
          \/ /\ d.pub \in {"repc", "derived"} /\ d.acq \in {"static", "dynamic", "inprocess"}
             /\ RepClass(d.class)
       /\ d.base => ApartFromBase(Own(d))
  /\ MaxEvents \in Nat

-----------------------------------------------------------------------------
(* The host.  The child source serves one property of the object its       *)
(* pointer leads to, by the index its tables have for it.                  *)

PointerIndex == SelectInSeq(object.props, LAMBDA p : p.sort = "class")
Shown(v) == IF v \in {"t", "u"} THEN "child" ELSE v

\* What the child's tables say of an object: garbage where it lacks the property
KidAt(v, i) ==
  [name  |-> IF i \in DOMAIN kid[v] THEN <<"x", "y">>[i] ELSE "invalid",
   value |-> IF i \in DOMAIN kid[v] THEN kid[v][i] ELSE "invalid"]

\* The arguments beyond n are removed from the list by a loop that counts up
\* while the list gets shorter.
Marshal(list, args, n) ==
  SubSeq(args, 1, n) \o SubSeq(list, n + 1, n + (IF Len(list) > n THEN (Len(list) - n) \div 2 ELSE 0))

NoDefinition == "no definition"

\* With the QRO_ of a pointer, whose child source is first reset if it has another object
SerializeProperty(h, i, vals) ==
  LET v == vals[api.properties[i]]
      defines == h.dynamic /\ v # "null" /\ ~h.sent
  IN IF object.props[api.properties[i]].sort # "class" THEN [host |-> h, value |-> v]
     ELSE [host |-> [h EXCEPT !.held = v, !.sent = @ \/ defines],
           value |-> [null  |-> v = "null",
                      def   |-> IF defines THEN KidAt(v, h.index).name ELSE NoDefinition,
                      value |-> IF v = "null" THEN "none" ELSE KidAt(v, h.index).value]]

HandleMetaCall(s, k, vals, args) ==
  LET signal == object.methods[api.signals[k]]
      raw == IF k \in DOMAIN api.raw THEN api.raw[k] ELSE 0
      list == Marshal(s.host.list, args,
                      IF signal.arity = 1 /\ signal.pointer THEN 0 ELSE signal.arity)
      invoke == [type |-> "invoke", to |-> "root", index |-> k, args |-> list, property |-> raw]
  IN IF raw = 0
     THEN [host |-> [s.host EXCEPT !.list = list], out |-> Append(s.out, invoke)]
     ELSE LET p == SerializeProperty(s.host, raw, vals)
          IN [host |-> [p.host EXCEPT !.list = list],
              out  |-> s.out \o <<[type |-> "change", to |-> "root", index |-> raw,
                                   value |-> p.value], invoke>>]

\* setConnections: the entries of the table that are connected to a signal
Connected(m) ==
  InOrder({k \in DOMAIN api.signals : api.signals[k] = m /\ ~object.methods[m].cloned})

\* A replica in the host's process reads the object's properties by position.
InProcessProperty(j, vals) == Shown(vals[j])

\* connectReplica: each of its signals is connected to the object's of that name.
Relayed(m, vals) ==
  [j \in DOMAIN seen |->
     IF replica.valid /\ meta.props[j].notify = object.methods[m].name
     THEN InProcessProperty(j, vals) ELSE seen[j]]

Emits(m, vals, args) ==
  IF design.acq = "inprocess"
  THEN seen' = Relayed(m, vals) /\ UNCHANGED <<host, down, due>>
  ELSE LET handle(s, k) == HandleMetaCall(s, k, vals, args)
           emission == FoldLeft(handle, [host |-> host, out |-> <<>>], Connected(m))
       IN /\ host' = IF design.crowd \/ host.attached THEN emission.host ELSE host
          /\ IF host.attached
             THEN /\ down' = down \o emission.out
                  /\ due' = Append(due, [name |-> object.methods[m].name,
                                         args |-> [i \in DOMAIN args |-> Shown(args[i])]])
             ELSE UNCHANGED <<down, due>>
          /\ UNCHANGED seen

\* The setters repc writes: they emit when the value differs.
SetTo(i, v) ==
  LET property == object.props[i]
      m == IndexOf(object.methods, property.notify)
  IN /\ value' = [value EXCEPT ![i] = v]
     /\ IF v = value[i] \/ m = 0 THEN UNCHANGED <<host, down, due, seen>>
        ELSE Emits(m, value', IF object.methods[m].arity = 0 THEN <<>> ELSE <<v>>)

\* invoke: a push slot calls the setter, a property without one is not written
Perform(packet, expected) ==
  LET table == IF packet.type = "invoke" THEN api.methods ELSE api.properties
      index == IF packet.index \in DOMAIN table THEN table[packet.index] ELSE 0
      members == IF packet.type = "invoke" THEN object.methods ELSE object.props
      name == NameIn(members, index)
      target == IF packet.type = "write" THEN index
                ELSE IF name[1] = "push" THEN IndexOf(object.props, <<"property", name[2]>>)
                ELSE 0
      sets == target # 0 /\ object.props[target].write
  IN /\ IF sets THEN SetTo(target, packet.args[1])
        ELSE UNCHANGED <<value, host, down, due, seen>>
     /\ LET got == [name |-> name, args |-> packet.args]
        IN wrong' = IF got = expected THEN wrong
                    ELSE wrong \cup {[expected |-> expected, got |-> got]}

-----------------------------------------------------------------------------
(* The replica's node.                                                     *)

NoChild == [name |-> "no replica", value |-> "none"]

\* metaObjectForType: classes of acquired replicas first, then those of definitions
MetaObjectForType(r) == IF design.acq = "static" THEN "x" ELSE r.type

\* handlePointerToQObjectProperty: a new child replica unless the root is being
\* initialized and has one
HandlePointer(r, q) ==
  LET fresh == r.child = NoChild \/ r.valid
      name == IF ~fresh THEN r.child.name
              ELSE IF q.def # NoDefinition THEN q.def ELSE MetaObjectForType(r)
  IN IF q.null THEN [r EXCEPT !.child = NoChild]
     ELSE [r EXCEPT !.child = [name |-> name, value |-> q.value],
                    !.type = IF fresh /\ q.def # NoDefinition THEN q.def ELSE @]

Stored(i, v) ==
  IF meta.props[i].sort # "class" THEN v ELSE IF v.null THEN "null" ELSE "child"

Hear(got) ==
  /\ wrong' = IF due # <<>> /\ got = Head(due) THEN wrong
              ELSE wrong \cup {[expected |-> IF due = <<>> THEN Nothing ELSE Head(due),
                                got |-> got]}
  /\ due' = IF due = <<>> THEN due ELSE Tail(due)

ReadInit(packet) ==
  LET pointer == SelectInSeq(meta.props, LAMBDA p : p.sort = "class")
      r == IF pointer = 0 THEN replica ELSE HandlePointer(replica, packet.values[pointer])
      store == [i \in DOMAIN packet.values |-> Stored(i, packet.values[i])]
  IN /\ replica' = [r EXCEPT !.store = store, !.valid = TRUE]
     /\ seen' = store
     /\ seenKid' = r.child
     /\ UNCHANGED <<due, wrong>>

ReadPropertyChange(packet) ==
  LET r == IF meta.props[packet.index].sort = "class" THEN HandlePointer(replica, packet.value)
           ELSE replica
  IN /\ replica' = [r EXCEPT !.store[packet.index] = Stored(packet.index, packet.value)]
     /\ UNCHANGED <<seen, seenKid, due, wrong>>

\* The property's value stands for an argument that was not sent.  Of signals with
\* one name, programs are connected to the last and bindings to the first.
ReadInvoke(packet) ==
  LET signal == meta.methods[packet.index]
      params == IF packet.args # <<>> THEN packet.args
                ELSE IF packet.property # 0 THEN <<replica.store[packet.property]>>
                ELSE <<>>
      heard == SelectLastInSeq(meta.methods, LAMBDA x : x.name = signal.name)
      notified(j) == IndexOf(meta.methods, meta.props[j].notify) = packet.index
  IN /\ IF heard = packet.index
        THEN Hear([name |-> signal.name,
                   args |-> [i \in 1..signal.arity |->
                               IF i \in DOMAIN params THEN params[i] ELSE "undefined"]])
        ELSE UNCHANGED <<due, wrong>>
     /\ seen' = [j \in DOMAIN seen |-> IF notified(j) THEN replica.store[j] ELSE seen[j]]
     /\ seenKid' = IF \E j \in DOMAIN seen : notified(j) /\ meta.props[j].sort = "class"
                   THEN replica.child ELSE seenKid
     /\ UNCHANGED replica

\* The child replica, if there is one, has one property and its signal.
ReadChild(packet) ==
  /\ IF replica.child = NoChild THEN UNCHANGED <<replica, seenKid>>
     ELSE IF packet.type = "change"
     THEN replica' = [replica EXCEPT !.child.value = packet.value] /\ UNCHANGED seenKid
     ELSE seenKid' = replica.child /\ UNCHANGED replica
  /\ UNCHANGED <<seen, due, wrong>>

ClientReads ==
  /\ down # <<>>
  /\ down' = Tail(down)
  /\ LET packet == Head(down)
     IN CASE packet.to = "child"       -> ReadChild(packet)
          [] packet.type = "init"      -> ReadInit(packet)
          [] packet.to = "root" /\ packet.type = "change" -> ReadPropertyChange(packet)
          [] packet.to = "root" /\ packet.type = "invoke" -> ReadInvoke(packet)
  /\ UNCHANGED <<design, object, value, kid, api, host, up, meta, wanted, events>>

-----------------------------------------------------------------------------
(* What the programs and the event loops do.                               *)

\* Static replicas start with defaults, and with a child replica acquired under the
\* name the child source has unless the root is published under a name of its own.
StartOf(d, m) ==
  [valid |-> FALSE, type |-> "unknown",
   store |-> IF d.acq = "static"
             THEN [j \in DOMAIN m.props |-> IF m.props[j].sort = "class" THEN "child" ELSE "old"]
             ELSE <<>>,
   child |-> IF d.acq = "static" /\ (\E j \in DOMAIN m.props : m.props[j].sort = "class")
                  /\ ~d.renamed
             THEN [name |-> "x", value |-> "old"] ELSE NoChild]

Init ==
  /\ design \in Designs
  /\ object = ObjectOf(design)
  /\ api = ApiOf(design, object)
  /\ meta = MetaOf(design, object, api)
  /\ \E p \in IF PointerIndex = 0 THEN {"null"} ELSE Pointers :
       /\ value = [i \in DOMAIN object.props |-> IF i = PointerIndex THEN p ELSE "old"]
       /\ host = [attached |-> FALSE, dynamic |-> design.crowd,
                  sent |-> design.crowd /\ p # "null", list |-> <<>>, held |-> p,
                  index |-> IF design.pub = "plain" /\ p = "u" THEN 2 ELSE 1]
  /\ kid = [t |-> <<"old">>, u |-> <<"old", "old">>]
  /\ replica = StartOf(design, meta)
  /\ seen = replica.store
  /\ seenKid = NoChild
  /\ up = <<>> /\ down = <<>> /\ due = <<>> /\ wanted = <<>>
  /\ wrong = {}
  /\ events = 0

\* addListener: definitions are sent anew, to a dynamic replica
AddListenerUncleared(h) == [h EXCEPT !.attached = TRUE, !.dynamic = @ \/ design.acq = "dynamic"]
AddListener(h) ==
  [h EXCEPT !.attached = TRUE, !.dynamic = @ \/ design.acq = "dynamic",
            !.sent = @ /\ design.acq # "dynamic"]

Attach ==
  /\ design.acq # "inprocess" /\ ~host.attached
  /\ LET add(s, i) == LET p == SerializeProperty(s.host, i, value)
                      IN [host |-> p.host, values |-> Append(s.values, p.value)]
         all == FoldLeft(add, [host |-> AddListener(host), values |-> <<>>],
                         Indices(api.properties))
     IN /\ host' = all.host
        /\ down' = <<[type |-> "init", to |-> "root", values |-> all.values]>>
  /\ UNCHANGED <<design, object, value, kid, api, up, meta, replica, seen, seenKid, due,
                 wanted, wrong, events>>

\* handleNewAcquire in a host that has the source
AcquireInProcess ==
  /\ design.acq = "inprocess" /\ ~replica.valid
  /\ replica' = [replica EXCEPT !.valid = TRUE]
  /\ seen' = [j \in DOMAIN meta.props |-> InProcessProperty(j, value)]
  /\ UNCHANGED <<design, object, value, kid, api, host, up, down, meta, seenKid, due,
                 wanted, wrong, events>>

Happens == events < MaxEvents /\ events' = events + 1

SetProperty(i, v) ==
  /\ Happens
  /\ ~object.props[i].fixed /\ v # value[i]
  /\ v \in IF i = PointerIndex THEN Pointers ELSE Values
  /\ SetTo(i, v)
  /\ UNCHANGED <<design, object, kid, api, up, meta, replica, seenKid, wanted, wrong>>

Notifies(m) == \E i \in DOMAIN object.props : object.props[i].notify = object.methods[m].name

EmitSignal(m) ==
  /\ Happens
  /\ object.methods[m].sort = "signal" /\ ~object.methods[m].cloned /\ ~Notifies(m)
  /\ m > MethodOffset(design)
  /\ Emits(m, value, [i \in 1..object.methods[m].arity |-> "argument"])
  /\ UNCHANGED <<design, object, value, kid, api, up, meta, replica, seenKid, wanted, wrong>>

\* The object the child source is connected to has changed.
SetKid(o, i, v) ==
  /\ Happens
  /\ PointerIndex # 0 /\ v # kid[o][i]
  /\ kid' = [kid EXCEPT ![o][i] = v]
  /\ down' = IF host.attached /\ host.held = o /\ host.index = i
             THEN down \o <<[type |-> "change", to |-> "child", value |-> v],
                            [type |-> "invoke", to |-> "child"]>>
             ELSE down
  /\ UNCHANGED <<design, object, value, api, host, up, meta, replica, seen, seenKid, due,
                 wanted, wrong>>

\* _q_send and _q_sendWithReply, called by the replica's members
AsksInProcess(packet, expected) == Perform(packet, expected) /\ UNCHANGED <<up, wanted>>
Asks(packet, expected) ==
  IF design.acq = "inprocess" THEN AsksInProcess(packet, expected)
  ELSE /\ up' = Append(up, packet)
       /\ wanted' = Append(wanted, expected)
       /\ UNCHANGED <<value, host, down, due, seen, wrong>>

NumSignals == Cardinality({i \in DOMAIN meta.methods : meta.methods[i].sort = "signal"})

Call(m, v) ==
  /\ Happens /\ replica.valid
  /\ object.methods[m].sort = "slot" /\ m > MethodOffset(design)
  /\ LET expected == [name |-> object.methods[m].name, args |-> <<v>>]
         index == IndexOf(meta.methods, expected.name)
     IN IF index > NumSignals
        THEN Asks([type |-> "invoke", index |-> index - NumSignals, args |-> <<v>>], expected)
        ELSE /\ wrong' = wrong \cup {[expected |-> expected, got |-> Nothing]}
             /\ UNCHANGED <<value, host, up, down, seen, due, wanted>>
  /\ UNCHANGED <<design, object, kid, api, meta, replica, seenKid>>

Write(j, v) ==
  /\ Happens /\ replica.valid
  /\ meta.props[j].write /\ meta.props[j].sort = "value"
  /\ Asks([type |-> "write", index |-> j, args |-> <<v>>],
          [name |-> meta.props[j].name, args |-> <<v>>])
  /\ UNCHANGED <<design, object, kid, api, meta, replica, seenKid>>

HostReads ==
  /\ up # <<>>
  /\ up' = Tail(up)
  /\ wanted' = Tail(wanted)
  /\ Perform(Head(up), Head(wanted))
  /\ UNCHANGED <<design, object, kid, api, meta, replica, seenKid, events>>

Next ==
  \/ Attach
  \/ AcquireInProcess
  \/ \E i \in DOMAIN object.props, v \in Values \cup Pointers : SetProperty(i, v)
  \/ \E m \in DOMAIN object.methods : EmitSignal(m)
  \/ \E o \in {"t", "u"}, v \in Values : \E i \in DOMAIN kid[o] : SetKid(o, i, v)
  \/ \E m \in DOMAIN object.methods, v \in Values : Call(m, v)
  \/ \E j \in DOMAIN meta.props, v \in Values : Write(j, v)
  \/ HostReads
  \/ ClientReads

Spec == Init /\ [][Next]_vars

-----------------------------------------------------------------------------
(* Properties                                                              *)

\* The variables are well typed; storage has an entry for each property of the
\* metaobject, and a child replica the class its values are sent for:
\* metaObjectForType (qremoteobjectnode.cpp:722) is only asked for types it knows.
TypeOK ==
  /\ design \in Designs
  /\ design.pub \in {"repc", "derived", "plain"}
  /\ design.acq \in {"static", "dynamic", "inprocess"}
  /\ {design.base, design.crowd, design.renamed} \subseteq BOOLEAN
  /\ \A i \in DOMAIN object.props :
       value[i] \in IF i = PointerIndex THEN Pointers ELSE Values
  /\ {host.attached, host.dynamic, host.sent} \subseteq BOOLEAN
  /\ host.held \in Pointers /\ host.index \in {1, 2}
  /\ replica.valid /\ design.acq # "inprocess" =>
       DOMAIN replica.store = DOMAIN meta.props
  /\ \A j \in DOMAIN replica.store :
       replica.store[j] \in IF meta.props[j].sort = "class" THEN {"null", "child"} ELSE Values
  /\ replica.child = NoChild \/ replica.child.name \in {"x", "y", "invalid"}
  /\ events \in 0..MaxEvents

Quiet == up = <<>> /\ down = <<>>

\* The notification of a pointer property comes with what marshalArgs has left of the
\* arguments of a longer signal (qremoteobjectsource.cpp:387).
LeftOver(w) == /\ w.expected.name = w.got.name
               /\ \E a \in Values \cup {"argument"} : w.got.args = <<a>>
               /\ w.expected.args \in {<<"null">>, <<"child">>}
\* Dynamic replicas know the push slot of an enum by a name without the capital
\* (repcodegenerator.cpp:1406).
Misnamed(w) == design.acq = "dynamic" /\ w.expected.name[1] = "push" /\ w.got = Nothing

\* The tables of both ends agree, whoever made them: every signal is heard as the
\* signal that was emitted, with its arguments and in order, every call and write
\* reaches the member it was made for, and none gets lost; except as above.
Conveyed ==
  /\ \A w \in wrong : LeftOver(w) \/ Misnamed(w)
  /\ Quiet => due = <<>> /\ wanted = <<>>

SourceIndex(j) == IndexOf(object.props, meta.props[j].name)
Notified(j) == object.props[SourceIndex(j)].notify

\* A program that reads each property when the replica is initialized, and again
\* whenever its notify signal comes, has the source's values when nothing is on its
\* way; those of the child replica too.  Except for properties without a signal, for
\* the later ones of those that share a signal, whose notification comes before their
\* value, for replicas in the host's process of classes that inherit properties
\* (qremoteobjectreplica.cpp:844), and for children whose tables were made for an
\* object of another class (qremoteobjectsource.cpp:285).  In the host's process there
\* is no child replica: the program has the child itself.
Observed ==
  Quiet /\ replica.valid =>
    \A j \in DOMAIN meta.props :
      LET v == value[SourceIndex(j)] IN
      \/ Notified(j) = None
      \/ \E i \in 1..(j - 1) : Notified(i) = Notified(j)
      \/ /\ \/ seen[j] = Shown(v)
            \/ design.acq = "inprocess" /\ design.base
         /\ meta.props[j].sort = "class" /\ v # "null" /\ design.acq # "inprocess" =>
              \/ seenKid = KidAt(v, host.index)
              \/ host.index = 2 /\ (v = "t" \/ replica.type = "invalid")

=============================================================================
