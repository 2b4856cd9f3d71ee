---------------------------- MODULE PendingCalls ----------------------------
(***************************************************************************)
(* The calls that the replicas of one node make to a host over one         *)
(* connection, their answers, the application's waits for them, and the    *)
(* heartbeat that shares m_pendingCalls and the connection with them.      *)
(*                                                                         *)
(* A call is identified by the order in which the application made it, and *)
(* its answer by the call it was computed for.  Several event loops may be *)
(* nested: waits is the stack of those that waitForFinished runs.          *)
(* A socket does not repeat readyRead from within a slot connected to it   *)
(* (QAbstractSocket), so that a loop begun while a packet is handled reads *)
(* nothing.                                                                *)
(***************************************************************************)
EXTENDS Integers, Sequences

CONSTANTS
  Order,       \* replicas of sources of the host, in the order of the node's table
  InProcess,   \* replicas of sources of this node
  MaxInt,      \* std::numeric_limits<int>::max()
  FirstSerialId, \* where earlier calls, all answered, have left m_curSerialId
  MaxCalls,    \* bound: calls the application holds
  MaxSessions, \* bound: connections made
  MaxWaits,    \* bound: nested event loops
  MaxEvents    \* bound: what the application does, and connections made and silenced

Remote == {Order[i] : i \in DOMAIN Order}

ASSUME MaxIntIsPositive == MaxInt \in Nat \ {0}
ASSUME OrderIsNotEmpty == Order \in Seq(Remote) \ {<<>>}
ASSUME BoundsAreNaturals == {MaxCalls, MaxSessions, MaxWaits, MaxEvents} \subseteq Nat
ASSUME FirstSerialIdsFit == FirstSerialId \in [Remote -> 1..MaxInt]

NoCall == 0
Heartbeat == 0  \* the serial id reserved for heartbeats
NoReply == -1   \* the serial id of a call that wants no answer

VARIABLES
  calls,       \* the QRemoteObjectPendingCalls the application holds
  events,      \* counter for the bound
  \* QConnectedReplicaImplementation
  attached,    \* replicas whose connectionToSource is set
  curSerialId, \* m_curSerialId
  pending,     \* m_pendingCalls: the call of each serial id, the session of a ping
  timer,       \* replicas whose heartbeat timer runs
  interval,    \* whether the node's heartbeatInterval is not 0
  waits,       \* nested event loops, the innermost last
  \* The connection
  link,        \* "down", "up" or "closing"
  session,     \* number of connections made
  silent,      \* whether the host has stopped to answer, without closing
  toHost, toClient,
  \* QRemoteObjectSourceIo
  rxName,      \* m_rxName
  slots,       \* invocations whose answer waits for a call of their own
  strayed      \* history: calls answered under another name

replicaVars == <<attached, curSerialId, pending, timer>>
linkVars == <<link, session, silent>>
hostVars == <<rxName, slots, strayed>>
vars == <<calls, events, replicaVars, interval, waits, linkVars, toHost,
          toClient, hostVars>>

Event(cost) ==
  /\ events + cost <= MaxEvents
  /\ events' = events + cost

Init ==
  /\ calls = <<>> /\ events = 0
  /\ attached = {} /\ timer = {}
  /\ curSerialId = FirstSerialId
  /\ pending = [r \in Remote |-> [serial \in 0..MaxInt |-> NoCall]]
  /\ interval = FALSE
  /\ waits = <<>>
  /\ link = "down" /\ session = 0 /\ silent = FALSE
  /\ toHost = <<>> /\ toClient = <<>>
  /\ rxName = Order[1]
  /\ slots = {} /\ strayed = {}

-----------------------------------------------------------------------------
(* Commands of a replica *)

Packet(type, r, serial, call) ==
  [type |-> type, name |-> r, serial |-> serial, call |-> call]

(* sendCommand: nothing is sent by a device that is not open; every        *)
(* command that is sent postpones the next heartbeat.                      *)
SendCommand(packet) ==
  IF link = "up"
    THEN /\ toHost' = Append(toHost, packet)
         /\ timer' = IF interval THEN timer \cup {packet.name} ELSE timer
    ELSE UNCHANGED <<toHost, timer>>

NewCall(r, serial, done, value) ==
  [name |-> r, serial |-> serial, session |-> session, done |-> done,
   value |-> value, helper |-> "none", watcher |-> "none"]

NextSerialIdKept(r) == 1

NextSerialId(r) == IF curSerialId[r] = MaxInt THEN 1 ELSE curSerialId[r]

(* _q_sendWithReply and sendCommandWithReply.  A replica without a         *)
(* connection, or whose device is not open, returns an invalid call that   *)
(* the application can only drop.                                          *)
SendWithReply(r) ==
  LET serial == NextSerialId(r)
      id == Len(calls) + 1
  IN  /\ Event(1)
      /\ Len(calls) < MaxCalls
      /\ r \in attached
      /\ SendCommand(Packet("Invoke", r, serial, id))
      /\ curSerialId' = [curSerialId EXCEPT ![r] = IF @ = MaxInt THEN @ ELSE @ + 1]
      /\ IF link = "up"
           THEN /\ calls' = Append(calls, NewCall(r, serial, FALSE, NoCall))
                /\ pending' = [pending EXCEPT ![r][serial] = id]
           ELSE UNCHANGED <<calls, pending>>
      /\ UNCHANGED <<attached, interval, waits, linkVars, toClient, hostVars>>

(* _q_send: an invocation without an answer, or a property to write *)
Send(r) ==
  /\ Event(1)
  /\ r \in attached
  /\ SendCommand(Packet("Invoke", r, NoReply, NoCall))
  /\ UNCHANGED <<calls, attached, curSerialId, pending, interval, waits,
                 linkVars, toClient, hostVars>>

(* The source of an in-process replica is invoked at once. *)
SendInProcess(r) ==
  /\ Event(1)
  /\ Len(calls) < MaxCalls
  /\ calls' = Append(calls, NewCall(r, NoReply, TRUE, Len(calls) + 1))
  /\ UNCHANGED <<replicaVars, interval, waits, linkVars, toHost,
                 toClient, hostVars>>

-----------------------------------------------------------------------------
(* Watching and waiting *)

(* QRemoteObjectPendingCallWatcher: the one who makes the call's helper is *)
(* told even if the call has finished, but waitForFinished makes one, too. *)
Watch(c) ==
  LET call == calls[c]
  IN  /\ Event(1)
      /\ call.watcher = "none"
      /\ calls' = [calls EXCEPT
           ![c].helper = IF @ = "none" THEN "watch" ELSE @,
           ![c].watcher = IF ~call.done THEN "connected"
                          ELSE IF call.helper = "none" THEN "queued" ELSE "deaf"]
      /\ UNCHANGED <<replicaVars, interval, waits, linkVars, toHost,
                     toClient, hostVars>>

(* The event loops that waitForFinished may begin now *)
Loops(inRead) ==
  IF Len(waits) = MaxWaits THEN {}
  ELSE [call : {c \in DOMAIN calls : ~calls[c].done},
        inRead : {inRead}, quit : {FALSE}]

Helped(loop) ==
  [calls EXCEPT ![loop.call].helper = IF @ = "none" THEN "wait" ELSE @]

(* waitForFinished, called from any handler of the loop *)
Wait ==
  \E loop \in Loops(FALSE) :
    /\ Event(1)
    /\ waits' = Append(waits, loop)
    /\ calls' = Helped(loop)
    /\ UNCHANGED <<replicaVars, interval, linkVars, toHost, toClient,
                   hostVars>>

(* The timer t of a loop; without one the loop may go on for ever. *)
WaitExpires(i) ==
  /\ ~waits[i].quit
  /\ waits' = [waits EXCEPT ![i].quit = TRUE]
  /\ UNCHANGED <<events, calls, replicaVars, interval, linkVars, toHost,
                 toClient, hostVars>>

(* exec() returns; an outer loop that was told to quit has to wait for it. *)
WaitReturns ==
  /\ waits # <<>> /\ waits[Len(waits)].quit
  /\ waits' = SubSeq(waits, 1, Len(waits) - 1)
  /\ UNCHANGED <<events, calls, replicaVars, interval, linkVars, toHost,
                 toClient, hostVars>>

Blocked == \E i \in DOMAIN waits : waits[i].inRead

-----------------------------------------------------------------------------
(* The heartbeat *)

(* heartbeatIntervalChanged stops every timer, and starts it again.  It    *)
(* multiplies the states, and therefore counts for two events.             *)
SetHeartbeatInterval ==
  /\ Event(2)
  /\ interval' = ~interval
  /\ timer' = IF interval' THEN Remote ELSE {}
  /\ UNCHANGED <<calls, attached, curSerialId, pending, waits,
                 linkVars, toHost, toClient, hostVars>>

(* disconnectFromServer: the device is not open from now on. *)
DisconnectFromServer == link' = IF link = "up" THEN "closing" ELSE link

HeartbeatMissedKept(r) ==
  /\ pending[r][Heartbeat] # NoCall
  /\ timer' = timer \ {r}
  /\ UNCHANGED <<pending, link, toHost>>

(* The ping was not answered in time. *)
HeartbeatMissed(r) ==
  /\ pending[r][Heartbeat] # NoCall
  /\ pending' = [pending EXCEPT ![r][Heartbeat] = NoCall]
  /\ timer' = timer \ {r}
  /\ IF r \in attached THEN DisconnectFromServer ELSE UNCHANGED link
  /\ UNCHANGED toHost

HeartbeatIgnored(r) ==
  /\ pending[r][Heartbeat] = NoCall
  /\ r \notin attached
  /\ timer' = timer \ {r}
  /\ UNCHANGED <<pending, link, toHost>>

HeartbeatSent(r) ==
  /\ pending[r][Heartbeat] = NoCall
  /\ r \in attached
  /\ IF link = "up"
       THEN /\ toHost' = Append(toHost, Packet("Ping", r, Heartbeat, NoCall))
            /\ pending' = [pending EXCEPT ![r][Heartbeat] = session]
            /\ timer' = IF interval THEN timer ELSE timer \ {r}
            /\ UNCHANGED link
       ELSE /\ timer' = timer \ {r}
            /\ DisconnectFromServer
            /\ UNCHANGED <<toHost, pending>>

HeartbeatTimeout(r) ==
  /\ r \in timer
  /\ \/ HeartbeatMissed(r)
     \/ HeartbeatIgnored(r)
     \/ HeartbeatSent(r)
  /\ UNCHANGED <<events, calls, attached, curSerialId, interval, waits,
                 session, silent, toClient, hostVars>>

-----------------------------------------------------------------------------
(* onServerRead *)

HostReads(type) ==
  /\ link # "down" /\ ~silent
  /\ toHost # <<>> /\ Head(toHost).type = type
  /\ rxName' = Head(toHost).name
  /\ toHost' = Tail(toHost)
  /\ UNCHANGED <<events, calls, replicaVars, interval, waits, linkVars>>

Answer(type, r, serial, call) == toClient' = Append(toClient, Packet(type, r, serial, call))

HostReadsAddObject ==
  /\ HostReads("AddObject")
  /\ Answer("Init", rxName', NoReply, NoCall)
  /\ UNCHANGED <<slots, strayed>>

HostReadsPing ==
  /\ HostReads("Ping")
  /\ Answer("Pong", rxName', Heartbeat, NoCall)
  /\ UNCHANGED <<slots, strayed>>

HostInvokesOffByOne ==
  LET p == Head(toHost)
  IN  /\ HostReads("Invoke")
      /\ IF p.serial > 1 THEN Answer("Reply", p.name, p.serial, p.call)
                         ELSE UNCHANGED toClient
      /\ UNCHANGED <<slots, strayed>>

(* The slot has run when invoke returns: its value is sent, if it is wanted. *)
HostInvokes ==
  LET p == Head(toHost)
  IN  /\ HostReads("Invoke")
      /\ IF p.serial # NoReply THEN Answer("Reply", p.name, p.serial, p.call)
                               ELSE UNCHANGED toClient
      /\ UNCHANGED <<slots, strayed>>

(* The slot returns a QRemoteObjectPendingCall, or runs an event loop. *)
HostInvokesAsync ==
  LET p == Head(toHost)
  IN  /\ HostReads("Invoke") /\ p.serial # NoReply
      /\ slots' = slots \cup {p}
      /\ UNCHANGED <<toClient, strayed>>

(* The answer goes out under the name of the packet read last, on whatever *)
(* connection of the host; this connection's packets make the cases.       *)
SlotFinishes(s) ==
  /\ ~silent
  /\ slots' = slots \ {s}
  /\ Answer("Reply", rxName, s.serial, s.call)
  /\ strayed' = IF rxName = s.name THEN strayed ELSE strayed \cup {s.call}
  /\ UNCHANGED <<events, calls, replicaVars, interval, waits, linkVars, toHost, rxName>>

-----------------------------------------------------------------------------
(* onClientRead *)

ClientReads(type) ==
  /\ link # "down" /\ ~Blocked
  /\ toClient # <<>> /\ Head(toClient).type = type
  /\ toClient' = Tail(toClient)
  /\ UNCHANGED <<events, attached, curSerialId, interval, linkVars, toHost, hostVars>>

RestartedTimer(r) == IF interval THEN timer \cup {r} ELSE timer \ {r}

ReadPongKept ==
  LET r == Head(toClient).name
  IN  /\ ClientReads("Pong")
      /\ timer' = RestartedTimer(r)
      /\ UNCHANGED <<calls, waits, pending>>

(* notifyAboutReply(0): the heartbeat is answered, a new interval begins. *)
ReadPong ==
  LET r == Head(toClient).name
  IN  /\ ClientReads("Pong")
      /\ pending' = [pending EXCEPT ![r][Heartbeat] = NoCall]
      /\ timer' = RestartedTimer(r)
      /\ UNCHANGED <<calls, waits>>

FinishUnlessWatched(c, value) ==
  /\ calls' = [calls EXCEPT ![c].done = TRUE, ![c].value = value,
       ![c].watcher = IF @ = "connected" THEN "queued" ELSE @]
  /\ waits' = IF calls[c].watcher = "connected" THEN waits
              ELSE [i \in DOMAIN waits |-> [waits[i] EXCEPT !.quit = @ \/ waits[i].call = c]]

(* notifyAboutReply: an answer to no call of the replica is dropped. *)
Finish(c, value) ==
  /\ calls' = [calls EXCEPT
       ![c].done = TRUE, ![c].value = value,
       ![c].watcher = IF @ = "connected" THEN "queued" ELSE @]
  /\ waits' = [i \in DOMAIN waits |-> [waits[i] EXCEPT !.quit = @ \/ waits[i].call = c]]

ReadReply ==
  LET p == Head(toClient)
      c == pending[p.name][p.serial]
  IN  /\ ClientReads("Reply")
      /\ pending' = [pending EXCEPT ![p.name][p.serial] = NoCall]
      /\ IF c = NoCall THEN UNCHANGED <<calls, waits>> ELSE Finish(c, p.call)
      /\ UNCHANGED timer

(* initialize.  Its signals reach the application from within the read:    *)
(* it may wait for another answer there.                                   *)
ReadInit ==
  LET r == Head(toClient).name
  IN  /\ ClientReads("Init")
      /\ timer' = IF interval THEN timer \cup {r} ELSE timer
      /\ \/ UNCHANGED <<waits, calls>>
         \/ \E loop \in Loops(TRUE) :
              waits' = Append(waits, loop) /\ calls' = Helped(loop)
      /\ UNCHANGED pending

-----------------------------------------------------------------------------
(* The connection *)

(* The object list has arrived: setConnection and requestRemoteObjectSource *)
(* for each replica.                                                        *)
Connect ==
  /\ Event(1)
  /\ link = "down" /\ session < MaxSessions
  /\ link' = "up" /\ session' = session + 1 /\ silent' = FALSE
  /\ attached' = Remote
  /\ timer' = IF interval THEN Remote ELSE timer
  /\ toHost' = [i \in DOMAIN Order |-> Packet("AddObject", Order[i], NoReply, NoCall)]
  /\ toClient' = <<>>
  /\ UNCHANGED <<calls, curSerialId, pending, interval, waits, hostVars>>

DisconnectedForgotten ==
  /\ link # "down"
  /\ link' = "down"
  /\ UNCHANGED <<attached, waits>>
  /\ toHost' = <<>> /\ toClient' = <<>>
  /\ slots' = {}
  /\ UNCHANGED <<events, calls, curSerialId, pending, timer, interval, session,
                 silent, rxName, strayed>>

(* The connection was closed or has broken: onShouldReconnect sets every    *)
(* attached replica disconnected, and m_pendingCalls stays as it is.  The   *)
(* host's watchers go with its device.                                      *)
Disconnected ==
  /\ link # "down"
  /\ link' = "down"
  /\ attached' = {}
  /\ toHost' = <<>> /\ toClient' = <<>>
  /\ slots' = {}
  /\ UNCHANGED <<events, calls, curSerialId, pending, timer, interval, waits,
                 session, silent, rxName, strayed>>

(* The host hangs, or the network drops what either end sends. *)
GoesSilent ==
  /\ Event(1)
  /\ link = "up" /\ ~silent
  /\ silent' = TRUE
  /\ UNCHANGED <<calls, replicaVars, interval, waits, link, session,
                 toHost, toClient, hostVars>>

-----------------------------------------------------------------------------
Reads ==
  \/ HostReadsAddObject \/ HostReadsPing \/ HostInvokes \/ HostInvokesAsync
  \/ ReadPong \/ ReadReply \/ ReadInit

Next ==
  \/ \E r \in Remote : SendWithReply(r) \/ Send(r) \/ HeartbeatTimeout(r)
  \/ \E r \in InProcess : SendInProcess(r)
  \/ \E c \in DOMAIN calls : Watch(c)
  \/ Wait \/ WaitReturns
  \/ \E i \in DOMAIN waits : WaitExpires(i)
  \/ SetHeartbeatInterval
  \/ Reads
  \/ \E s \in slots : SlotFinishes(s)
  \/ Connect \/ Disconnected \/ GoesSilent

Spec == Init /\ [][Next]_vars

(* The event loops of both ends turn: packets are read, timers fire, a      *)
(* closing socket closes.                                                   *)
FairSpec ==
  /\ Spec
  /\ WF_vars(Reads)
  /\ WF_vars(link = "closing" /\ Disconnected)
  /\ \A r \in Remote : WF_vars(HeartbeatTimeout(r))

-----------------------------------------------------------------------------
CallIds == 0..MaxCalls
Serials == NoReply..MaxInt
Packets == [type : {"AddObject", "Ping", "Invoke", "Init", "Pong", "Reply"},
            name : Remote, serial : Serials, call : CallIds]
CallRecords == [name : Remote \cup InProcess, serial : Serials,
                session : 0..MaxSessions, done : BOOLEAN, value : CallIds,
                helper : {"none", "watch", "wait"},
                watcher : {"none", "connected", "queued", "deaf"}]
EventLoops == [call : CallIds, inRead : BOOLEAN, quit : BOOLEAN]

(* Type correctness of everything above. *)
TypeOK ==
  /\ calls \in Seq(CallRecords) /\ Len(calls) <= MaxCalls
  /\ events \in 0..MaxEvents
  /\ attached \subseteq Remote /\ timer \subseteq Remote
  /\ curSerialId \in [Remote -> 1..MaxInt]
  /\ pending \in [Remote -> [0..MaxInt -> Nat]]
  /\ waits \in Seq(EventLoops)
  /\ interval \in BOOLEAN /\ silent \in BOOLEAN
  /\ link \in {"down", "up", "closing"} /\ session \in 0..MaxSessions
  /\ toHost \in Seq(Packets) /\ toClient \in Seq(Packets)
  /\ rxName \in Remote /\ slots \subseteq Packets /\ strayed \subseteq CallIds
  /\ attached # {} <=> link # "down"

(* A call that has finished holds the answer that was computed for it. If   *)
(* not, the two calls had the same serial id, for one of two reasons:       *)
(* m_curSerialId has reached its limit, from which on all calls of a        *)
(* replica are number 1 (replica.cpp:385, see SerialIdIsFree), or the       *)
(* answer was sent from the lambda of sourceio.cpp:239 while another name   *)
(* was being read.  Answers of an earlier connection are never taken for    *)
(* those of a later one, but a call left over from an earlier one may take  *)
(* a stray answer.                                                          *)
OwnAnswer ==
  \A c \in DOMAIN calls : calls[c].done =>
    LET other == calls[c].value
        same(f) == calls[c][f] = calls[other][f]
    IN  \/ other = c
        \/ /\ same("serial")
           /\ IF same("name")
                THEN same("session") /\ curSerialId[calls[c].name] = MaxInt
                ELSE other \in strayed

(* No wake-up is lost when a call finishes: every event loop that waits for *)
(* it has been told to quit, on whatever level it was begun and whoever     *)
(* else watches the call, and the watcher it had has its signal queued      *)
(* (notifyAboutReply, waitForFinished).  A watcher made afterwards is told  *)
(* as well, except of a call that was waited for (see WatchersAreTold).     *)
NoLostWakeup ==
  \A c \in DOMAIN calls : calls[c].done =>
    /\ \A i \in DOMAIN waits : waits[i].call = c => waits[i].quit
    /\ calls[c].watcher # "connected"
    /\ calls[c].watcher = "deaf" => calls[c].helper = "wait"

(* What qremoteobjectpendingcall.cpp:219 says of a watcher's finished:      *)
(* "This signal is emitted when the remote call has finished."  The code    *)
(* does not emit it to a watcher of a finished call whose helper was made   *)
(* by waitForFinished, as the constructor emits it for a new helper only.   *)
WatchersAreTold ==
  \A c \in DOMAIN calls : calls[c].done => calls[c].watcher \in {"none", "queued"}

(* What sendCommandWithReply asserts (replica.cpp:399) of the call that a   *)
(* replica may make now.  Two calls have the same serial id once            *)
(* m_curSerialId has reached its limit.                                     *)
SerialIdIsFree ==
  \A r \in attached : link = "up" => pending[r][NextSerialId(r)] = NoCall

InFlight(r) ==
  \/ \E i \in DOMAIN toHost : toHost[i].type = "Ping" /\ toHost[i].name = r
  \/ \E i \in DOMAIN toClient : toClient[i].type = "Pong" /\ toClient[i].name = r

(* The heartbeat closes a connection only for a replica whose ping is not   *)
(* answered: the host is silent, the ping or its answer is still on its     *)
(* way (or held up by a blocked read), or the ping was sent on an earlier   *)
(* connection and left in m_pendingCalls (replica.cpp:75 and 478).          *)
HealthyStays ==
  [][link = "up" /\ link' = "closing" =>
       \E r \in Remote :
         /\ pending[r][Heartbeat] # NoCall
         /\ silent \/ InFlight(r) \/ pending[r][Heartbeat] < session]_vars

(* What the heartbeat is for: a host that stopped to answer without closing *)
(* the connection is noticed, whatever was sent on it before, as long as    *)
(* the interval is not set to 0.                                            *)
SilenceNoticed ==
  (silent /\ link = "up" /\ interval) ~> (link = "down" \/ ~interval)

Outstanding(c) ==
  /\ c \in DOMAIN calls /\ ~calls[c].done
  /\ link = "up" /\ calls[c].session = session /\ ~silent
  /\ pending[calls[c].name][calls[c].serial] = c
  /\ c \notin strayed

(* A call whose connection lasts is answered.  Exceptions: its slot waits   *)
(* for a call of its own, its answer strayed, a later call took over its    *)
(* serial id, or the application waits within a read.                       *)
Answered ==
  \A c \in 1..MaxCalls :
    Outstanding(c) ~> (~Outstanding(c) \/ Blocked \/ \E s \in slots : s.call = c)

(* What qremoteobjectpendingcall.cpp:73 says of returnValue: "Returns the   *)
(* return value of the remote call."  Where slots answer later, the answer  *)
(* of one replica's call is sent under the name of the packet that was read *)
(* last (sourceio.cpp:239), and is taken by the call with the same serial   *)
(* id of the replica of that name, although no ids have run out.            *)
ReturnsItsOwn ==
  \A c \in DOMAIN calls :
    calls[c].done /\ calls[c].name \in Remote /\ curSerialId[calls[c].name] # MaxInt
      => calls[c].value = c

(* What replica.cpp:77 says where the heartbeat disconnects: "The source    *)
(* didn't respond in time".  The ping that the next timeout will miss was   *)
(* sent on this connection, then, and not left over from an earlier one.    *)
RespondedInTime ==
  link = "up" => \A r \in Remote : pending[r][Heartbeat] \in {NoCall, session}

(* One of these statements always holds: no, for one behaviour ends in a    *)
(* state that is wrong in all four respects.                                *)
AnyCallStatement ==
  \/ SerialIdIsFree
  \/ WatchersAreTold
  \/ ReturnsItsOwn
  \/ RespondedInTime

=============================================================================
