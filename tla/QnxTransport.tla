---------------------------- MODULE QnxTransport ----------------------------
(***************************************************************************)
(* The QNX backend: one client device (QnxClientIo around QQnxNativeIo)    *)
(* and a server (QnxServerImpl around QQnxNativeServer), each with its     *)
(* event loop and a thread that receives messages and pulses.  Only the    *)
(* client sends messages.  The server announces each write with a pulse of *)
(* the write's length, and the client's thread asks for the bytes: first   *)
(* for one chunk, then, when more is left, for all of the rest at once,    *)
(* whose pulses it will ignore.                                            *)
(*                                                                         *)
(* The kernel delivers messages and pulses in order, replies or fails, and *)
(* tells the server when a client detaches.  A pulse may be refused when   *)
(* the system is out of them.  A byte is a pair of session and position.   *)
(* USE_HAM is not defined.  Asserts are compiled out.                      *)
(***************************************************************************)
EXTENDS Integers, Sequences, FiniteSets, SequencesExt

CONSTANTS
  Lengths,      \* lengths of what is written at once
  MaxSessions,  \* bound: connections made
  MaxWrites,    \* bound: writes
  MaxLost,      \* bound: pulses refused
  MaxCloses     \* bound: servers closed

ASSUME LengthsArePositive == Lengths \subseteq Nat \ {0}
ASSUME BoundsAreNaturals == MaxSessions \in Nat /\ MaxWrites \in Nat

Sessions == 1..MaxSessions

VARIABLES
  \* The client's event loop
  session,   \* number of the latest connection, or 0
  state,     \* QQnxNativeIoPrivate::state between calls
  clientAt,  \* where its main thread is: "free", "registering", "joining"
  unpulsed,  \* length of a write whose pulse is still to be sent, or 0
  closing,   \* m_isClosing of the QnxClientIo
  readyRead, \* a readyRead is posted
  obuffer,   \* chunks to be sent
  buffer,    \* bytes received, to be read
  got,       \* bytes read in this session
  sent,      \* bytes written in this session
  \* The client's thread
  thread,    \* where it is, and its local variables
  pulses,    \* pulses of its channel
  \* The server
  listening, \* its thread runs
  linked,    \* the client's latest connection leads to the server that listens
  inbox,     \* messages and pulses of its channel
  sources,   \* QIOQnxSources by session
  announces, \* a write whose event is still to be delivered: session, length
  posted,    \* events of its event loop
  \* History
  lost, closes, writes

clientVars == <<session, state, clientAt, unpulsed, closing>>
clientData == <<obuffer, buffer, got, sent, readyRead>>
threadVars == <<thread, pulses>>
serverVars == <<listening, linked, announces>>
historyVars == <<lost, closes, writes>>
vars == <<clientVars, clientData, threadVars, serverVars, inbox, sources, posted,
          historyVars>>

\* early is history: nobody was told of the latest bytes.
NoSource == [known |-> FALSE, attached |-> FALSE, serverClosing |-> FALSE, early |-> FALSE,
             obuffer |-> <<>>, buffer |-> <<>>, got |-> <<>>, sent |-> 0]

NoThread == [at |-> "none", want |-> 0, ignore |-> 0, payload |-> <<>>]

Init ==
  /\ session = 0 /\ state = "Unconnected" /\ clientAt = "free" /\ unpulsed = 0
  /\ closing = FALSE /\ readyRead = FALSE
  /\ obuffer = <<>> /\ buffer = <<>> /\ got = <<>> /\ sent = 0
  /\ thread = NoThread /\ pulses = <<>>
  /\ listening = TRUE /\ linked = FALSE /\ announces = <<0, 0>>
  /\ inbox = <<>> /\ sources = [s \in Sessions |-> NoSource] /\ posted = <<>>
  /\ lost = {} /\ closes = 0 /\ writes = 0

-----------------------------------------------------------------------------
(* Chunks, messages and pulses *)

Garbage == <<0, 0>>

(* The next n bytes of a session *)
Chunk(s, from, n) == [i \in 1..n |-> <<s, from + i>>]

(* What is transferred of a chunk when n bytes were announced: too little   *)
(* or more than there is, when a pulse has been lost                        *)
Fit(chunk, n) == [i \in 1..n |-> IF i <= Len(chunk) THEN chunk[i] ELSE Garbage]

Bytes(chunks) == FlattenSeq(chunks)

(* QRingBuffer::read *)
First(chunks) == IF chunks = <<>> THEN <<>> ELSE Head(chunks)
Rest(chunks) == IF chunks = <<>> THEN <<>> ELSE Tail(chunks)

Pulse(code, len) == [code |-> code, len |-> len]

Message(type, len, payload) ==
  [type |-> type, session |-> session, len |-> len, payload |-> payload]

(* MsgSendv reaches a server that is there. *)
Sent(message) == IF linked THEN Append(inbox, message) ELSE inbox

-----------------------------------------------------------------------------
(* The client's main thread *)

Free == clientAt = "free" /\ unpulsed = 0

(* connectToServer goes on.  A device closed for good is not asked to. *)
Connectable ==
  Free /\ state = "Unconnected" /\ ~closing /\ session < MaxSessions

(* establishConnection up to MsgSendv, when name_open finds the server.     *)
(* Otherwise everything is as before, and the device tries again.           *)
ConnectToServer ==
  /\ Connectable /\ listening
  /\ session' = session + 1
  /\ state' = "Connecting" /\ clientAt' = "registering"
  /\ thread' = [NoThread EXCEPT !.at = "receiving"]
  /\ linked' = TRUE
  /\ inbox' = Append(inbox, [Message("Init", 0, <<>>) EXCEPT !.session = session + 1])
  /\ got' = <<>> /\ sent' = 0
  /\ UNCHANGED <<unpulsed, closing, readyRead, obuffer, buffer, pulses, listening,
                 announces, sources, posted, historyVars>>

StopThread == /\ pulses' = Append(pulses, Pulse("Terminate", 0))
              /\ clientAt' = "joining"

(* The server went while the client was registering. *)
RegisterFails ==
  /\ clientAt = "registering" /\ ~linked
  /\ StopThread
  /\ UNCHANGED <<session, state, unpulsed, closing, clientData, thread, serverVars,
                 inbox, sources, posted, historyVars>>

(* QQnxNativeIo::writeData appends, and then sends a pulse to its thread. *)
ClientWrite(n) ==
  /\ Free /\ state = "Connected" /\ writes < MaxWrites
  /\ obuffer' = Append(obuffer, Chunk(session, sent, n))
  /\ sent' = sent + n /\ unpulsed' = n /\ writes' = writes + 1
  /\ UNCHANGED <<session, state, clientAt, closing, buffer, got, readyRead, threadVars,
                 serverVars, inbox, sources, posted, lost, closes>>

ClientPulse ==
  /\ clientAt = "free" /\ unpulsed # 0
  /\ unpulsed' = 0
  /\ \/ pulses' = Append(pulses, Pulse("Write", unpulsed)) /\ UNCHANGED lost
     \/ Cardinality(lost) < MaxLost /\ lost' = lost \cup {<<"toServer", session>>} /\ UNCHANGED pulses
  /\ UNCHANGED <<session, state, clientAt, closing, clientData, thread, serverVars,
                 inbox, sources, posted, closes, writes>>

(* The reader takes what there is, unless the thread holds ibLock. *)
ClientRead ==
  /\ Free /\ readyRead
  /\ thread.at \notin {"responding", "repeating"}
  /\ readyRead' = FALSE
  /\ got' = got \o buffer /\ buffer' = <<>>
  /\ UNCHANGED <<clientVars, obuffer, sent, threadVars, serverVars, inbox, sources,
                 posted, historyVars>>

(* ClosingState makes the device abort and ask for a reconnect, unless it   *)
(* is closed for good.                                                      *)
OnStateChanged == closing' \in BOOLEAN

(* disconnectFromServer and close: the thread is waited for.                *)
Close ==
  /\ Free /\ state = "Connected"
  /\ StopThread /\ OnStateChanged
  /\ UNCHANGED <<session, state, unpulsed, clientData, thread, serverVars, inbox,
                 sources, posted, historyVars>>

JoinedUncleared ==
  /\ clientAt = "joining" /\ thread.at = "none"
  /\ clientAt' = "free" /\ state' = "Unconnected"
  /\ UNCHANGED <<session, unpulsed, closing, clientData, threadVars,
                 serverVars, inbox, sources, posted, historyVars>>

(* abort and close, when the thread has ended: whatever was not sent or     *)
(* read is gone.                                                            *)
Joined ==
  /\ clientAt = "joining" /\ thread.at = "none"
  /\ clientAt' = "free" /\ state' = "Unconnected"
  /\ obuffer' = <<>> /\ buffer' = <<>>
  /\ UNCHANGED <<session, unpulsed, closing, got, sent, readyRead, threadVars,
                 serverVars, inbox, sources, posted, historyVars>>

-----------------------------------------------------------------------------
(* The client's thread *)

Receives(code) ==
  /\ thread.at = "receiving" /\ pulses # <<>> /\ Head(pulses).code = code
  /\ pulses' = IF code = "Terminate" THEN <<>> ELSE Tail(pulses)
  /\ UNCHANGED <<clientVars, buffer, got, sent, readyRead, listening, announces,
                 sources, posted, historyVars>>

ReceiveTxRequestAlways ==
  LET len == Head(pulses).len
  IN  /\ Receives("TxRequest")
      /\ thread' = [thread EXCEPT !.at = "responding", !.want = len]
      /\ inbox' = Sent(Message("Respond", len, <<>>))
      /\ UNCHANGED <<obuffer, linked>>

(* SOURCE_TX_RQ *)
ReceiveTxRequest ==
  LET len == Head(pulses).len
  IN  /\ Receives("TxRequest")
      /\ IF thread.ignore > 0
           THEN thread' = [thread EXCEPT !.ignore = @ - 1] /\ UNCHANGED inbox
           ELSE /\ thread' = [thread EXCEPT !.at = "responding", !.want = len]
                /\ inbox' = Sent(Message("Respond", len, <<>>))
      /\ UNCHANGED <<obuffer, linked>>

(* After a reply that left something, for all of it *)
AskForRest ==
  /\ thread.at = "left"
  /\ thread' = [thread EXCEPT !.at = "repeating"]
  /\ inbox' = Sent(Message("Repeat", thread.want, <<>>))
  /\ UNCHANGED <<clientVars, clientData, pulses, serverVars, sources, posted,
                 historyVars>>

(* REPLICA_WRITE: as many bytes as the pulse says, from the first chunk *)
ReceiveWrite ==
  LET len == Head(pulses).len
  IN  /\ Receives("Write")
      /\ thread' = [thread EXCEPT !.at = "sending", !.payload = First(obuffer)]
      /\ obuffer' = Rest(obuffer)
      /\ inbox' = Sent(Message("Receive", len, Fit(First(obuffer), len)))
      /\ UNCHANGED linked

(* The thread detaches from the server and ends. *)
ReceiveTerminate ==
  /\ Receives("Terminate")
  /\ thread' = NoThread
  /\ linked' = FALSE
  /\ inbox' = Sent(Message("Disconnect", 0, <<>>))
  /\ UNCHANGED obuffer

(* MsgSendv fails: the server is not there any more.  A payload is put back *)
(* in front, with no pulse to send it again.                                *)
SendFails ==
  /\ thread.at \in {"responding", "repeating", "sending"} /\ ~linked
  /\ obuffer' = IF thread.at = "sending" THEN <<thread.payload>> \o obuffer ELSE obuffer
  /\ thread' = [thread EXCEPT !.at = "receiving", !.want = 0, !.payload = <<>>]
  /\ UNCHANGED <<clientVars, buffer, got, sent, readyRead, pulses, serverVars, inbox,
                 sources, posted, historyVars>>

-----------------------------------------------------------------------------
(* The server's thread *)

Serves(type) ==
  /\ listening /\ inbox # <<>> /\ Head(inbox).type = type
  /\ inbox' = Tail(inbox)
  /\ UNCHANGED <<session, unpulsed, closing, obuffer, got, sent, pulses, serverVars,
                 historyVars>>

(* The source is pending until the main thread takes it. *)
CreateSource(s) ==
  /\ sources' = [sources EXCEPT ![s] = [NoSource EXCEPT !.known = TRUE]]
  /\ posted' = Append(posted, <<"newConnection", s>>)

(* REPLICA_INIT: the client goes on. *)
ServeInit ==
  LET s == Head(inbox).session
  IN  /\ Serves("Init") /\ CreateSource(s)
      /\ clientAt' = "free" /\ state' = "Connected"
      /\ UNCHANGED <<buffer, readyRead, thread>>

(* SOURCE_TX_RESP: one chunk, and how much is left *)
ServeRespond ==
  LET s == Head(inbox).session
      chunks == sources[s].obuffer
      left == Len(Bytes(Rest(chunks)))
  IN  /\ Serves("Respond") /\ sources[s].known
      /\ sources' = [sources EXCEPT ![s].obuffer = Rest(chunks)]
      /\ buffer' = buffer \o Fit(First(chunks), Head(inbox).len)
      /\ thread' = [thread EXCEPT !.at = IF left = 0 THEN "receiving" ELSE "left",
                                  !.want = left]
      /\ readyRead' = (readyRead \/ left = 0)
      /\ UNCHANGED <<clientAt, state, posted>>

ReadsOneMore(chunks, n) == Len(chunks) + 1

(* How many reads take n bytes, or reach the end, which takes one more *)
Reads(chunks, n) ==
  LET exact == {k \in 0..Len(chunks) : Len(Bytes(SubSeq(chunks, 1, k))) = n}
  IN  IF exact = {} THEN Len(chunks) + 1 ELSE CHOOSE k \in exact : \A j \in exact : k <= j

(* SOURCE_TX_RESP_REPEAT: the rest, and how many pulses belong to it *)
ServeRepeat ==
  LET s == Head(inbox).session
      chunks == sources[s].obuffer
      n == Reads(chunks, Head(inbox).len)
      taken == SubSeq(chunks, 1, Min({n, Len(chunks)}))
  IN  /\ Serves("Repeat") /\ sources[s].known
      /\ sources' = [sources EXCEPT ![s].obuffer = SubSeq(chunks, Len(taken) + 1, Len(chunks))]
      /\ buffer' = buffer \o Fit(Bytes(taken), Head(inbox).len)
      /\ thread' = [thread EXCEPT !.at = "receiving", !.want = 0, !.ignore = n]
      /\ readyRead' = TRUE
      /\ UNCHANGED <<clientAt, state, posted>>

(* REPLICA_TX_RECV: readyRead is emitted once, and reaches nobody before    *)
(* the main thread has taken the source.                                    *)
ServeReceive ==
  LET s == Head(inbox).session
  IN  /\ Serves("Receive") /\ sources[s].known
      /\ sources' = [sources EXCEPT ![s].buffer = @ \o Head(inbox).payload,
                                    ![s].early = ~sources[s].attached]
      /\ posted' = IF sources[s].attached THEN Append(posted, <<"readyRead", s>>)
                   ELSE posted
      /\ thread' = [thread EXCEPT !.at = "receiving", !.payload = <<>>]
      /\ UNCHANGED <<buffer, readyRead, clientAt, state>>

(* _PULSE_CODE_DISCONNECT *)
ServeDisconnect ==
  LET s == Head(inbox).session
  IN  /\ Serves("Disconnect")
      /\ sources' = [sources EXCEPT ![s].known = FALSE, ![s].serverClosing = TRUE]
      /\ posted' = IF sources[s].known THEN Append(posted, <<"onDisconnected", s>>)
                   ELSE posted
      /\ UNCHANGED <<buffer, readyRead, thread, clientAt, state>>

-----------------------------------------------------------------------------
(* The server's main thread *)

NotAnnouncing == announces = <<0, 0>>

Handles(event) ==
  /\ NotAnnouncing /\ posted # <<>> /\ Head(posted)[1] = event
  /\ posted' = Tail(posted)
  /\ UNCHANGED <<clientVars, clientData, threadVars, serverVars, inbox, historyVars>>

(* configureNewConnection and newConnection, which does not look for bytes  *)
(* that are there already                                                   *)
NewConnection ==
  /\ Handles("newConnection")
  /\ sources' = [sources EXCEPT ![Head(posted)[2]].attached = TRUE]

(* onDisconnected, close and onServerDisconnect *)
OnDisconnected ==
  /\ Handles("onDisconnected")
  /\ sources' = [sources EXCEPT ![Head(posted)[2]] = NoSource]

ServerRead ==
  /\ Handles("readyRead")
  /\ sources' = [sources EXCEPT ![Head(posted)[2]].got = @ \o sources[Head(posted)[2]].buffer,
                                ![Head(posted)[2]].buffer = <<>>]

(* QIOQnxSource::writeData appends, and then delivers the client's event. *)
ServerWrite(s, n) ==
  /\ NotAnnouncing /\ sources[s].attached /\ writes < MaxWrites
  /\ sources' = [sources EXCEPT ![s].obuffer = Append(@, Chunk(s, sources[s].sent, n)),
                                ![s].sent = @ + n]
  /\ announces' = <<s, n>> /\ writes' = writes + 1
  /\ UNCHANGED <<clientVars, clientData, threadVars, listening, linked, inbox, posted,
                 lost, closes>>

(* The client of the session has its channel. *)
Reachable(s) == s = session /\ thread.at # "none"

ServerPulse ==
  LET s == announces[1]
  IN  /\ ~NotAnnouncing
      /\ announces' = <<0, 0>>
      /\ \/ /\ pulses' = IF Reachable(s) /\ ~sources[s].serverClosing
                           THEN Append(pulses, Pulse("TxRequest", announces[2])) ELSE pulses
            /\ UNCHANGED lost
         \/ /\ Reachable(s) /\ Cardinality(lost) < MaxLost
            /\ lost' = lost \cup {<<"toClient", s>>}
            /\ UNCHANGED pulses
      /\ UNCHANGED <<clientVars, clientData, thread, listening, linked, inbox, sources,
                     posted, closes, writes>>

(* teardownServer, and the end of its thread and sources *)
ServerCloses ==
  /\ NotAnnouncing /\ listening
  /\ closes < MaxCloses /\ closes' = closes + 1
  /\ listening' = FALSE /\ linked' = FALSE
  /\ inbox' = <<>> /\ posted' = <<>>
  /\ sources' = [s \in Sessions |-> NoSource]
  /\ UNCHANGED <<clientVars, clientData, threadVars, announces, lost, writes>>

(* Another QQnxNativeServer listens: the old one cannot again. *)
ServerListens ==
  /\ ~listening
  /\ listening' = TRUE
  /\ UNCHANGED <<clientVars, clientData, threadVars, linked, announces, inbox, sources,
                 posted, historyVars>>

-----------------------------------------------------------------------------
ClientStep == RegisterFails \/ ClientPulse \/ ClientRead \/ Joined
ThreadStep == ReceiveTxRequest \/ AskForRest \/ ReceiveWrite \/ ReceiveTerminate \/ SendFails
ServeStep == ServeInit \/ ServeRespond \/ ServeRepeat \/ ServeReceive \/ ServeDisconnect
ServerStep == NewConnection \/ OnDisconnected \/ ServerRead \/ ServerPulse

Next ==
  \/ ClientStep \/ ThreadStep \/ ServeStep \/ ServerStep
  \/ ConnectToServer \/ Close \/ ServerCloses \/ ServerListens
  \/ \E n \in Lengths : ClientWrite(n)
  \/ \E s \in Sessions, n \in Lengths : ServerWrite(s, n)

Spec == Init /\ [][Next]_vars

(* Both event loops and both threads go on. *)
FairSpec ==
  Spec /\ WF_vars(ClientStep) /\ WF_vars(ThreadStep) /\ WF_vars(ServeStep)
       /\ WF_vars(ServerStep)

-----------------------------------------------------------------------------
ByteStreams == Seq((Sessions \cup {0}) \X Nat)

(* Type correctness.  Between connections a device has no thread and holds  *)
(* nothing.                                                                 *)
TypeOK ==
  /\ session \in 0..MaxSessions
  /\ state \in {"Unconnected", "Connecting", "Connected"}
  /\ clientAt \in {"free", "registering", "joining"}
  /\ unpulsed \in Lengths \cup {0} /\ sent \in Nat
  /\ obuffer \in Seq(ByteStreams) /\ buffer \in ByteStreams /\ got \in ByteStreams
  /\ thread.at \in {"none", "receiving", "responding", "left", "repeating", "sending"}
  /\ thread.ignore \in 0..(MaxWrites + 1)
  /\ state = "Unconnected" =>
       thread = NoThread /\ pulses = <<>> /\ obuffer = <<>> /\ buffer = <<>>
  /\ \A s \in Sessions : sources[s].attached => s <= session
  /\ lost \subseteq {"toClient", "toServer"} \X Sessions

(* These bytes are the first of a session. *)
FirstOf(s, bytes) == \A i \in DOMAIN bytes : bytes[i] = <<s, i>>

(* Whatever the two threads of each side do in between, each side reads     *)
(* what the other wrote in this session, in order and once: nothing of an   *)
(* older session, and no byte that was not written.  And the server has the *)
(* source of every message (the asserts at qnx_server.cpp:261, 285 and      *)
(* 322).  A pulse that is refused shifts the rest of its direction, against *)
(* the assert at qnx_server.cpp:271.                                        *)
Streams ==
  /\ <<"toClient", session>> \notin lost => FirstOf(session, got \o buffer)
  /\ \A s \in Sessions : <<"toServer", s>> \notin lost =>
       FirstOf(s, sources[s].got \o sources[s].buffer)
  /\ listening => \A i \in DOMAIN inbox : inbox[i].type \in {"Respond", "Repeat", "Receive"} =>
       sources[inbox[i].session].known

(* What both sides of a connection that stays have written, the other has   *)
(* read in the end, although many writes share one request and their pulses *)
(* are ignored; and to close a device, whose thread is waited for while it  *)
(* may wait for the server, takes no forever.  Not after a refused pulse;   *)
(* and bytes that came before the server took the connection wait for the   *)
(* next ones.                                                               *)
Progress ==
  /\ \A s \in Sessions :
       <>[](session = s /\ state = "Connected" /\ linked /\ lost = {}) =>
         <>[]( /\ Len(got) = sources[s].sent
               /\ sources[s].early \/ Len(sources[s].got) = sent )
  /\ (clientAt = "joining" ~> clientAt = "free")
=============================================================================
