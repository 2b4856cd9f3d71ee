------------------------- MODULE PendingCallsProofs -------------------------
(***************************************************************************)
(* Theorems about PendingCalls, for any replicas, limits and bounds: calls *)
(* get their own answers, finished calls wake whoever waits for them, and  *)
(* the heartbeat closes a connection for the lack of an answer alone.      *)
(***************************************************************************)
EXTENDS PendingCalls, SequenceTheorems, TLAPS

-----------------------------------------------------------------------------
(* Types *)

(* The facts of the sequences that every step uses. *)
LEMMA Lengths ==
  ASSUME TypeOK
  PROVE  /\ calls \in Seq(CallRecords) /\ Len(calls) \in Nat /\ DOMAIN calls = 1..Len(calls)
         /\ waits \in Seq(EventLoops) /\ Len(waits) \in Nat /\ DOMAIN waits = 1..Len(waits)
         /\ \A c \in DOMAIN calls : calls[c] \in CallRecords
         /\ \A i \in DOMAIN waits : waits[i] \in EventLoops
BY LenProperties, ElementOfSeq DEF TypeOK

(* A call's number fits. *)
LEMMA LenInCallIds ==
  ASSUME TypeOK
  PROVE  0..Len(calls) \subseteq CallIds
BY Lengths, BoundsAreNaturals DEF TypeOK, CallIds

(* So does the one of a call that may still be made. *)
LEMMA NextCallFits ==
  ASSUME TypeOK, Len(calls) < MaxCalls
  PROVE  Len(calls) + 1 \in CallIds
<1>1. Len(calls) \in Nat /\ MaxCalls \in Nat
  BY Lengths, BoundsAreNaturals
<1>. QED  BY ONLY Len(calls) < MaxCalls, <1>1 DEF CallIds

(* A sequence whose elements have been replaced one by one. *)
LEMMA Replaced ==
  ASSUME NEW S, NEW s \in Seq(S), NEW f,
         f = [i \in DOMAIN s |-> f[i]], \A i \in DOMAIN s : f[i] \in S
  PROVE  f \in Seq(S) /\ DOMAIN f = DOMAIN s /\ Len(f) = Len(s)
<1>1. Len(s) \in Nat /\ DOMAIN s = 1..Len(s)
  BY LenProperties
<1>2. f \in [1..Len(s) -> S]
  BY <1>1
<1>3. f \in Seq(S)
  BY <1>1, <1>2, SeqDef
<1>4. Len(f) \in Nat /\ DOMAIN f = 1..Len(f)
  BY <1>3, LenProperties
<1>. QED  BY <1>1, <1>2, <1>3, <1>4

(* A watcher is deaf only if a wait made the call's helper, and a helper   *)
(* that no watcher made was made by a wait.                                *)
Explained(call) ==
  /\ call.watcher = "deaf" => call.helper = "wait"
  /\ call.watcher = "none" => call.helper # "watch"

(* What a finished call keeps and what it takes. *)
FinishedCall(call, v) ==
  [call EXCEPT !.done = TRUE, !.value = v,
     !.watcher = IF @ = "connected" THEN "queued" ELSE @]

(* A finished call keeps its name, serial id and session. *)
LEMMA FinishedRecord ==
  ASSUME NEW call \in CallRecords, NEW v \in CallIds
  PROVE  /\ FinishedCall(call, v) \in CallRecords
         /\ FinishedCall(call, v).name = call.name
         /\ FinishedCall(call, v).serial = call.serial
         /\ FinishedCall(call, v).session = call.session
         /\ FinishedCall(call, v).done = TRUE
         /\ FinishedCall(call, v).value = v
         /\ FinishedCall(call, v).watcher # "connected"
         /\ Explained(call) => Explained(FinishedCall(call, v))
BY DEF FinishedCall, CallRecords, Explained

(* A loop that is told to quit is the same loop. *)
LEMMA ToldRecord ==
  ASSUME NEW loop \in EventLoops, NEW told \in BOOLEAN
  PROVE  LET new == [loop EXCEPT !.quit = told]
         IN  new \in EventLoops /\ new.call = loop.call /\ new.quit = told
BY DEF EventLoops

(* What notifyAboutReply does to the calls and to the loops. *)
LEMMA Finished ==
  ASSUME TypeOK, NEW c \in Nat, NEW v \in CallIds, Finish(c, v)
  PROVE  /\ calls' \in Seq(CallRecords) /\ Len(calls') = Len(calls)
         /\ DOMAIN calls' = DOMAIN calls
         /\ waits' \in Seq(EventLoops) /\ DOMAIN waits' = DOMAIN waits
         /\ \A d \in DOMAIN calls :
              calls'[d] = IF d = c THEN FinishedCall(calls[d], v) ELSE calls[d]
         /\ \A i \in DOMAIN waits :
              /\ waits'[i].call = waits[i].call
              /\ waits'[i].quit = (waits[i].quit \/ waits[i].call = c)
<1>1. \A d \in DOMAIN calls :
        calls'[d] = IF d = c THEN FinishedCall(calls[d], v) ELSE calls[d]
  BY Lengths DEF Finish, FinishedCall
<1>2. \A d \in DOMAIN calls : calls'[d] \in CallRecords
  BY <1>1, Lengths, FinishedRecord
<1>3. calls' = [d \in DOMAIN calls |-> calls'[d]]
  BY Zenon DEF Finish
<1>4. \A i \in DOMAIN waits :
        waits'[i] = [waits[i] EXCEPT !.quit = @ \/ waits[i].call = c]
  BY Zenon DEF Finish
<1>5. ASSUME NEW i \in DOMAIN waits
      PROVE  /\ waits'[i] \in EventLoops
             /\ waits'[i].call = waits[i].call
             /\ waits'[i].quit = (waits[i].quit \/ waits[i].call = c)
  <2>. DEFINE told == waits[i].quit \/ waits[i].call = c
  <2>1. waits[i] \in EventLoops /\ told \in BOOLEAN
    BY <1>5, Lengths DEF EventLoops
  <2>2. waits'[i] = [waits[i] EXCEPT !.quit = told]
    BY <1>4
  <2>. HIDE DEF told
  <2>3. waits'[i] \in EventLoops /\ waits'[i].call = waits[i].call /\ waits'[i].quit = told
    BY <2>1, <2>2, ToldRecord
  <2>. QED  BY <2>3 DEF told
<1>6. waits' = [i \in DOMAIN waits |-> waits'[i]]
  BY Zenon DEF Finish
<1>7. /\ calls' \in Seq(CallRecords) /\ Len(calls') = Len(calls)
      /\ DOMAIN calls' = DOMAIN calls
      /\ waits' \in Seq(EventLoops) /\ DOMAIN waits' = DOMAIN waits
  BY <1>2, <1>3, <1>5, <1>6, Lengths, Replaced
<1>. QED  BY <1>1, <1>5, <1>7

(* To wait for a call or to watch it changes no more than its helper and   *)
(* its watcher.                                                            *)
Same(old, new) ==
  /\ new.name = old.name /\ new.serial = old.serial /\ new.session = old.session
  /\ new.done = old.done /\ new.value = old.value

HelpedCall(call) == [call EXCEPT !.helper = IF @ = "none" THEN "wait" ELSE @]

(* A helper leaves the call as it is. *)
LEMMA HelpedRecord ==
  ASSUME NEW call \in CallRecords
  PROVE  /\ HelpedCall(call) \in CallRecords /\ Same(call, HelpedCall(call))
         /\ HelpedCall(call).watcher = call.watcher
         /\ Explained(call) => Explained(HelpedCall(call))
BY DEF CallRecords, Same, HelpedCall, Explained

(* waitForFinished leaves the calls as they are, and waits for one that    *)
(* has not finished.                                                       *)
LEMMA HelpedCalls ==
  ASSUME TypeOK, NEW inRead \in BOOLEAN, NEW loop \in Loops(inRead),
         calls' = Helped(loop)
  PROVE  /\ calls' \in Seq(CallRecords) /\ DOMAIN calls' = DOMAIN calls
         /\ \A d \in DOMAIN calls :
              /\ Same(calls[d], calls'[d]) /\ calls'[d].watcher = calls[d].watcher
              /\ Explained(calls[d]) => Explained(calls'[d])
         /\ loop \in EventLoops /\ loop.call \in DOMAIN calls
         /\ ~calls[loop.call].done
<1>1. /\ loop \in [call : {c \in DOMAIN calls : ~calls[c].done},
                   inRead : {inRead}, quit : {FALSE}]
  BY DEF Loops
<1>2. loop.call \in DOMAIN calls /\ ~calls[loop.call].done
  BY <1>1
<1>3. \A c \in DOMAIN calls : c \in CallIds
  BY Lengths, LenInCallIds
<1>4. loop \in EventLoops
  BY <1>1, <1>3 DEF EventLoops
<1>5. \A d \in DOMAIN calls :
        calls'[d] = IF d = loop.call THEN HelpedCall(calls[d]) ELSE calls[d]
  BY Zenon DEF Helped, HelpedCall
<1>6. ASSUME NEW d \in DOMAIN calls
      PROVE  /\ calls'[d] \in CallRecords
             /\ Same(calls[d], calls'[d]) /\ calls'[d].watcher = calls[d].watcher
             /\ Explained(calls[d]) => Explained(calls'[d])
  <2>1. calls[d] \in CallRecords
    BY Lengths
  <2>2. Same(calls[d], calls[d])
    BY DEF Same
  <2>. QED  BY <1>5, <2>1, <2>2, HelpedRecord
<1>7. calls' = [d \in DOMAIN calls |-> calls'[d]]
  BY Zenon DEF Helped
<1>8. calls' \in Seq(CallRecords) /\ DOMAIN calls' = DOMAIN calls
  BY <1>6, <1>7, Lengths, Replaced
<1>. QED  BY <1>2, <1>4, <1>6, <1>8

WatchedCall(call, w) ==
  [call EXCEPT !.helper = IF @ = "none" THEN "watch" ELSE @, !.watcher = w]

(* A watcher leaves the rest of the call as it is. *)
LEMMA WatchedRecord ==
  ASSUME NEW call \in CallRecords, NEW w \in {"connected", "queued", "deaf"}
  PROVE  /\ WatchedCall(call, w) \in CallRecords
         /\ Same(call, WatchedCall(call, w)) /\ WatchedCall(call, w).watcher = w
         /\ (Explained(call) /\ call.watcher = "none"
             /\ (w = "deaf" => call.helper # "none")) => Explained(WatchedCall(call, w))
BY DEF CallRecords, Same, WatchedCall, Explained

(* Only a call that has not finished gets a connected watcher. *)
LEMMA WatchedCalls ==
  ASSUME TypeOK, NEW c \in DOMAIN calls, Watch(c)
  PROVE  /\ calls' \in Seq(CallRecords) /\ DOMAIN calls' = DOMAIN calls
         /\ \A d \in DOMAIN calls :
              /\ Same(calls[d], calls'[d])
              /\ calls'[d].watcher = "connected" =>
                   calls[d].watcher = "connected" \/ ~calls[d].done
              /\ Explained(calls[d]) => Explained(calls'[d])
<1>. DEFINE w == IF ~calls[c].done THEN "connected"
                 ELSE IF calls[c].helper = "none" THEN "queued" ELSE "deaf"
<1>1. \A d \in DOMAIN calls :
        calls'[d] = IF d = c THEN WatchedCall(calls[d], w) ELSE calls[d]
  BY Zenon DEF Watch, WatchedCall
<1>2. ASSUME NEW d \in DOMAIN calls
      PROVE  /\ calls'[d] \in CallRecords
             /\ Same(calls[d], calls'[d])
             /\ calls'[d].watcher = IF d = c THEN w ELSE calls[d].watcher
             /\ Explained(calls[d]) => Explained(calls'[d])
  <2>1. calls[d] \in CallRecords /\ w \in {"connected", "queued", "deaf"}
    BY Lengths
  <2>2. Same(calls[d], calls[d])
    BY DEF Same
  <2>5. calls[c].watcher = "none" /\ (w = "deaf" => calls[c].helper # "none")
    BY DEF Watch
  <2>. HIDE DEF w
  <2>3. CASE d = c
    <3>1. calls'[d] = WatchedCall(calls[d], w)
      BY <1>1, <2>3
    <3>2. /\ calls[d].watcher = "none"
          /\ w = "deaf" => calls[d].helper # "none"
      BY ONLY <2>3, <2>5
    <3>3. /\ WatchedCall(calls[d], w) \in CallRecords
          /\ Same(calls[d], WatchedCall(calls[d], w))
          /\ WatchedCall(calls[d], w).watcher = w
          /\ Explained(calls[d]) => Explained(WatchedCall(calls[d], w))
      BY ONLY <2>1, <3>2, WatchedRecord
    <3>. QED  BY ONLY <2>3, <3>1, <3>3
  <2>4. CASE d # c
    BY <1>1, <2>1, <2>2, <2>4
  <2>. QED  BY <2>3, <2>4
<1>3. calls' = [d \in DOMAIN calls |-> calls'[d]]
  BY Zenon DEF Watch
<1>4. calls' \in Seq(CallRecords) /\ DOMAIN calls' = DOMAIN calls
  BY <1>2, <1>3, Lengths, Replaced
<1>. QED  BY <1>2, <1>4

-----------------------------------------------------------------------------
(* Type correctness *)

(* A packet of typed parts is typed, and has these parts. *)
LEMMA PacketType ==
  ASSUME NEW type \in {"AddObject", "Ping", "Invoke", "Init", "Pong", "Reply"},
         NEW r \in Remote, NEW serial \in Serials, NEW call \in CallIds
  PROVE  /\ Packet(type, r, serial, call) \in Packets
         /\ Packet(type, r, serial, call).type = type
         /\ Packet(type, r, serial, call).name = r
         /\ Packet(type, r, serial, call).serial = serial
         /\ Packet(type, r, serial, call).call = call
BY DEF Packet, Packets

(* The constants are of the types they are used at. *)
LEMMA Small ==
  /\ NoCall \in CallIds /\ NoReply \in Serials /\ Heartbeat \in Serials
  /\ Heartbeat \in 0..MaxInt /\ 1 \in 1..MaxInt /\ 1..MaxInt \subseteq Serials
BY MaxIntIsPositive, BoundsAreNaturals
   DEF CallIds, Serials, NoCall, NoReply, Heartbeat

(* The packet to be read next, and what stays. *)
LEMMA FirstPacket ==
  ASSUME NEW s \in Seq(Packets), s # <<>>
  PROVE  /\ Head(s) \in Packets /\ Tail(s) \in Seq(Packets)
         /\ Head(s).name \in Remote /\ Head(s).serial \in Serials /\ Head(s).call \in CallIds
<1>1. Head(s) \in Packets /\ Tail(s) \in Seq(Packets)
  BY HeadTailProperties
<1>. QED  BY <1>1 DEF Packets

(* The initial state is well typed. *)
LEMMA TypeInit == Init => TypeOK
<1>. SUFFICES ASSUME Init  PROVE TypeOK
  OBVIOUS
<1>1. /\ calls \in Seq(CallRecords) /\ waits \in Seq(EventLoops) /\ Len(calls) = 0
      /\ toHost \in Seq(Packets) /\ toClient \in Seq(Packets)
  BY EmptySeq DEF Init
<1>2. rxName \in Remote
  BY OrderIsNotEmpty, EmptySeq DEF Init, Remote
<1>3. pending \in [Remote -> [0..MaxInt -> Nat]]
  BY DEF Init, NoCall
<1>4. events \in 0..MaxEvents /\ session \in 0..MaxSessions /\ Len(calls) <= MaxCalls
  BY <1>1, BoundsAreNaturals DEF Init
<1>5. curSerialId \in [Remote -> 1..MaxInt]
  BY FirstSerialIdsFit DEF Init
<1>6. /\ attached = {} /\ timer = {} /\ interval \in BOOLEAN /\ silent \in BOOLEAN
      /\ link = "down" /\ slots = {} /\ strayed = {}
  BY DEF Init
<1>. QED  BY <1>1, <1>2, <1>3, <1>4, <1>5, <1>6 DEF TypeOK

(* An entry keeps the type of m_pendingCalls. *)
LEMMA PendingType ==
  ASSUME NEW p \in [Remote -> [0..MaxInt -> Nat]], NEW r \in Remote,
         NEW s \in 0..MaxInt, NEW id \in Nat
  PROVE  [p EXCEPT ![r][s] = id] \in [Remote -> [0..MaxInt -> Nat]]
OBVIOUS

(* What sendCommand sends is typed. *)
LEMMA SendType ==
  ASSUME TypeOK, NEW p \in Packets, SendCommand(p)
  PROVE  /\ toHost' \in Seq(Packets) /\ timer' \subseteq Remote
         /\ toHost' = IF link = "up" THEN Append(toHost, p) ELSE toHost
<1>1. p.name \in Remote
  BY DEF Packets
<1>2. toHost \in Seq(Packets) /\ timer \subseteq Remote
  BY DEF TypeOK
<1>3. Append(toHost, p) \in Seq(Packets)
  BY <1>2, AppendProperties
<1>. QED  BY <1>1, <1>2, <1>3 DEF SendCommand

(* A new call is typed, and has these parts. *)
LEMMA NewCallType ==
  ASSUME TypeOK, NEW r \in Remote \cup InProcess, NEW serial \in Serials,
         NEW done \in BOOLEAN, NEW value \in CallIds
  PROVE  LET call == NewCall(r, serial, done, value)
         IN  /\ call \in CallRecords
             /\ call.name = r /\ call.serial = serial /\ call.session = session
             /\ call.done = done /\ call.value = value /\ call.watcher = "none"
             /\ Explained(call)
BY DEF NewCall, CallRecords, TypeOK, Explained

(* A call that is made becomes the last. *)
LEMMA Appended ==
  ASSUME TypeOK, NEW call \in CallRecords, calls' = Append(calls, call)
  PROVE  /\ calls' \in Seq(CallRecords) /\ Len(calls') = Len(calls) + 1
         /\ DOMAIN calls' = 1..(Len(calls) + 1)
         /\ \A d \in DOMAIN calls : calls'[d] = calls[d]
         /\ calls'[Len(calls) + 1] = call
<1>1. /\ calls' \in Seq(CallRecords) /\ Len(calls') = Len(calls) + 1
      /\ \A i \in 1..Len(calls) : calls'[i] = calls[i]
      /\ calls'[Len(calls) + 1] = call
  BY Lengths, AppendProperties
<1>. QED  BY <1>1, Lengths, LenProperties

(* Calls that the application makes are typed. *)
LEMMA TypeSend ==
  ASSUME TypeOK,
         \/ \E r \in Remote : SendWithReply(r) \/ Send(r)
         \/ \E r \in InProcess : SendInProcess(r)
  PROVE  TypeOK'
<1>. USE DEF Event
<1>0. /\ events \in 0..MaxEvents /\ MaxEvents \in Nat
      /\ Len(calls) \in Nat /\ Len(calls) <= MaxCalls /\ MaxCalls \in Nat
      /\ Len(calls) < MaxCalls => Len(calls) + 1 \in CallIds
  BY Lengths, BoundsAreNaturals DEF TypeOK, CallIds
<1>1. ASSUME NEW r \in Remote, SendWithReply(r)  PROVE TypeOK'
  <2>. DEFINE id == Len(calls) + 1
              call == NewCall(r, NextSerialId(r), FALSE, NoCall)
              p == Packet("Invoke", r, NextSerialId(r), id)
  <2>1. NextSerialId(r) \in 1..MaxInt
    BY MaxIntIsPositive DEF NextSerialId, TypeOK
  <2>2. p \in Packets /\ call \in CallRecords
    BY <1>0, <1>1, <2>1, Small, PacketType, NewCallType DEF SendWithReply
  <2>3. toHost' \in Seq(Packets) /\ timer' \subseteq Remote
    <3>1. SendCommand(p)
      BY <1>1 DEF SendWithReply
    <3>. HIDE DEF p
    <3>. QED  BY <2>2, <3>1, SendType
  <2>4. calls' \in Seq(CallRecords) /\ Len(calls') <= MaxCalls
    <3>1. calls' = calls \/ calls' = Append(calls, call)
      BY <1>1 DEF SendWithReply
    <3>. HIDE DEF call
    <3>. QED  BY <1>0, <1>1, <2>2, <3>1, Lengths, Appended DEF SendWithReply
  <2>5. pending' \in [Remote -> [0..MaxInt -> Nat]]
    <3>1. pending' = pending \/ pending' = [pending EXCEPT ![r][NextSerialId(r)] = id]
      BY <1>1 DEF SendWithReply
    <3>2. pending \in [Remote -> [0..MaxInt -> Nat]]
      BY DEF TypeOK
    <3>3. NextSerialId(r) \in 0..MaxInt /\ id \in Nat
      BY <1>0, <2>1
    <3>. HIDE DEF id
    <3>4. [pending EXCEPT ![r][NextSerialId(r)] = id] \in [Remote -> [0..MaxInt -> Nat]]
      BY ONLY <3>2, <3>3, PendingType
    <3>. QED  BY <3>1, <3>2, <3>4
  <2>6. curSerialId' \in [Remote -> 1..MaxInt]
    <3>1. curSerialId \in [Remote -> 1..MaxInt] /\ MaxInt \in Nat
      BY MaxIntIsPositive DEF TypeOK
    <3>2. PICK n : /\ n = IF curSerialId[r] = MaxInt THEN curSerialId[r] ELSE curSerialId[r] + 1
                   /\ curSerialId' = [curSerialId EXCEPT ![r] = n]
      BY <1>1 DEF SendWithReply
    <3>3. n \in 1..MaxInt
      BY <3>1, <3>2
    <3>. QED  BY <3>1, <3>2, <3>3
  <2>7. events' \in 0..MaxEvents
    BY <1>0, <1>1 DEF SendWithReply
  <2>8. UNCHANGED <<attached, interval, waits, link, session, silent, toClient, hostVars>>
    BY <1>1 DEF SendWithReply, linkVars
  <2>. QED  BY <2>3, <2>4, <2>5, <2>6, <2>7, <2>8 DEF TypeOK, hostVars
<1>2. ASSUME NEW r \in Remote, Send(r)  PROVE TypeOK'
  <2>. DEFINE p == Packet("Invoke", r, NoReply, NoCall)
  <2>1. p \in Packets
    BY Small, PacketType
  <2>2. toHost' \in Seq(Packets) /\ timer' \subseteq Remote
    <3>1. SendCommand(p)
      BY <1>2 DEF Send
    <3>. HIDE DEF p
    <3>. QED  BY <2>1, <3>1, SendType
  <2>3. events' \in 0..MaxEvents
    BY <1>0, <1>2 DEF Send
  <2>4. UNCHANGED <<calls, attached, curSerialId, pending, interval, waits, link,
                    session, silent, toClient, hostVars>>
    BY <1>2 DEF Send, linkVars
  <2>. QED  BY <2>2, <2>3, <2>4 DEF TypeOK, hostVars
<1>3. ASSUME NEW r \in InProcess, SendInProcess(r)  PROVE TypeOK'
  <2>. DEFINE call == NewCall(r, NoReply, TRUE, Len(calls) + 1)
  <2>1. call \in CallRecords /\ calls' = Append(calls, call)
    BY <1>0, <1>3, Small, NewCallType DEF SendInProcess
  <2>. HIDE DEF call
  <2>2. calls' \in Seq(CallRecords) /\ Len(calls') <= MaxCalls
    <3>1. calls' \in Seq(CallRecords) /\ Len(calls') = Len(calls) + 1
      BY <2>1, Appended
    <3>2. Len(calls) < MaxCalls
      BY <1>3 DEF SendInProcess
    <3>. QED  BY <1>0, <3>1, <3>2
  <2>3. events' \in 0..MaxEvents
    BY <1>0, <1>3 DEF SendInProcess
  <2>4. UNCHANGED <<replicaVars, interval, waits, linkVars, toHost, toClient, hostVars>>
    BY <1>3 DEF SendInProcess
  <2>. QED  BY <2>2, <2>3, <2>4 DEF TypeOK, hostVars, linkVars, replicaVars
<1>. QED  BY <1>1, <1>2, <1>3

(* So are the loops that wait for them and the watchers. *)
LEMMA TypeWait ==
  ASSUME TypeOK,
         \/ \E c \in DOMAIN calls : Watch(c)
         \/ Wait \/ WaitReturns
         \/ \E i \in DOMAIN waits : WaitExpires(i)
  PROVE  TypeOK'
<1>. USE DEF Event, linkVars, replicaVars, hostVars
<1>0. events \in 0..MaxEvents /\ MaxEvents \in Nat
  BY BoundsAreNaturals DEF TypeOK
<1>1. ASSUME NEW c \in DOMAIN calls, Watch(c)  PROVE TypeOK'
  <2>1. calls' \in Seq(CallRecords) /\ DOMAIN calls' = DOMAIN calls
    BY <1>1, WatchedCalls
  <2>2. Len(calls') = Len(calls)
    BY <2>1, Lengths, LenProperties
  <2>3. events' \in 0..MaxEvents
    <3>1. events' = events + 1 /\ events + 1 <= MaxEvents
      BY <1>1, Zenon DEF Watch
    <3>. QED  BY <1>0, <3>1
  <2>. QED  BY <1>1, <2>1, <2>2, <2>3 DEF Watch, TypeOK
<1>2. ASSUME Wait  PROVE TypeOK'
  <2>1. PICK loop \in Loops(FALSE) : waits' = Append(waits, loop) /\ calls' = Helped(loop)
    BY <1>2 DEF Wait
  <2>2. calls' \in Seq(CallRecords) /\ DOMAIN calls' = DOMAIN calls /\ loop \in EventLoops
    BY <2>1, HelpedCalls
  <2>3. Len(calls') = Len(calls)
    BY <2>2, Lengths, LenProperties
  <2>4. waits' \in Seq(EventLoops)
    BY <2>1, <2>2, Lengths, AppendProperties
  <2>5. events' \in 0..MaxEvents
    BY <1>0, <1>2 DEF Wait
  <2>6. UNCHANGED <<replicaVars, interval, linkVars, toHost, toClient, hostVars>>
    BY <1>2 DEF Wait
  <2>. QED  BY <2>2, <2>3, <2>4, <2>5, <2>6 DEF TypeOK
<1>3. ASSUME WaitReturns  PROVE TypeOK'
  <2>1. waits' \in Seq(EventLoops)
    BY <1>3, Lengths, SubSeqProperties DEF WaitReturns
  <2>2. UNCHANGED <<events, calls, replicaVars, interval, linkVars, toHost, toClient,
                    hostVars>>
    BY <1>3 DEF WaitReturns
  <2>. QED  BY <2>1, <2>2 DEF TypeOK
<1>4. ASSUME NEW i \in DOMAIN waits, WaitExpires(i)  PROVE TypeOK'
  <2>1. \A j \in DOMAIN waits :
          waits'[j] = IF j = i THEN [waits[j] EXCEPT !.quit = TRUE] ELSE waits[j]
    BY <1>4, Zenon DEF WaitExpires
  <2>2. \A j \in DOMAIN waits : waits'[j] \in EventLoops
    BY <2>1, Lengths, ToldRecord
  <2>3. waits' = [j \in DOMAIN waits |-> waits'[j]]
    BY <1>4, Zenon DEF WaitExpires
  <2>4. waits' \in Seq(EventLoops)
    BY <2>2, <2>3, Lengths, Replaced
  <2>5. UNCHANGED <<events, calls, replicaVars, interval, linkVars, toHost, toClient,
                    hostVars>>
    BY <1>4 DEF WaitExpires
  <2>. QED  BY <2>4, <2>5 DEF TypeOK
<1>. QED  BY <1>1, <1>2, <1>3, <1>4

(* The heartbeat, and the settings of the connection, keep the types. *)
LEMMA TypeLink ==
  ASSUME TypeOK,
         \/ \E r \in Remote : HeartbeatTimeout(r)
         \/ SetHeartbeatInterval
         \/ Connect \/ Disconnected \/ GoesSilent
  PROVE  TypeOK'
<1>. USE DEF linkVars, hostVars
<1>0. /\ events \in 0..MaxEvents /\ MaxEvents \in Nat
      /\ session \in 0..MaxSessions /\ MaxSessions \in Nat
      /\ pending \in [Remote -> [0..MaxInt -> Nat]]
      /\ timer \subseteq Remote /\ attached \subseteq Remote
  BY BoundsAreNaturals DEF TypeOK
<1>1. ASSUME NEW r \in Remote, HeartbeatTimeout(r)  PROVE TypeOK'
  <2>1. /\ Heartbeat \in 0..MaxInt /\ NoCall \in Nat /\ session \in Nat
        /\ Packet("Ping", r, Heartbeat, NoCall) \in Packets
    BY <1>0, Small, PacketType DEF NoCall
  <2>2. \/ UNCHANGED pending
        \/ pending' = [pending EXCEPT ![r][Heartbeat] = NoCall]
        \/ pending' = [pending EXCEPT ![r][Heartbeat] = session]
    BY <1>1 DEF HeartbeatTimeout, HeartbeatMissed, HeartbeatIgnored, HeartbeatSent
  <2>3. pending' \in [Remote -> [0..MaxInt -> Nat]]
    <3>1. [pending EXCEPT ![r][Heartbeat] = NoCall] \in [Remote -> [0..MaxInt -> Nat]]
      BY ONLY <1>0, <2>1, r \in Remote, PendingType
    <3>2. [pending EXCEPT ![r][Heartbeat] = session] \in [Remote -> [0..MaxInt -> Nat]]
      BY ONLY <1>0, <2>1, r \in Remote, PendingType
    <3>. QED  BY <1>0, <2>2, <3>1, <3>2
  <2>4. timer' \in {timer, timer \ {r}}
    BY <1>1 DEF HeartbeatTimeout, HeartbeatMissed, HeartbeatIgnored, HeartbeatSent
  <2>5. link' = link \/ (link = "up" /\ link' = "closing")
    BY <1>1 DEF HeartbeatTimeout, HeartbeatMissed, HeartbeatIgnored, HeartbeatSent,
                DisconnectFromServer
  <2>6. toHost' = toHost \/ toHost' = Append(toHost, Packet("Ping", r, Heartbeat, NoCall))
    BY <1>1 DEF HeartbeatTimeout, HeartbeatMissed, HeartbeatIgnored, HeartbeatSent
  <2>7. toHost' \in Seq(Packets)
    <3>1. toHost \in Seq(Packets)
      BY DEF TypeOK
    <3>. DEFINE ping == Packet("Ping", r, Heartbeat, NoCall)
    <3>2. ping \in Packets /\ (toHost' = toHost \/ toHost' = Append(toHost, ping))
      BY <2>1, <2>6
    <3>. HIDE DEF ping
    <3>. QED  BY <3>1, <3>2, AppendProperties
  <2>8. UNCHANGED <<events, calls, attached, curSerialId, interval, waits,
                    session, silent, toClient, hostVars>>
    BY <1>1 DEF HeartbeatTimeout
  <2>. QED  BY <1>0, <2>3, <2>4, <2>5, <2>7, <2>8 DEF TypeOK
<1>2. ASSUME SetHeartbeatInterval  PROVE TypeOK'
  <2>1. events' \in 0..MaxEvents
    BY <1>0, <1>2 DEF SetHeartbeatInterval, Event
  <2>2. timer' \subseteq Remote /\ interval' \in BOOLEAN
    BY <1>2, Zenon DEF SetHeartbeatInterval
  <2>3. UNCHANGED <<calls, attached, curSerialId, pending, waits, link, session, silent,
                    toHost, toClient, hostVars>>
    BY <1>2 DEF SetHeartbeatInterval
  <2>. QED  BY <2>1, <2>2, <2>3 DEF TypeOK
<1>3. ASSUME Connect  PROVE TypeOK'
  <2>1. events' \in 0..MaxEvents /\ session' \in 0..MaxSessions
    BY <1>0, <1>3 DEF Connect, Event
  <2>2. /\ link' = "up" /\ silent' = FALSE /\ attached' = Remote /\ toClient' = <<>>
        /\ timer' \in {Remote, timer}
        /\ toHost' = [i \in DOMAIN Order |-> Packet("AddObject", Order[i], NoReply, NoCall)]
        /\ UNCHANGED <<calls, curSerialId, pending, interval, waits, hostVars>>
    BY <1>3 DEF Connect
  <2>3. toHost' \in Seq(Packets)
    <3>1. Len(Order) \in Nat /\ DOMAIN Order = 1..Len(Order)
      BY OrderIsNotEmpty, LenProperties
    <3>2. ASSUME NEW i \in DOMAIN Order
          PROVE  Packet("AddObject", Order[i], NoReply, NoCall) \in Packets
      <4>1. Order[i] \in Remote
        BY DEF Remote
      <4>. QED  BY ONLY <4>1, Small, PacketType
    <3>3. toHost' \in [1..Len(Order) -> Packets]
      BY <2>2, <3>1, <3>2
    <3>. QED  BY <3>1, <3>3, SeqDef
  <2>4. Remote # {}
    BY OrderIsNotEmpty, EmptySeq, LenProperties DEF Remote
  <2>5. toClient' \in Seq(Packets)
    BY <2>2, EmptySeq
  <2>. QED  BY <1>0, <2>1, <2>2, <2>3, <2>4, <2>5 DEF TypeOK
<1>4. ASSUME Disconnected  PROVE TypeOK'
  BY <1>4, EmptySeq DEF Disconnected, TypeOK
<1>5. ASSUME GoesSilent  PROVE TypeOK'
  <2>1. events' \in 0..MaxEvents
    BY <1>0, <1>5 DEF GoesSilent, Event
  <2>. QED  BY <1>5, <2>1 DEF GoesSilent, TypeOK, replicaVars
<1>. QED  BY <1>1, <1>2, <1>3, <1>4, <1>5

(* What the host sends is typed. *)
LEMMA AnswerType ==
  ASSUME TypeOK, NEW type \in {"Init", "Pong", "Reply"}, NEW r \in Remote,
         NEW serial \in Serials, NEW call \in CallIds, Answer(type, r, serial, call)
  PROVE  toClient' \in Seq(Packets)
<1>1. toClient \in Seq(Packets)
  BY DEF TypeOK
<1>2. Packet(type, r, serial, call) \in Packets
  BY PacketType
<1>3. toClient' = Append(toClient, Packet(type, r, serial, call))
  BY DEF Answer
<1>. QED  BY <1>1, <1>2, <1>3, AppendProperties

(* What the host reads and answers keeps the types. *)
LEMMA TypeHost ==
  ASSUME TypeOK,
         \/ HostReadsAddObject \/ HostReadsPing \/ HostInvokes \/ HostInvokesAsync
         \/ \E s \in slots : SlotFinishes(s)
  PROVE  TypeOK'
<1>. USE DEF linkVars, replicaVars
<1>1. ASSUME NEW type, HostReads(type)
      PROVE  /\ toHost' \in Seq(Packets) /\ rxName' \in Remote
             /\ Head(toHost) \in Packets
             /\ Head(toHost).name \in Remote /\ Head(toHost).serial \in Serials
             /\ Head(toHost).call \in CallIds
             /\ UNCHANGED <<events, calls, replicaVars, interval, waits, link, session, silent>>
  BY <1>1, FirstPacket DEF HostReads, TypeOK
<1>2. CASE HostReadsAddObject
  <2>1. toClient' \in Seq(Packets)
    BY <1>1, <1>2, AnswerType, Small DEF HostReadsAddObject
  <2>. QED  BY <1>1, <1>2, <2>1 DEF HostReadsAddObject, TypeOK
<1>3. CASE HostReadsPing
  <2>1. toClient' \in Seq(Packets)
    BY <1>1, <1>3, AnswerType, Small DEF HostReadsPing
  <2>. QED  BY <1>1, <1>3, <2>1 DEF HostReadsPing, TypeOK
<1>4. CASE HostInvokes
  <2>1. toClient' \in Seq(Packets)
    <3>1. CASE UNCHANGED toClient
      BY <3>1 DEF TypeOK
    <3>2. CASE Answer("Reply", Head(toHost).name, Head(toHost).serial, Head(toHost).call)
      BY <1>1, <1>4, <3>2, AnswerType DEF HostInvokes
    <3>. QED  BY <1>4, <3>1, <3>2 DEF HostInvokes
  <2>. QED  BY <1>1, <1>4, <2>1 DEF HostInvokes, TypeOK
<1>5. CASE HostInvokesAsync
  BY <1>1, <1>5 DEF HostInvokesAsync, TypeOK
<1>6. ASSUME NEW s \in slots, SlotFinishes(s)  PROVE TypeOK'
  <2>1. s \in Packets /\ s.serial \in Serials /\ s.call \in CallIds /\ rxName \in Remote
    BY DEF TypeOK, Packets
  <2>2. toClient' \in Seq(Packets)
    BY <1>6, <2>1, AnswerType DEF SlotFinishes
  <2>3. slots' \subseteq Packets /\ strayed' \subseteq CallIds
    BY <1>6, <2>1 DEF SlotFinishes, TypeOK
  <2>. QED  BY <1>6, <2>2, <2>3 DEF SlotFinishes, TypeOK
<1>. QED  BY <1>2, <1>3, <1>4, <1>5, <1>6

(* An answer carries the serial id of a call that wants one. *)
Answers == {p \in Packets : p.type = "Reply" => p.serial # NoReply}

AnswersAreWanted ==
  /\ toClient \in Seq(Answers)
  /\ \A s \in slots : s.serial # NoReply

(* A reply that is read answers a call's serial id. *)
LEMMA ReplyRead ==
  ASSUME TypeOK, AnswersAreWanted, ReadReply
  PROVE  LET p == Head(toClient)
         IN  /\ p \in Packets /\ p.type = "Reply"
             /\ p.name \in Remote /\ p.call \in CallIds
             /\ p.serial \in 1..MaxInt \cup {0} /\ pending[p.name][p.serial] \in Nat
<1>. DEFINE p == Head(toClient)
<1>1. toClient # <<>> /\ p.type = "Reply"
  BY DEF ReadReply, ClientReads
<1>2. toClient \in Seq(Packets) /\ toClient \in Seq(Answers)
  BY DEF TypeOK, AnswersAreWanted
<1>3. p \in Answers
  BY <1>1, <1>2, HeadTailProperties
<1>4. p \in Packets /\ p.name \in Remote /\ p.serial \in Serials /\ p.call \in CallIds
  BY <1>1, <1>2, FirstPacket
<1>. HIDE DEF p
<1>5. p.serial \in 0..MaxInt
  BY <1>1, <1>3, <1>4, MaxIntIsPositive DEF Answers, Serials, NoReply
<1>6. pending[p.name][p.serial] \in Nat
  BY <1>4, <1>5 DEF TypeOK
<1>. QED  BY <1>1, <1>4, <1>5, <1>6 DEF p

(* What the client reads keeps the types. *)
LEMMA TypeClient ==
  ASSUME TypeOK, AnswersAreWanted, ReadPong \/ ReadReply \/ ReadInit
  PROVE  TypeOK'
<1>. USE DEF linkVars, hostVars
<1>. DEFINE p == Head(toClient)
<1>1. ASSUME NEW type, ClientReads(type)
      PROVE  /\ toClient' \in Seq(Packets)
             /\ p \in Packets /\ p \in Answers
             /\ p.name \in Remote /\ p.serial \in Serials /\ p.call \in CallIds
             /\ UNCHANGED <<events, attached, curSerialId, interval, link, session, silent,
                            toHost, hostVars>>
  <2>1. toClient # <<>> /\ toClient' = Tail(toClient)
    BY <1>1 DEF ClientReads
  <2>2. toClient \in Seq(Packets) /\ toClient \in Seq(Answers)
    BY DEF TypeOK, AnswersAreWanted
  <2>3. p \in Answers
    BY <2>1, <2>2, HeadTailProperties
  <2>4. /\ toClient' \in Seq(Packets) /\ p \in Packets
        /\ p.name \in Remote /\ p.serial \in Serials /\ p.call \in CallIds
    BY <2>1, <2>2, FirstPacket
  <2>. QED  BY <1>1, <2>3, <2>4 DEF ClientReads
<1>0. pending \in [Remote -> [0..MaxInt -> Nat]] /\ timer \subseteq Remote
      /\ NoCall \in Nat /\ Heartbeat \in 0..MaxInt
  BY Small DEF TypeOK, NoCall
<1>2. CASE ReadPong
  <2>1. pending' = [pending EXCEPT ![p.name][Heartbeat] = NoCall] /\ p.name \in Remote
    BY <1>1, <1>2 DEF ReadPong
  <2>2. pending' \in [Remote -> [0..MaxInt -> Nat]]
    BY ONLY <1>0, <2>1, PendingType
  <2>3. timer' \subseteq Remote
    BY <1>0, <1>1, <1>2 DEF ReadPong, RestartedTimer
  <2>. QED  BY <1>1, <1>2, <2>2, <2>3 DEF ReadPong, TypeOK
<1>3. CASE ReadReply
  <2>. DEFINE c == pending[p.name][p.serial]
  <2>1. /\ p.name \in Remote /\ p.call \in CallIds
        /\ pending' = [pending EXCEPT ![p.name][p.serial] = NoCall]
        /\ UNCHANGED timer
        /\ \/ c = NoCall /\ UNCHANGED <<calls, waits>>
           \/ c # NoCall /\ Finish(c, p.call)
    BY <1>1, <1>3 DEF ReadReply
  <2>2. p.serial \in 0..MaxInt
    <3>1. p.type = "Reply" /\ p \in Answers /\ p.serial \in Serials
      BY <1>1, <1>3 DEF ReadReply, ClientReads
    <3>. QED  BY <3>1, MaxIntIsPositive DEF Answers, Serials, NoReply
  <2>3. pending' \in [Remote -> [0..MaxInt -> Nat]]
    BY ONLY <1>0, <2>1, <2>2, PendingType
  <2>4. c \in Nat
    BY <1>0, <2>1, <2>2
  <2>. HIDE DEF c, p
  <2>5. calls' \in Seq(CallRecords) /\ Len(calls') = Len(calls) /\ waits' \in Seq(EventLoops)
    BY <2>1, <2>4, Lengths, Finished
  <2>. QED  BY <1>0, <1>1, <1>3, <2>1, <2>3, <2>5 DEF ReadReply, TypeOK
<1>4. CASE ReadInit
  <2>. HIDE DEF p
  <2>1. /\ timer' \subseteq Remote /\ pending' = pending
        /\ \/ UNCHANGED <<waits, calls>>
           \/ \E loop \in Loops(TRUE) :
                waits' = Append(waits, loop) /\ calls' = Helped(loop)
    BY <1>0, <1>1, <1>4 DEF ReadInit, p
  <2>2. calls' \in Seq(CallRecords) /\ Len(calls') = Len(calls) /\ waits' \in Seq(EventLoops)
    <3>1. ASSUME NEW loop \in Loops(TRUE), waits' = Append(waits, loop), calls' = Helped(loop)
          PROVE  /\ calls' \in Seq(CallRecords) /\ Len(calls') = Len(calls)
                 /\ waits' \in Seq(EventLoops)
      <4>1. calls' \in Seq(CallRecords) /\ DOMAIN calls' = DOMAIN calls /\ loop \in EventLoops
        BY <3>1, HelpedCalls
      <4>. QED  BY <3>1, <4>1, Lengths, LenProperties, AppendProperties
    <3>. QED  BY <2>1, <3>1, Lengths
  <2>. QED  BY <1>1, <1>4, <2>1, <2>2 DEF ReadInit, TypeOK
<1>. QED  BY <1>2, <1>3, <1>4

(* Every step keeps the types. *)
LEMMA TypeNext ==
  ASSUME TypeOK, AnswersAreWanted, Next
  PROVE  TypeOK'
BY TypeSend, TypeWait, TypeLink, TypeHost, TypeClient DEF Next, Reads

(* Only calls that want an answer are answered. *)
LEMMA WantedNext ==
  ASSUME TypeOK, AnswersAreWanted, Next
  PROVE  AnswersAreWanted'
<1>. USE DEF linkVars, hostVars
<1>0. toClient \in Seq(Answers) /\ \A s \in slots : s.serial # NoReply
  BY DEF AnswersAreWanted
<1>. SUFFICES toClient' \in Seq(Answers) /\ \A s \in slots' : s.serial # NoReply
  BY DEF AnswersAreWanted, Answers
<1>1. CASE UNCHANGED <<toClient, slots>>
  BY <1>0, <1>1
<1>2. CASE \/ \E r \in Remote : SendWithReply(r) \/ Send(r) \/ HeartbeatTimeout(r)
           \/ \E r \in InProcess : SendInProcess(r)
  BY <1>1, <1>2 DEF SendWithReply, Send, HeartbeatTimeout, SendInProcess
<1>3. CASE \/ \E c \in DOMAIN calls : Watch(c)
           \/ Wait \/ WaitReturns
           \/ \E i \in DOMAIN waits : WaitExpires(i)
           \/ SetHeartbeatInterval \/ GoesSilent
  BY <1>1, <1>3 DEF Watch, Wait, WaitReturns, WaitExpires, SetHeartbeatInterval, GoesSilent
<1>4. CASE Connect \/ Disconnected
  BY <1>0, <1>4, EmptySeq DEF Connect, Disconnected
<1>5. CASE ReadPong \/ ReadReply \/ ReadInit
  <2>1. toClient' = Tail(toClient) /\ toClient # <<>> /\ UNCHANGED slots
    BY <1>5 DEF ReadPong, ReadReply, ReadInit, ClientReads
  <2>. QED  BY <1>0, <2>1, HeadTailProperties
<1>6. ASSUME NEW type \in {"Init", "Pong", "Reply"}, NEW r \in Remote,
             NEW serial \in Serials, NEW call \in CallIds, Answer(type, r, serial, call),
             type = "Reply" => serial # NoReply
      PROVE  toClient' \in Seq(Answers)
  <2>. DEFINE packet == Packet(type, r, serial, call)
  <2>1. packet \in Answers
    BY <1>6, PacketType DEF Answers
  <2>2. toClient' = Append(toClient, packet)
    BY <1>6 DEF Answer
  <2>. HIDE DEF packet
  <2>. QED  BY <1>0, <2>1, <2>2, AppendProperties
<1>7. ASSUME NEW type, HostReads(type)
      PROVE  /\ rxName' \in Remote /\ Head(toHost) \in Packets
             /\ Head(toHost).name \in Remote /\ Head(toHost).serial \in Serials
             /\ Head(toHost).call \in CallIds
  BY <1>7, FirstPacket DEF HostReads, TypeOK
<1>8. CASE HostReadsAddObject \/ HostReadsPing
  BY <1>0, <1>6, <1>7, <1>8, Small DEF HostReadsAddObject, HostReadsPing
<1>9. CASE HostInvokes
  <2>1. CASE Head(toHost).serial = NoReply
    BY <1>1, <1>9, <2>1 DEF HostInvokes
  <2>2. CASE Head(toHost).serial # NoReply
    BY <1>0, <1>6, <1>7, <1>9, <2>2 DEF HostInvokes
  <2>. QED  BY <2>1, <2>2
<1>10. CASE HostInvokesAsync
  BY <1>0, <1>10 DEF HostInvokesAsync
<1>11. CASE \E s \in slots : SlotFinishes(s)
  <2>1. PICK s \in slots : SlotFinishes(s)
    BY <1>11
  <2>2. s \in Packets /\ s.serial \in Serials /\ s.call \in CallIds /\ rxName \in Remote
    BY DEF TypeOK, Packets
  <2>3. toClient' \in Seq(Answers)
    BY <1>0, <1>6, <2>1, <2>2 DEF SlotFinishes
  <2>. QED  BY <1>0, <2>1, <2>3 DEF SlotFinishes
<1>. QED  BY <1>2, <1>3, <1>4, <1>5, <1>8, <1>9, <1>10, <1>11 DEF Next, Reads

TypeInv == TypeOK /\ AnswersAreWanted

(* Nothing has been answered at first. *)
LEMMA TypeInvInit == Init => TypeInv
<1>1. Init => AnswersAreWanted
  BY EmptySeq DEF Init, AnswersAreWanted, Answers
<1>. QED  BY <1>1, TypeInit DEF TypeInv

(* Every step keeps the types and answers only wanted calls. *)
LEMMA TypeInvNext == TypeInv /\ [Next]_vars => TypeInv'
<1>1. TypeInv /\ Next => TypeInv'
  BY TypeNext, WantedNext DEF TypeInv
<1>2. TypeInv /\ UNCHANGED vars => TypeInv'
  BY DEF TypeInv, TypeOK, AnswersAreWanted, Answers, vars, replicaVars, linkVars, hostVars
<1>. QED  BY <1>1, <1>2

(* The invariant that the other proofs build on. *)
LEMMA TypeInvHolds == Spec => []TypeInv
BY TypeInvInit, TypeInvNext, PTL DEF Spec

(* The replicas' tables of pending calls, the packets of both directions   *)
(* and the event loops are always what TypeOK says, with replicas attached *)
(* exactly while there is a connection.                                    *)
THEOREM TypeCorrect == Spec => []TypeOK
<1>1. TypeInv => TypeOK
  BY DEF TypeInv
<1>. QED  BY <1>1, TypeInvHolds, PTL

-----------------------------------------------------------------------------
(* Wake-ups *)

(* A loop waits for a call that has been made. *)
WaitsForCalls == \A i \in DOMAIN waits : waits[i].call \in DOMAIN calls

(* NoLostWakeup but for the watchers that are made later. *)
Woken ==
  \A c \in DOMAIN calls : calls[c].done =>
    /\ \A i \in DOMAIN waits : waits[i].call = c => waits[i].quit
    /\ calls[c].watcher # "connected"

WakeInv == WaitsForCalls /\ Woken

AllExplained == \A c \in DOMAIN calls : Explained(calls[c])

(* There is nobody to wake at first. *)
LEMMA WakeInit == Init => WakeInv
<1>1. Init => DOMAIN calls = {} /\ DOMAIN waits = {}
  BY EmptySeq, LenProperties DEF Init
<1>. QED  BY <1>1 DEF WakeInv, WaitsForCalls, Woken

(* A step that finishes no call, or tells its loops, loses no wake-up. *)
LEMMA NoneLost ==
  ASSUME WakeInv, DOMAIN calls \subseteq DOMAIN calls',
         NEW c,
         \A d \in DOMAIN calls : d # c =>
           /\ calls'[d].done = calls[d].done
           /\ calls'[d].watcher = "connected" =>
                calls[d].watcher = "connected" \/ ~calls[d].done,
         \A d \in DOMAIN calls' : d \notin DOMAIN calls =>
           calls'[d].watcher # "connected",
         c \in DOMAIN calls => calls'[c].watcher # "connected",
         \A i \in DOMAIN waits' :
           \/ /\ i \in DOMAIN waits
              /\ waits'[i].call = waits[i].call
              /\ waits[i].quit => waits'[i].quit
              /\ waits[i].call = c => waits'[i].quit
           \/ /\ waits'[i].call \in DOMAIN calls \ {c}
              /\ ~calls[waits'[i].call].done
  PROVE  WakeInv'
<1>1. WaitsForCalls /\ Woken
  BY DEF WakeInv
<1>2. WaitsForCalls'
  BY <1>1 DEF WaitsForCalls
<1>3. ASSUME NEW d \in DOMAIN calls', calls'[d].done
      PROVE  calls'[d].watcher # "connected"
  BY <1>1, <1>3 DEF Woken
<1>4. ASSUME NEW d \in DOMAIN calls', calls'[d].done,
             NEW i \in DOMAIN waits', waits'[i].call = d
      PROVE  waits'[i].quit
  BY <1>1, <1>4 DEF Woken, WaitsForCalls
<1>. QED  BY <1>2, <1>3, <1>4 DEF WakeInv, Woken

(* Every step that finishes a call tells its loops and its watcher. *)
LEMMA WakeNext ==
  ASSUME TypeInv, WakeInv, Next
  PROVE  WakeInv'
<1>. USE DEF TypeInv
<1>0. NoCall \notin DOMAIN calls
  BY Lengths DEF NoCall
<1>1. CASE UNCHANGED <<calls, waits>>
  BY <1>1 DEF WakeInv, WaitsForCalls, Woken
<1>2. CASE \/ \E r \in Remote : Send(r) \/ HeartbeatTimeout(r)
           \/ SetHeartbeatInterval \/ GoesSilent \/ Connect \/ Disconnected
           \/ HostReadsAddObject \/ HostReadsPing \/ HostInvokes \/ HostInvokesAsync
           \/ ReadPong
           \/ \E s \in slots : SlotFinishes(s)
  BY <1>1, <1>2 DEF Send, HeartbeatTimeout, SetHeartbeatInterval, GoesSilent, Connect,
       Disconnected, HostReadsAddObject, HostReadsPing, HostInvokes, HostInvokesAsync,
       HostReads, ReadPong, SlotFinishes
<1>3. ASSUME NEW call \in CallRecords, calls' = Append(calls, call), UNCHANGED waits,
             call.watcher = "none"
      PROVE  WakeInv'
  <2>1. /\ DOMAIN calls = 1..Len(calls) /\ Len(calls) \in Nat
        /\ DOMAIN calls' = 1..(Len(calls) + 1)
        /\ \A d \in DOMAIN calls : calls'[d] = calls[d]
        /\ calls'[Len(calls) + 1] = call
    BY <1>3, Lengths, Appended
  <2>2. /\ DOMAIN calls \subseteq DOMAIN calls'
        /\ \A d \in DOMAIN calls' : d \notin DOMAIN calls => calls'[d].watcher # "connected"
    BY <1>3, <2>1
  <2>3. \A i \in DOMAIN waits : waits[i].call # NoCall
    BY <1>0 DEF WakeInv, WaitsForCalls
  <2>. QED  BY <1>0, <1>3, <2>1, <2>2, <2>3, NoneLost
<1>4. ASSUME NEW r \in Remote, SendWithReply(r)  PROVE WakeInv'
  <2>. DEFINE call == NewCall(r, NextSerialId(r), FALSE, NoCall)
  <2>1. UNCHANGED waits /\ (calls' = calls \/ calls' = Append(calls, call))
    BY <1>4 DEF SendWithReply
  <2>2. NextSerialId(r) \in Serials
    BY Small, MaxIntIsPositive DEF NextSerialId, TypeOK, Serials, NoReply
  <2>3. call \in CallRecords
    BY <2>2, Small, NewCallType
  <2>4. call.watcher = "none"
    BY DEF NewCall
  <2>. HIDE DEF call
  <2>. QED  BY <1>1, <1>3, <2>1, <2>3, <2>4
<1>5. ASSUME NEW r \in InProcess, SendInProcess(r)  PROVE WakeInv'
  <2>. DEFINE call == NewCall(r, NoReply, TRUE, Len(calls) + 1)
  <2>1. UNCHANGED waits /\ calls' = Append(calls, call)
    BY <1>5 DEF SendInProcess
  <2>2. Len(calls) + 1 \in CallIds
    BY <1>5, NextCallFits DEF SendInProcess
  <2>3. call \in CallRecords
    BY <2>2, Small, NewCallType
  <2>4. call.watcher = "none"
    BY DEF NewCall
  <2>. HIDE DEF call
  <2>. QED  BY <1>3, <2>1, <2>3, <2>4
<1>6. ASSUME NEW c \in DOMAIN calls, Watch(c)  PROVE WakeInv'
  <2>1. /\ DOMAIN calls' = DOMAIN calls
        /\ \A d \in DOMAIN calls :
             /\ calls'[d].done = calls[d].done
             /\ calls'[d].watcher = "connected" =>
                  calls[d].watcher = "connected" \/ ~calls[d].done
    BY <1>6, WatchedCalls DEF Same
  <2>2. UNCHANGED waits /\ \A i \in DOMAIN waits : waits[i].call # NoCall
    BY <1>0, <1>6 DEF Watch, WakeInv, WaitsForCalls
  <2>. QED  BY <1>0, <2>1, <2>2, NoneLost
<1>7. ASSUME NEW inRead \in BOOLEAN, NEW loop \in Loops(inRead),
             waits' = Append(waits, loop), calls' = Helped(loop)
      PROVE  WakeInv'
  <2>1. /\ DOMAIN calls' = DOMAIN calls
        /\ \A d \in DOMAIN calls :
             calls'[d].done = calls[d].done /\ calls'[d].watcher = calls[d].watcher
        /\ loop \in EventLoops /\ loop.call \in DOMAIN calls /\ ~calls[loop.call].done
    BY <1>7, HelpedCalls DEF Same
  <2>2. /\ DOMAIN waits' = 1..(Len(waits) + 1)
        /\ \A i \in DOMAIN waits : waits'[i] = waits[i]
        /\ waits'[Len(waits) + 1] = loop
    BY <1>7, <2>1, Lengths, AppendProperties, LenProperties
  <2>3. \A i \in DOMAIN waits : waits[i].call # NoCall
    BY <1>0 DEF WakeInv, WaitsForCalls
  <2>4. \A i \in DOMAIN waits' : i \in DOMAIN waits \/ i = Len(waits) + 1
    BY <2>2, Lengths
  <2>. QED  BY <1>0, <2>1, <2>2, <2>3, <2>4, NoneLost
<1>8. CASE Wait
  BY <1>7, <1>8 DEF Wait
<1>9. CASE ReadInit
  BY <1>1, <1>7, <1>9 DEF ReadInit
<1>10. CASE WaitReturns
  <2>1. DOMAIN waits' \subseteq DOMAIN waits /\ \A i \in DOMAIN waits' : waits'[i] = waits[i]
    BY <1>10, Lengths, SubSeqProperties, LenProperties DEF WaitReturns
  <2>2. UNCHANGED calls
    BY <1>10 DEF WaitReturns
  <2>. QED  BY <2>1, <2>2 DEF WakeInv, WaitsForCalls, Woken
<1>11. ASSUME NEW i \in DOMAIN waits, WaitExpires(i)  PROVE WakeInv'
  <2>1. \A j \in DOMAIN waits :
          waits'[j] = IF j = i THEN [waits[j] EXCEPT !.quit = TRUE] ELSE waits[j]
    BY <1>11, Zenon DEF WaitExpires
  <2>2. \A j \in DOMAIN waits :
          waits'[j].call = waits[j].call /\ (waits[j].quit => waits'[j].quit)
    BY <2>1, Lengths, ToldRecord
  <2>3. DOMAIN waits' = DOMAIN waits
    BY <1>11, Zenon DEF WaitExpires
  <2>4. UNCHANGED calls
    BY <1>11 DEF WaitExpires
  <2>. QED  BY <2>2, <2>3, <2>4 DEF WakeInv, WaitsForCalls, Woken
<1>12. CASE ReadReply
  <2>. DEFINE p == Head(toClient)
              c == pending[p.name][p.serial]
  <2>1. \/ UNCHANGED <<calls, waits>>
        \/ Finish(c, p.call)
    BY <1>12 DEF ReadReply
  <2>2. p.call \in CallIds /\ c \in Nat
    BY <1>12, ReplyRead
  <2>. HIDE DEF c, p
  <2>3. ASSUME Finish(c, p.call)  PROVE WakeInv'
    <3>1. /\ DOMAIN calls' = DOMAIN calls /\ DOMAIN waits' = DOMAIN waits
          /\ \A d \in DOMAIN calls :
               calls'[d] = IF d = c THEN FinishedCall(calls[d], p.call) ELSE calls[d]
          /\ \A i \in DOMAIN waits :
               /\ waits'[i].call = waits[i].call
               /\ waits'[i].quit = (waits[i].quit \/ waits[i].call = c)
      BY <2>2, <2>3, Finished
    <3>2. c \in DOMAIN calls => calls'[c].watcher # "connected"
      <4>1. ASSUME c \in DOMAIN calls  PROVE calls'[c].watcher # "connected"
        <5>1. calls[c] \in CallRecords /\ calls'[c] = FinishedCall(calls[c], p.call)
          BY <3>1, <4>1, Lengths
        <5>2. FinishedCall(calls[c], p.call).watcher # "connected"
          BY ONLY <2>2, <5>1, FinishedRecord
        <5>. QED  BY ONLY <5>1, <5>2
      <4>. QED  BY <4>1
    <3>. QED  BY <3>1, <3>2, NoneLost
  <2>. QED  BY <1>1, <2>1, <2>3
<1>. QED
  BY <1>2, <1>4, <1>5, <1>6, <1>8, <1>9, <1>10, <1>11, <1>12 DEF Next, Reads

(* Every step keeps the calls explained: it makes a call, watches one,     *)
(* waits for one, finishes one, or touches none.                           *)
LEMMA ExplainedNext ==
  ASSUME TypeInv, AllExplained, Next
  PROVE  AllExplained'
<1>. USE DEF TypeInv
<1>1. ASSUME DOMAIN calls' = DOMAIN calls,
             \A d \in DOMAIN calls : Explained(calls[d]) => Explained(calls'[d])
      PROVE  AllExplained'
  BY <1>1 DEF AllExplained
<1>2. CASE UNCHANGED calls
  BY <1>1, <1>2
<1>3. ASSUME NEW call \in CallRecords, calls' = Append(calls, call), Explained(call)
      PROVE  AllExplained'
  <2>1. /\ DOMAIN calls = 1..Len(calls) /\ Len(calls) \in Nat
        /\ DOMAIN calls' = 1..(Len(calls) + 1)
        /\ \A d \in DOMAIN calls : calls'[d] = calls[d]
        /\ calls'[Len(calls) + 1] = call
    BY <1>3, Lengths, Appended
  <2>2. \A d \in DOMAIN calls' : d \in DOMAIN calls \/ d = Len(calls) + 1
    BY <2>1
  <2>. QED  BY <1>3, <2>1, <2>2 DEF AllExplained
<1>4. ASSUME NEW r \in Remote, SendWithReply(r)  PROVE AllExplained'
  <2>. DEFINE call == NewCall(r, NextSerialId(r), FALSE, NoCall)
  <2>1. calls' = calls \/ calls' = Append(calls, call)
    BY <1>4 DEF SendWithReply
  <2>2. NextSerialId(r) \in Serials
    BY Small, MaxIntIsPositive DEF NextSerialId, TypeOK, Serials, NoReply
  <2>3. call \in CallRecords /\ Explained(call)
    BY <2>2, Small, NewCallType
  <2>. HIDE DEF call
  <2>. QED  BY <1>2, <1>3, <2>1, <2>3
<1>5. ASSUME NEW r \in InProcess, SendInProcess(r)  PROVE AllExplained'
  <2>. DEFINE call == NewCall(r, NoReply, TRUE, Len(calls) + 1)
  <2>1. calls' = Append(calls, call)
    BY <1>5 DEF SendInProcess
  <2>2. Len(calls) + 1 \in CallIds
    BY <1>5, NextCallFits DEF SendInProcess
  <2>3. call \in CallRecords /\ Explained(call)
    BY <2>2, Small, NewCallType
  <2>. HIDE DEF call
  <2>. QED  BY <1>3, <2>1, <2>3
<1>6. CASE \E c \in DOMAIN calls : Watch(c)
  BY <1>1, <1>6, WatchedCalls
<1>7. CASE Wait
  <2>1. \E loop \in Loops(FALSE) : calls' = Helped(loop)
    BY <1>7 DEF Wait
  <2>. QED  BY <1>1, <2>1, HelpedCalls
<1>8. CASE ReadInit
  <2>1. UNCHANGED calls \/ \E loop \in Loops(TRUE) : calls' = Helped(loop)
    BY <1>8 DEF ReadInit
  <2>. QED  BY <1>1, <1>2, <2>1, HelpedCalls
<1>9. CASE ReadReply
  <2>. DEFINE p == Head(toClient)
              c == pending[p.name][p.serial]
  <2>1. UNCHANGED calls \/ Finish(c, p.call)
    BY <1>9 DEF ReadReply
  <2>2. p.call \in CallIds /\ c \in Nat
    BY <1>9, ReplyRead
  <2>. HIDE DEF c, p
  <2>3. ASSUME Finish(c, p.call)  PROVE AllExplained'
    <3>1. /\ DOMAIN calls' = DOMAIN calls
          /\ \A d \in DOMAIN calls :
               calls'[d] = IF d = c THEN FinishedCall(calls[d], p.call) ELSE calls[d]
      BY <2>2, <2>3, Finished
    <3>2. ASSUME NEW d \in DOMAIN calls, Explained(calls[d])  PROVE Explained(calls'[d])
      <4>1. calls[d] \in CallRecords
        BY Lengths
      <4>2. Explained(FinishedCall(calls[d], p.call))
        BY ONLY <2>2, <3>2, <4>1, FinishedRecord
      <4>. QED  BY ONLY <3>1, <3>2, <4>2
    <3>. QED  BY <1>1, <3>1, <3>2
  <2>. QED  BY <1>2, <2>1, <2>3
<1>10. CASE \/ \E r \in Remote : Send(r) \/ HeartbeatTimeout(r)
            \/ SetHeartbeatInterval \/ GoesSilent \/ Connect \/ Disconnected
            \/ WaitReturns \/ \E i \in DOMAIN waits : WaitExpires(i)
            \/ HostReadsAddObject \/ HostReadsPing \/ HostInvokes \/ HostInvokesAsync
            \/ ReadPong
            \/ \E s \in slots : SlotFinishes(s)
  BY <1>2, <1>10 DEF Send, HeartbeatTimeout, SetHeartbeatInterval, GoesSilent, Connect,
       Disconnected, WaitReturns, WaitExpires, HostReadsAddObject, HostReadsPing,
       HostInvokes, HostInvokesAsync, HostReads, ReadPong, SlotFinishes
<1>. QED
  BY <1>4, <1>5, <1>6, <1>7, <1>8, <1>9, <1>10 DEF Next, Reads

(* Whatever the nesting of the event loops, the connections and the order  *)
(* of answers: when a call finishes, notifyAboutReply reaches every loop   *)
(* that waits for it and the watcher it has.  A watcher made later is told *)
(* by its constructor, unless waitForFinished made the call's helper.      *)
THEOREM WakeUpsReach == Spec => []NoLostWakeup
<1>1. WakeInv /\ AllExplained => NoLostWakeup
  BY DEF WakeInv, Woken, AllExplained, Explained, NoLostWakeup
<1>2. TypeInv /\ WakeInv /\ [Next]_vars => WakeInv'
  BY WakeNext DEF WakeInv, WaitsForCalls, Woken, vars
<1>3. TypeInv /\ AllExplained /\ [Next]_vars => AllExplained'
  BY ExplainedNext DEF AllExplained, vars
<1>4. Init => AllExplained
  <2>1. Init => DOMAIN calls = {}
    BY EmptySeq, LenProperties DEF Init
  <2>. QED  BY <2>1 DEF AllExplained
<1>. QED  BY <1>1, <1>2, <1>3, <1>4, WakeInit, TypeInvHolds, PTL DEF Spec

-----------------------------------------------------------------------------
(* The heartbeat *)

Carries(s, type, r) == \E i \in DOMAIN s : s[i].type = type /\ s[i].name = r

(* A packet is carried after it, or another, was sent. *)
LEMMA CarriesAppend ==
  ASSUME NEW s \in Seq(Packets), NEW p \in Packets, NEW type, NEW r,
         Carries(s, type, r) \/ (p.type = type /\ p.name = r)
  PROVE  Carries(Append(s, p), type, r)
<1>1. /\ Len(s) \in Nat /\ DOMAIN s = 1..Len(s)
      /\ DOMAIN Append(s, p) = 1..(Len(s) + 1)
      /\ \A i \in DOMAIN s : Append(s, p)[i] = s[i]
      /\ Append(s, p)[Len(s) + 1] = p
  BY AppendProperties, LenProperties
<1>2. DOMAIN s \subseteq DOMAIN Append(s, p) /\ Len(s) + 1 \in DOMAIN Append(s, p)
  BY <1>1
<1>. QED  BY <1>1, <1>2 DEF Carries

(* A packet is carried on until it is read. *)
LEMMA CarriesTail ==
  ASSUME NEW s \in Seq(Packets), s # <<>>, NEW type, NEW r,
         Carries(s, type, r), Head(s).type # type \/ Head(s).name # r
  PROVE  Carries(Tail(s), type, r)
<1>1. /\ Len(s) \in Nat \ {0} /\ DOMAIN s = 1..Len(s)
      /\ DOMAIN Tail(s) = 1..(Len(s) - 1)
      /\ \A i \in 1..(Len(s) - 1) : Tail(s)[i] = s[i + 1]
      /\ Head(s) = s[1]
  BY HeadTailProperties, EmptySeq, LenProperties
<1>2. PICK i \in DOMAIN s : s[i].type = type /\ s[i].name = r
  BY DEF Carries
<1>3. i - 1 \in DOMAIN Tail(s) /\ Tail(s)[i - 1] = s[i]
  BY <1>1, <1>2
<1>. QED  BY <1>2, <1>3 DEF Carries

(* The session of a ping is that of a connection made so far.  On the      *)
(* current one the ping or its answer is on its way, unless the host is    *)
(* silent.                                                                 *)
PingInv ==
  \A r \in Remote :
    /\ pending[r][Heartbeat] <= session
    /\ (/\ pending[r][Heartbeat] # NoCall
        /\ pending[r][Heartbeat] = session
        /\ link # "down" /\ ~silent)
         => Carries(toHost, "Ping", r) \/ Carries(toClient, "Pong", r)

(* No ping has been sent at first. *)
LEMMA PingInit == Init => PingInv
<1>. SUFFICES ASSUME Init, NEW r \in Remote  PROVE pending[r][Heartbeat] <= session /\ link = "down"
  BY DEF PingInv
<1>1. pending[r][Heartbeat] = NoCall
  BY Small DEF Init
<1>. QED  BY <1>1 DEF Init, NoCall

(* A step that sends no ping, and neither reads one nor an answer to one.  *)
LEMMA PingsKept ==
  ASSUME TypeOK, PingInv,
         session' = session, silent => silent', link' # "down" => link # "down",
         \A r \in Remote : pending'[r][Heartbeat] \in {NoCall, pending[r][Heartbeat]},
         \A r \in Remote :
           link' # "down" /\ pending'[r][Heartbeat] # NoCall /\ Carries(toHost, "Ping", r)
             => Carries(toHost', "Ping", r) \/ Carries(toClient', "Pong", r),
         \A r \in Remote :
           link' # "down" /\ pending'[r][Heartbeat] # NoCall /\ Carries(toClient, "Pong", r)
             => Carries(toClient', "Pong", r)
  PROVE  PingInv'
<1>1. session \in Nat
  BY BoundsAreNaturals DEF TypeOK
<1>2. ASSUME NEW r \in Remote
      PROVE  pending'[r][Heartbeat] <= session'
  BY <1>1 DEF PingInv, NoCall
<1>3. ASSUME NEW r \in Remote, pending'[r][Heartbeat] # NoCall,
             pending'[r][Heartbeat] = session', link' # "down", ~silent'
      PROVE  Carries(toHost', "Ping", r) \/ Carries(toClient', "Pong", r)
  <2>1. pending'[r][Heartbeat] = pending[r][Heartbeat]
    BY <1>3
  <2>2. Carries(toHost, "Ping", r) \/ Carries(toClient, "Pong", r)
    BY <1>3, <2>1 DEF PingInv
  <2>. QED  BY <1>3, <2>2
<1>. QED  BY <1>2, <1>3 DEF PingInv

(* Every step keeps the ping or its answer on its way. *)
LEMMA PingNext ==
  ASSUME TypeInv, PingInv, Next
  PROVE  PingInv'
<1>. USE DEF TypeInv, linkVars, replicaVars, hostVars
<1>0. /\ toHost \in Seq(Packets) /\ toClient \in Seq(Packets)
      /\ pending \in [Remote -> [0..MaxInt -> Nat]] /\ Heartbeat \in 0..MaxInt
      /\ session \in Nat
  BY Small, BoundsAreNaturals DEF TypeOK
<1>1. CASE UNCHANGED <<pending, session, silent, link, toHost, toClient>>
  BY <1>1, PingsKept
<1>2. CASE \/ \E r \in InProcess : SendInProcess(r)
           \/ \E c \in DOMAIN calls : Watch(c)
           \/ Wait \/ WaitReturns
           \/ \E i \in DOMAIN waits : WaitExpires(i)
           \/ SetHeartbeatInterval
  BY <1>1, <1>2 DEF SendInProcess, Watch, Wait, WaitReturns, WaitExpires, SetHeartbeatInterval
<1>3. CASE GoesSilent
  BY <1>3, PingsKept DEF GoesSilent
<1>4. CASE Disconnected
  BY <1>4, PingsKept DEF Disconnected
<1>5. CASE Connect
  <2>1. pending' = pending /\ session' = session + 1
    BY <1>5 DEF Connect
  <2>2. ASSUME NEW r \in Remote
        PROVE  /\ pending'[r][Heartbeat] <= session'
               /\ pending'[r][Heartbeat] # session'
    <3>1. pending[r][Heartbeat] \in Nat
      BY ONLY <1>0, r \in Remote
    <3>2. pending[r][Heartbeat] <= session
      BY DEF PingInv
    <3>. QED  BY <1>0, <2>1, <3>1, <3>2
  <2>. QED  BY <2>2 DEF PingInv
<1>6. ASSUME NEW p \in Packets, toHost' = toHost \/ toHost' = Append(toHost, p),
             NEW r \in Remote, Carries(toHost, "Ping", r)
      PROVE  Carries(toHost', "Ping", r)
  BY <1>0, <1>6, CarriesAppend
<1>7. ASSUME NEW r \in Remote, SendWithReply(r) \/ Send(r)  PROVE PingInv'
  <2>1. NextSerialId(r) \in 1..MaxInt
    BY MaxIntIsPositive DEF NextSerialId, TypeOK
  <2>2. PICK p \in Packets : SendCommand(p)
    <3>1. CASE Send(r)
      BY <3>1, Small, PacketType DEF Send
    <3>2. CASE SendWithReply(r)
      <4>1. Len(calls) + 1 \in CallIds
        BY <3>2, NextCallFits DEF SendWithReply
      <4>2. NextSerialId(r) \in Serials
        BY <2>1, Small
      <4>. QED  BY <3>2, <4>1, <4>2, PacketType DEF SendWithReply
    <3>. QED  BY <1>7, <3>1, <3>2
  <2>3. toHost' = toHost \/ toHost' = Append(toHost, p)
    BY <2>2 DEF SendCommand
  <2>4. UNCHANGED <<session, silent, link, toClient>>
    BY <1>7 DEF SendWithReply, Send
  <2>5. ASSUME NEW q \in Remote  PROVE pending'[q][Heartbeat] = pending[q][Heartbeat]
    <3>1. NextSerialId(r) # Heartbeat
      BY <2>1 DEF Heartbeat
    <3>2. \/ pending' = pending
          \/ \E id : pending' = [pending EXCEPT ![r][NextSerialId(r)] = id]
      BY <1>7 DEF SendWithReply, Send
    <3>. QED  BY ONLY <1>0, <3>1, <3>2, r \in Remote, q \in Remote
  <2>. QED  BY <1>6, <2>3, <2>4, <2>5, PingsKept
<1>8. ASSUME NEW r \in Remote, HeartbeatTimeout(r)  PROVE PingInv'
  <2>. DEFINE ping == Packet("Ping", r, Heartbeat, NoCall)
  <2>1. UNCHANGED <<session, silent, toClient>>
    BY <1>8 DEF HeartbeatTimeout
  <2>2. link' # "down" => link # "down"
    BY <1>8 DEF HeartbeatTimeout, HeartbeatMissed, HeartbeatIgnored, HeartbeatSent,
                DisconnectFromServer
  <2>3. ping \in Packets /\ ping.type = "Ping" /\ ping.name = r
    BY Small, PacketType
  <2>4. CASE toHost' = toHost /\ \/ pending' = pending
                                 \/ pending' = [pending EXCEPT ![r][Heartbeat] = NoCall]
    <3>1. \A q \in Remote : pending'[q][Heartbeat] \in {NoCall, pending[q][Heartbeat]}
      BY <1>0, <2>4
    <3>. QED  BY <2>1, <2>2, <2>4, <3>1, PingsKept
  <2>5. CASE /\ toHost' = Append(toHost, ping)
             /\ pending' = [pending EXCEPT ![r][Heartbeat] = session]
    <3>1. \A q \in Remote :
            pending'[q][Heartbeat] = IF q = r THEN session ELSE pending[q][Heartbeat]
      BY <1>0, <2>5
    <3>. HIDE DEF ping
    <3>2. Carries(toHost', "Ping", r)
      BY <1>0, <2>3, <2>5, CarriesAppend
    <3>3. \A q \in Remote : Carries(toHost, "Ping", q) => Carries(toHost', "Ping", q)
      BY <1>6, <2>3, <2>5
    <3>4. ASSUME NEW q \in Remote  PROVE pending'[q][Heartbeat] <= session'
      <4>1. pending[q][Heartbeat] <= session
        BY DEF PingInv
      <4>. QED  BY ONLY <1>0, <2>1, <3>1, <4>1, q \in Remote
    <3>5. ASSUME NEW q \in Remote, pending'[q][Heartbeat] # NoCall,
                 pending'[q][Heartbeat] = session', link' # "down", ~silent'
          PROVE  Carries(toHost', "Ping", q) \/ Carries(toClient', "Pong", q)
      BY <2>1, <2>2, <3>1, <3>2, <3>3, <3>5 DEF PingInv
    <3>. QED  BY <3>4, <3>5 DEF PingInv
  <2>. QED
    BY <1>8, <2>4, <2>5 DEF HeartbeatTimeout, HeartbeatMissed, HeartbeatIgnored, HeartbeatSent
<1>9. ASSUME NEW type, NEW r \in Remote, HostReads(type),
             Head(toHost).type # "Ping" \/ Head(toHost).name # r,
             Carries(toHost, "Ping", r)
      PROVE  Carries(toHost', "Ping", r)
  <2>1. toHost # <<>> /\ toHost' = Tail(toHost)
    BY <1>9 DEF HostReads
  <2>. QED  BY <1>0, <1>9, <2>1, CarriesTail
<1>10. ASSUME NEW r \in Remote, NEW p \in Packets,
              toClient' = toClient \/ toClient' = Append(toClient, p),
              Carries(toClient, "Pong", r)
       PROVE  Carries(toClient', "Pong", r)
  BY <1>0, <1>10, CarriesAppend
<1>11. ASSUME NEW type, HostReads(type)
       PROVE  /\ rxName' = Head(toHost).name /\ rxName' \in Remote
              /\ Head(toHost).type = type /\ Head(toHost) \in Packets
              /\ Head(toHost).serial \in Serials /\ Head(toHost).call \in CallIds
              /\ UNCHANGED <<pending, session, silent, link>>
  <2>1. toHost # <<>>
    BY <1>11 DEF HostReads
  <2>2. /\ Head(toHost) \in Packets /\ Head(toHost).name \in Remote
        /\ Head(toHost).serial \in Serials /\ Head(toHost).call \in CallIds
    BY <1>0, <2>1, FirstPacket
  <2>. QED  BY <1>11, <2>2 DEF HostReads
<1>12. CASE HostReadsAddObject \/ HostInvokes \/ HostInvokesAsync
  <2>1. PICK type \in {"AddObject", "Invoke"} : HostReads(type)
    BY <1>12 DEF HostReadsAddObject, HostInvokes, HostInvokesAsync
  <2>2. PICK p \in Packets : toClient' = toClient \/ toClient' = Append(toClient, p)
    <3>1. CASE HostReadsAddObject
      <4>1. Packet("Init", rxName', NoReply, NoCall) \in Packets
        BY <1>11, <2>1, Small, PacketType
      <4>. QED  BY <3>1, <4>1 DEF HostReadsAddObject, Answer
    <3>2. CASE HostInvokes
      <4>1. Packet("Reply", Head(toHost).name, Head(toHost).serial, Head(toHost).call)
              \in Packets
        BY <1>11, <2>1, PacketType
      <4>. QED  BY <3>2, <4>1 DEF HostInvokes, Answer
    <3>3. CASE HostInvokesAsync
      BY <1>11, <2>1, <3>3 DEF HostInvokesAsync
    <3>. QED  BY <1>12, <3>1, <3>2, <3>3
  <2>. QED  BY <1>9, <1>10, <1>11, <2>1, <2>2, PingsKept
<1>13. CASE HostReadsPing
  <2>. DEFINE pong == Packet("Pong", rxName', Heartbeat, NoCall)
  <2>1. HostReads("Ping") /\ toClient' = Append(toClient, pong)
    BY <1>13 DEF HostReadsPing, Answer
  <2>2. pong \in Packets /\ pong.type = "Pong" /\ pong.name = Head(toHost).name
    BY <1>11, <2>1, Small, PacketType
  <2>. HIDE DEF pong
  <2>3. Carries(toClient', "Pong", Head(toHost).name)
    BY <1>0, <2>1, <2>2, CarriesAppend
  <2>. QED  BY <1>9, <1>10, <1>11, <2>1, <2>2, <2>3, PingsKept
<1>14. CASE \E s \in slots : SlotFinishes(s)
  <2>1. PICK s \in slots : SlotFinishes(s)
    BY <1>14
  <2>2. Packet("Reply", rxName, s.serial, s.call) \in Packets
    <3>1. s \in Packets /\ s.serial \in Serials /\ s.call \in CallIds /\ rxName \in Remote
      BY DEF TypeOK, Packets
    <3>. QED  BY <3>1, PacketType
  <2>3. /\ toClient' = Append(toClient, Packet("Reply", rxName, s.serial, s.call))
        /\ UNCHANGED <<pending, session, silent, link, toHost>>
    BY <2>1 DEF SlotFinishes, Answer
  <2>. QED  BY <1>10, <2>2, <2>3, PingsKept
<1>15. ASSUME NEW type, NEW r \in Remote, ClientReads(type),
              Head(toClient).type # "Pong" \/ Head(toClient).name # r,
              Carries(toClient, "Pong", r)
       PROVE  Carries(toClient', "Pong", r)
  <2>1. toClient # <<>> /\ toClient' = Tail(toClient)
    BY <1>15 DEF ClientReads
  <2>. QED  BY <1>0, <1>15, <2>1, CarriesTail
<1>16. CASE ReadPong
  <2>. DEFINE r == Head(toClient).name
  <2>1. /\ ClientReads("Pong") /\ pending' = [pending EXCEPT ![r][Heartbeat] = NoCall]
    BY <1>16 DEF ReadPong
  <2>2. r \in Remote /\ UNCHANGED <<session, silent, link, toHost>>
    BY <1>0, <2>1, FirstPacket DEF ClientReads
  <2>3. \A q \in Remote :
          pending'[q][Heartbeat] = IF q = r THEN NoCall ELSE pending[q][Heartbeat]
    BY <1>0, <2>1, <2>2
  <2>. QED  BY <1>15, <2>1, <2>2, <2>3, PingsKept
<1>17. CASE ReadReply
  <2>. DEFINE p == Head(toClient)
  <2>1. /\ ClientReads("Reply") /\ p.type = "Reply"
        /\ pending' = [pending EXCEPT ![p.name][p.serial] = NoCall]
        /\ UNCHANGED <<session, silent, link, toHost>>
    BY <1>17 DEF ReadReply, ClientReads
  <2>2. \A q \in Remote : pending'[q][Heartbeat] \in {NoCall, pending[q][Heartbeat]}
    <3>1. p.name \in Remote /\ p.serial \in 0..MaxInt
      BY <1>17, ReplyRead, MaxIntIsPositive
    <3>. QED  BY <1>0, <2>1, <3>1
  <2>. QED  BY <1>15, <2>1, <2>2, PingsKept
<1>18. CASE ReadInit
  <2>1. /\ ClientReads("Init") /\ Head(toClient).type = "Init"
        /\ UNCHANGED <<pending, session, silent, link, toHost>>
    BY <1>18 DEF ReadInit, ClientReads
  <2>. QED  BY <1>15, <2>1, PingsKept
<1>. QED
  BY <1>2, <1>3, <1>4, <1>5, <1>7, <1>8, <1>12, <1>13, <1>14, <1>16, <1>17, <1>18
     DEF Next, Reads

(* What a step that closes a connection sees. *)
LEMMA ClosingStep ==
  ASSUME TypeInv, PingInv, Next, link = "up", link' = "closing"
  PROVE  \E r \in Remote :
           /\ pending[r][Heartbeat] # NoCall
           /\ silent \/ InFlight(r) \/ pending[r][Heartbeat] < session
<1>. USE DEF TypeInv, linkVars
<1>1. PICK r \in Remote : HeartbeatTimeout(r)
  <2>1. CASE \/ \E r \in Remote : SendWithReply(r) \/ Send(r)
             \/ \E r \in InProcess : SendInProcess(r)
             \/ \E c \in DOMAIN calls : Watch(c)
             \/ Wait \/ WaitReturns
             \/ \E i \in DOMAIN waits : WaitExpires(i)
             \/ SetHeartbeatInterval
             \/ \E s \in slots : SlotFinishes(s)
             \/ Connect \/ Disconnected \/ GoesSilent
    BY <2>1 DEF SendWithReply, Send, SendInProcess, Watch, Wait, WaitReturns, WaitExpires,
         SetHeartbeatInterval, SlotFinishes, Connect, Disconnected, GoesSilent
  <2>2. CASE Reads
    BY <2>2 DEF Reads, HostReadsAddObject, HostReadsPing, HostInvokes, HostInvokesAsync,
         HostReads, ReadPong, ReadReply, ReadInit, ClientReads
  <2>. QED  BY <2>1, <2>2 DEF Next
<1>2. pending[r][Heartbeat] # NoCall
  BY <1>1 DEF HeartbeatTimeout, HeartbeatMissed, HeartbeatIgnored, HeartbeatSent
<1>3. pending[r][Heartbeat] \in Nat /\ session \in Nat /\ pending[r][Heartbeat] <= session
  <2>1. pending \in [Remote -> [0..MaxInt -> Nat]] /\ session \in Nat
    BY BoundsAreNaturals DEF TypeOK
  <2>2. pending[r][Heartbeat] \in Nat
    BY ONLY <2>1, Small, r \in Remote
  <2>. QED  BY <2>1, <2>2 DEF PingInv
<1>4. pending[r][Heartbeat] = session => silent \/ InFlight(r)
  BY <1>2 DEF PingInv, InFlight, Carries
<1>. QED  BY <1>2, <1>3, <1>4

(* The heartbeat takes down a connection only for want of an answer to a   *)
(* ping: of one on its way, of a silent host's, or of an earlier           *)
(* connection's that its loss left in m_pendingCalls.                      *)
THEOREM ClosedForAPing == Spec => HealthyStays
<1>1. TypeInv /\ PingInv /\ [Next]_vars => PingInv'
  BY PingNext DEF PingInv, vars, replicaVars, linkVars, hostVars
<1>2. TypeInv /\ PingInv /\ [Next]_vars =>
        [link = "up" /\ link' = "closing" =>
           \E r \in Remote :
             /\ pending[r][Heartbeat] # NoCall
             /\ silent \/ InFlight(r) \/ pending[r][Heartbeat] < session]_vars
  BY ClosingStep
<1>. QED  BY <1>1, <1>2, PingInit, TypeInvHolds, PTL DEF Spec, HealthyStays

-----------------------------------------------------------------------------
(* The inductive invariant *)

(* A call to a remote replica bears a serial id that the replica has given *)
(* out: two calls share one only after the ids have run out.               *)
SerialsGiven ==
  \A c \in DOMAIN calls : calls[c].serial # NoReply =>
    LET call == calls[c] IN
    /\ call.name \in Remote /\ call.serial \in 1..MaxInt
    /\ call.serial < curSerialId[call.name] \/ curSerialId[call.name] = MaxInt
    /\ \A d \in DOMAIN calls :
         (d # c /\ calls[d].name = call.name /\ calls[d].serial = call.serial)
           => curSerialId[call.name] = MaxInt

(* Calls are made in the order of the connections. *)
SessionsGrow ==
  \A d \in DOMAIN calls :
    /\ calls[d].session <= session
    /\ \A c \in DOMAIN calls : d <= c => calls[d].session <= calls[c].session

(* A serial id stands for the last call that bears it. *)
LastEntered ==
  \A r \in Remote, n \in 1..MaxInt : pending[r][n] # NoCall =>
    LET c == pending[r][n] IN
    /\ c \in DOMAIN calls /\ calls[c].name = r /\ calls[c].serial = n
    /\ \A d \in DOMAIN calls :
         (calls[d].name = r /\ calls[d].serial = n) => d <= c

Wanted(p) ==
  /\ p.serial # NoReply
  /\ p.call \in DOMAIN calls
  /\ calls[p.call].serial = p.serial /\ calls[p.call].session = session

(* An invocation is one of a call made on the same connection; so is an    *)
(* answer, under the call's name unless it has strayed.                    *)
Requests == {p \in Packets :
  (p.type = "Invoke" /\ p.serial # NoReply) => Wanted(p) /\ calls[p.call].name = p.name}

Replies == {p \in Packets :
  p.type = "Reply" => Wanted(p) /\ (calls[p.call].name = p.name \/ p.call \in strayed)}

PacketsFit ==
  /\ toHost \in Seq(Requests) /\ toClient \in Seq(Replies)
  /\ \A s \in slots : Wanted(s) /\ calls[s.call].name = s.name
  /\ link = "down" => slots = {}

(* What a finished call holds was the answer to a call, another one only   *)
(* if it came from the host.                                               *)
ValuesGiven ==
  \A c \in DOMAIN calls : calls[c].done =>
    /\ calls[c].value \in DOMAIN calls
    /\ calls[c].value = c \/ calls[c].name \in Remote

TableInv == SerialsGiven /\ SessionsGrow /\ LastEntered

AnswerInv == TableInv /\ PacketsFit /\ ValuesGiven /\ OwnAnswer

-----------------------------------------------------------------------------
(* Steps that neither make nor finish a call *)

Calm ==
  /\ DOMAIN calls' = DOMAIN calls
  /\ \A d \in DOMAIN calls : Same(calls[d], calls'[d])
  /\ UNCHANGED curSerialId
  /\ session' \in Nat /\ session <= session'
  /\ Connect \/ UNCHANGED session
  /\ \A r \in Remote, n \in 1..MaxInt : pending'[r][n] = pending[r][n]
  /\ strayed \subseteq strayed'

(* A serial id that is given out is one of a call that wants an answer. *)
LEMMA SerialFits ==
  ASSUME TypeOK, NEW r \in Remote
  PROVE  NextSerialId(r) \in Serials /\ NextSerialId(r) # NoReply
<1>1. curSerialId[r] \in 1..MaxInt /\ MaxInt \in Nat \ {0}
  BY MaxIntIsPositive DEF TypeOK
<1>. QED  BY <1>1 DEF NextSerialId, Serials, NoReply

(* What an entry changes in m_pendingCalls. *)
LEMMA PendingEntry ==
  ASSUME NEW p \in [Remote -> [0..MaxInt -> Nat]], NEW r \in Remote,
         NEW s \in 0..MaxInt, NEW id \in Nat
  PROVE  \A q \in Remote, n \in 0..MaxInt :
           [p EXCEPT ![r][s] = id][q][n] = IF q = r /\ n = s THEN id ELSE p[q][n]
OBVIOUS

(* The heartbeat's entry is no call's. *)
LEMMA Unentered ==
  ASSUME NEW p \in [Remote -> [0..MaxInt -> Nat]], NEW r \in Remote, NEW id \in Nat
  PROVE  \A q \in Remote, n \in 1..MaxInt :
           [p EXCEPT ![r][Heartbeat] = id][q][n] = p[q][n]
BY DEF Heartbeat

(* All steps are calm but for those that make or finish calls. *)
LEMMA CalmSteps ==
  ASSUME TypeInv, Next
  PROVE  \/ Calm
         \/ \E r \in Remote : SendWithReply(r)
         \/ \E r \in InProcess : SendInProcess(r)
         \/ ReadReply
<1>. USE DEF TypeInv, linkVars, replicaVars, hostVars
<1>0. /\ pending \in [Remote -> [0..MaxInt -> Nat]] /\ session \in Nat /\ NoCall \in Nat
      /\ \A d \in DOMAIN calls : Same(calls[d], calls[d])
  BY BoundsAreNaturals DEF TypeOK, NoCall, Same
<1>1. CASE /\ UNCHANGED <<calls, curSerialId, pending, session>>
           /\ strayed \subseteq strayed'
  BY <1>0, <1>1 DEF Calm
<1>2. CASE \/ \E r \in Remote : Send(r)
           \/ \E i \in DOMAIN waits : WaitExpires(i)
           \/ WaitReturns \/ SetHeartbeatInterval
           \/ Disconnected \/ GoesSilent
  BY <1>1, <1>2 DEF Send, WaitExpires, WaitReturns, SetHeartbeatInterval, Disconnected,
       GoesSilent
<1>3. CASE HostReadsAddObject \/ HostReadsPing \/ HostInvokes \/ HostInvokesAsync
  BY <1>1, <1>3 DEF HostReadsAddObject, HostReadsPing, HostInvokes, HostInvokesAsync,
       HostReads
<1>4. CASE \E s \in slots : SlotFinishes(s)
  BY <1>1, <1>4 DEF SlotFinishes
<1>5. CASE Connect
  <2>1. session' = session + 1 /\ UNCHANGED <<calls, curSerialId, pending, strayed>>
    BY <1>5 DEF Connect
  <2>. QED  BY <1>0, <1>5, <2>1 DEF Calm
<1>6. ASSUME DOMAIN calls' = DOMAIN calls,
             \A d \in DOMAIN calls : Same(calls[d], calls'[d]),
             UNCHANGED <<curSerialId, pending, session, strayed>>
      PROVE  Calm
  BY <1>0, <1>6 DEF Calm
<1>7. CASE \E c \in DOMAIN calls : Watch(c)
  BY <1>6, <1>7, WatchedCalls DEF Watch
<1>8. CASE Wait
  BY <1>6, <1>8, HelpedCalls DEF Wait
<1>9. CASE ReadInit
  <2>1. UNCHANGED <<curSerialId, pending, session, strayed>>
    BY <1>9 DEF ReadInit, ClientReads
  <2>2. \/ UNCHANGED calls
        \/ \E loop \in Loops(TRUE) : calls' = Helped(loop)
    BY <1>9 DEF ReadInit
  <2>. QED  BY <1>1, <1>6, <2>1, <2>2, HelpedCalls
<1>10. ASSUME NEW r \in Remote, HeartbeatTimeout(r)  PROVE Calm
  <2>1. \/ pending' = pending
        \/ pending' = [pending EXCEPT ![r][Heartbeat] = NoCall]
        \/ pending' = [pending EXCEPT ![r][Heartbeat] = session]
    BY <1>10 DEF HeartbeatTimeout, HeartbeatMissed, HeartbeatIgnored, HeartbeatSent
  <2>2. \A q \in Remote, n \in 1..MaxInt : pending'[q][n] = pending[q][n]
    <3>1. \A q \in Remote, n \in 1..MaxInt :
            [pending EXCEPT ![r][Heartbeat] = NoCall][q][n] = pending[q][n]
      BY ONLY <1>0, r \in Remote, Unentered
    <3>2. \A q \in Remote, n \in 1..MaxInt :
            [pending EXCEPT ![r][Heartbeat] = session][q][n] = pending[q][n]
      BY ONLY <1>0, r \in Remote, Unentered
    <3>. QED  BY ONLY <2>1, <3>1, <3>2
  <2>3. UNCHANGED <<calls, curSerialId, session, strayed>>
    BY <1>10 DEF HeartbeatTimeout
  <2>. QED  BY <1>0, <2>2, <2>3 DEF Calm
<1>11. CASE ReadPong
  <2>. DEFINE r == Head(toClient).name
  <2>1. /\ pending' = [pending EXCEPT ![r][Heartbeat] = NoCall]
        /\ UNCHANGED <<calls, curSerialId, session, strayed>>
        /\ toClient # <<>> /\ toClient \in Seq(Packets)
    BY <1>11 DEF ReadPong, ClientReads, TypeOK
  <2>2. r \in Remote
    BY <2>1, FirstPacket
  <2>. HIDE DEF r
  <2>3. \A q \in Remote, n \in 1..MaxInt : pending'[q][n] = pending[q][n]
    BY ONLY <1>0, <2>1, <2>2, Unentered
  <2>. QED  BY <1>0, <2>1, <2>3 DEF Calm
<1>. QED
  BY <1>2, <1>3, <1>4, <1>5, <1>7, <1>8, <1>9, <1>10, <1>11 DEF Next, Reads

-----------------------------------------------------------------------------
(* The tables *)

(* Calls that are not made, and entries that are only cleared, keep the    *)
(* tables.                                                                 *)
LEMMA TableSteady ==
  ASSUME TypeInv, TypeInv', TableInv,
         DOMAIN calls' = DOMAIN calls,
         \A d \in DOMAIN calls :
           /\ calls'[d].name = calls[d].name /\ calls'[d].serial = calls[d].serial
           /\ calls'[d].session = calls[d].session,
         \A r \in Remote : curSerialId[r] <= curSerialId'[r],
         session <= session',
         \A r \in Remote, n \in 1..MaxInt : pending'[r][n] \in {NoCall, pending[r][n]}
  PROVE  TableInv'
<1>. USE DEF TypeInv, TableInv
<1>0. /\ \A r \in Remote : curSerialId[r] \in 1..MaxInt /\ curSerialId'[r] \in 1..MaxInt
      /\ session \in Nat /\ session' \in Nat /\ MaxInt \in Nat
      /\ \A d \in DOMAIN calls : calls[d].session \in Nat
  <2>1. \A d \in DOMAIN calls : calls[d] \in CallRecords
    BY Lengths
  <2>2. \A d \in DOMAIN calls : calls[d].session \in Nat
    BY <2>1, BoundsAreNaturals DEF CallRecords
  <2>. QED  BY <2>2, BoundsAreNaturals, MaxIntIsPositive DEF TypeOK
<1>1. SerialsGiven'
  BY <1>0 DEF SerialsGiven
<1>2. SessionsGrow'
  BY <1>0 DEF SessionsGrow
<1>3. LastEntered'
  BY DEF LastEntered
<1>. QED  BY <1>1, <1>2, <1>3

(* The call that is made last is the newest of its serial id. *)
LEMMA TableMade ==
  ASSUME TypeInv, TypeInv', TableInv,
         NEW call \in CallRecords, calls' = Append(calls, call),
         call.session = session, UNCHANGED session,
         NEW r,
         \/ call.serial = NoReply /\ UNCHANGED <<pending, curSerialId>>
         \/ /\ r \in Remote
            /\ call.name = r /\ call.serial = NextSerialId(r)
            /\ pending' = [pending EXCEPT ![r][NextSerialId(r)] = Len(calls) + 1]
            /\ curSerialId' = [curSerialId EXCEPT ![r] = IF @ = MaxInt THEN @ ELSE @ + 1]
  PROVE  TableInv'
<1>. DEFINE new == Len(calls) + 1
<1>. USE DEF TypeInv, TableInv
<1>1. /\ DOMAIN calls = 1..Len(calls) /\ Len(calls) \in Nat
      /\ DOMAIN calls' = 1..(Len(calls) + 1)
      /\ \A d \in DOMAIN calls : calls'[d] = calls[d]
      /\ calls'[Len(calls) + 1] = call
  BY Lengths, Appended
<1>2. /\ new \in Nat /\ new \notin DOMAIN calls /\ new \in DOMAIN calls' /\ calls'[new] = call
      /\ DOMAIN calls \subseteq DOMAIN calls'
      /\ \A d \in DOMAIN calls' : d \in DOMAIN calls \/ d = new
      /\ \A d \in DOMAIN calls : d \in Nat /\ d < new
      /\ \A d \in DOMAIN calls : calls'[d] = calls[d]
  BY <1>1
<1>3. /\ curSerialId \in [Remote -> 1..MaxInt] /\ curSerialId' \in [Remote -> 1..MaxInt]
      /\ pending \in [Remote -> [0..MaxInt -> Nat]]
      /\ session \in Nat /\ MaxInt \in Nat \ {0}
  <2>1. curSerialId \in [Remote -> 1..MaxInt] /\ pending \in [Remote -> [0..MaxInt -> Nat]]
    BY Zenon DEF TypeOK
  <2>2. curSerialId' \in [Remote -> 1..MaxInt]
    BY Zenon DEF TypeOK
  <2>3. session \in Nat
    <3>1. session \in 0..MaxSessions
      BY Zenon DEF TypeOK
    <3>. QED  BY ONLY <3>1, BoundsAreNaturals
  <2>. QED  BY <2>1, <2>2, <2>3, MaxIntIsPositive
<1>. HIDE DEF new
<1>4. SessionsGrow'
  <2>1. ASSUME NEW d \in DOMAIN calls'  PROVE calls'[d].session <= session'
    BY <1>2, <1>3 DEF SessionsGrow
  <2>2. ASSUME NEW d \in DOMAIN calls', NEW c \in DOMAIN calls', d <= c
        PROVE  calls'[d].session <= calls'[c].session
    <3>1. CASE c \in DOMAIN calls
      BY <1>2, <2>2, <3>1 DEF SessionsGrow
    <3>2. CASE c = new
      BY <1>2, <2>1, <3>2
    <3>. QED  BY <1>2, <3>1, <3>2
  <2>. QED  BY <2>1, <2>2 DEF SessionsGrow
<1>5. CASE call.serial = NoReply /\ UNCHANGED <<pending, curSerialId>>
  <2>1. SerialsGiven'
    <3>1. ASSUME NEW c \in DOMAIN calls', calls'[c].serial # NoReply
          PROVE  c \in DOMAIN calls /\ calls'[c] = calls[c]
      BY <1>2, <1>5, <3>1
    <3>. QED  BY <1>2, <1>5, <3>1 DEF SerialsGiven
  <2>2. LastEntered'
    <3>1. \A n \in 1..MaxInt : n # NoReply
      BY DEF NoReply
    <3>. QED  BY <1>2, <1>5, <3>1 DEF LastEntered
  <2>. QED  BY <1>4, <2>1, <2>2
<1>6. CASE /\ r \in Remote
           /\ call.name = r /\ call.serial = NextSerialId(r)
           /\ pending' = [pending EXCEPT ![r][NextSerialId(r)] = new]
           /\ curSerialId' = [curSerialId EXCEPT ![r] = IF @ = MaxInt THEN @ ELSE @ + 1]
  <2>. DEFINE n0 == NextSerialId(r)
  <2>1. /\ n0 \in 1..MaxInt
        /\ (n0 = curSerialId[r] /\ n0 < MaxInt) \/ curSerialId[r] = MaxInt
    <3>0. r \in Remote
      BY <1>6, Zenon
    <3>1. curSerialId[r] \in 1..MaxInt
      BY ONLY <1>3, <3>0
    <3>. QED  BY ONLY <1>3, <3>1 DEF NextSerialId
  <2>2. \A q \in Remote, n \in 1..MaxInt :
          pending'[q][n] = IF q = r /\ n = n0 THEN new ELSE pending[q][n]
    <3>1. n0 \in 0..MaxInt /\ r \in Remote
      BY <1>6, <2>1
    <3>2. pending' = [pending EXCEPT ![r][n0] = new]
      BY <1>6
    <3>. HIDE DEF n0
    <3>3. \A q \in Remote, n \in 0..MaxInt :
            [pending EXCEPT ![r][n0] = new][q][n] =
              IF q = r /\ n = n0 THEN new ELSE pending[q][n]
      <4>1. pending \in [Remote -> [0..MaxInt -> Nat]] /\ new \in Nat
        BY <1>2, <1>3
      <4>. QED  BY ONLY <3>1, <4>1, PendingEntry
    <3>. QED  BY <3>2, <3>3
  <2>3. \A q \in Remote : /\ curSerialId[q] \in 1..MaxInt /\ curSerialId'[q] \in 1..MaxInt
                          /\ curSerialId[q] <= curSerialId'[q]
    BY <1>3, <1>6
  <2>4. n0 < curSerialId'[r] \/ curSerialId'[r] = MaxInt
    BY <1>3, <1>6, <2>1
  <2>. HIDE DEF n0
  <2>5. call.name = r /\ call.serial = n0 /\ r \in Remote
    BY <1>6 DEF n0
  <2>6. ASSUME NEW d \in DOMAIN calls, calls[d].name = r, calls[d].serial = n0
        PROVE  curSerialId'[r] = MaxInt
    <3>1. calls[d].serial # NoReply
      BY <2>1, <2>6 DEF NoReply
    <3>2. curSerialId[r] = MaxInt
      BY <1>3, <2>1, <2>6, <3>1 DEF SerialsGiven
    <3>. QED  BY <2>3, <2>5, <3>2
  <2>7. SerialsGiven'
    <3>0. ASSUME NEW c \in DOMAIN calls, calls[c].serial # NoReply
          PROVE  /\ calls'[c] = calls[c]
                 /\ calls[c].name \in Remote /\ calls[c].serial \in 1..MaxInt
                 /\ \/ calls[c].serial < curSerialId'[calls[c].name]
                    \/ curSerialId'[calls[c].name] = MaxInt
                 /\ \A d \in DOMAIN calls :
                      (d # c /\ calls[d].name = calls[c].name
                              /\ calls[d].serial = calls[c].serial)
                        => curSerialId'[calls[c].name] = MaxInt
      <4>1. PICK q \in Remote : q = calls[c].name
        BY <3>0 DEF SerialsGiven
      <4>2. /\ calls[c].serial \in 1..MaxInt
            /\ calls[c].serial < curSerialId[q] \/ curSerialId[q] = MaxInt
            /\ \A d \in DOMAIN calls :
                 (d # c /\ calls[d].name = q /\ calls[d].serial = calls[c].serial)
                   => curSerialId[q] = MaxInt
        BY <3>0, <4>1 DEF SerialsGiven
      <4>3. /\ curSerialId[q] = MaxInt => curSerialId'[q] = MaxInt
            /\ curSerialId[q] <= curSerialId'[q]
            /\ curSerialId[q] \in Nat /\ curSerialId'[q] \in Nat
        BY ONLY <1>3, <2>3
      <4>. QED  BY <1>2, <4>1, <4>2, <4>3
    <3>1. ASSUME NEW c \in DOMAIN calls', calls'[c].serial # NoReply
          PROVE  /\ calls'[c].name \in Remote /\ calls'[c].serial \in 1..MaxInt
                 /\ \/ calls'[c].serial < curSerialId'[calls'[c].name]
                    \/ curSerialId'[calls'[c].name] = MaxInt
      <4>1. CASE c = new
        BY <1>2, <2>1, <2>4, <2>5, <4>1
      <4>2. CASE c \in DOMAIN calls
        BY <1>2, <3>0, <3>1, <4>2
      <4>. QED  BY <1>2, <4>1, <4>2
    <3>2. ASSUME NEW c \in DOMAIN calls', calls'[c].serial # NoReply,
                 NEW d \in DOMAIN calls', d # c,
                 calls'[d].name = calls'[c].name, calls'[d].serial = calls'[c].serial
          PROVE  curSerialId'[calls'[c].name] = MaxInt
      <4>1. CASE c \in DOMAIN calls /\ d \in DOMAIN calls
        BY <1>2, <3>0, <3>2, <4>1
      <4>2. CASE c = new
        BY <1>2, <2>5, <2>6, <3>2, <4>2
      <4>3. CASE d = new
        BY <1>2, <2>5, <2>6, <3>2, <4>3
      <4>. QED  BY <1>2, <4>1, <4>2, <4>3
    <3>. QED  BY <3>1, <3>2 DEF SerialsGiven
  <2>8. LastEntered'
    <3>1. ASSUME NEW q \in Remote, NEW n \in 1..MaxInt, pending'[q][n] # NoCall
          PROVE  LET c == pending'[q][n] IN
                 /\ c \in DOMAIN calls' /\ calls'[c].name = q /\ calls'[c].serial = n
                 /\ \A d \in DOMAIN calls' :
                      (calls'[d].name = q /\ calls'[d].serial = n) => d <= c
      <4>1. CASE q = r /\ n = n0
        BY <1>2, <2>2, <2>5, <4>1
      <4>2. CASE ~(q = r /\ n = n0)
        <5>1. pending'[q][n] = pending[q][n]
          BY <2>2, <4>2
        <5>2. ~(calls'[new].name = q /\ calls'[new].serial = n)
          BY <1>2, <2>5, <4>2
        <5>. QED  BY <1>2, <3>1, <5>1, <5>2 DEF LastEntered
      <4>. QED  BY <4>1, <4>2
    <3>. QED  BY <3>1 DEF LastEntered
  <2>. QED  BY <1>4, <2>7, <2>8
<1>. QED  BY <1>5, <1>6 DEF new

(* What a reply that is read does to the calls: the one that its serial id *)
(* stands for takes its value.                                             *)
LEMMA ReplyTaken ==
  ASSUME TypeInv, ReadReply
  PROVE  LET p == Head(toClient)
             c == pending[p.name][p.serial]
         IN  /\ UNCHANGED <<curSerialId, session, link, toHost, slots, strayed>>
             /\ \A r \in Remote, n \in 1..MaxInt : pending'[r][n] \in {NoCall, pending[r][n]}
             /\ DOMAIN calls' = DOMAIN calls
             /\ \A d \in DOMAIN calls :
                  /\ calls'[d].name = calls[d].name /\ calls'[d].serial = calls[d].serial
                  /\ calls'[d].session = calls[d].session
                  /\ d # c => calls'[d].done = calls[d].done /\ calls'[d].value = calls[d].value
             /\ c \in DOMAIN calls => calls'[c].value = p.call
<1>. DEFINE p == Head(toClient)
            c == pending[p.name][p.serial]
<1>. USE DEF TypeInv
<1>1. UNCHANGED <<curSerialId, session, link, toHost, slots, strayed>>
  BY DEF ReadReply, ClientReads, linkVars, hostVars
<1>2. p.name \in Remote /\ p.call \in CallIds /\ p.serial \in 0..MaxInt /\ c \in Nat
  BY ReplyRead, MaxIntIsPositive
<1>3. pending \in [Remote -> [0..MaxInt -> Nat]] /\ NoCall \in Nat
  BY DEF TypeOK, NoCall
<1>4. /\ pending' = [pending EXCEPT ![p.name][p.serial] = NoCall]
      /\ \/ c = NoCall /\ UNCHANGED calls
         \/ c # NoCall /\ Finish(c, p.call)
  BY DEF ReadReply
<1>. HIDE DEF p, c
<1>5. \A r \in Remote, n \in 1..MaxInt : pending'[r][n] \in {NoCall, pending[r][n]}
  <2>1. \A r \in Remote, n \in 0..MaxInt :
          [pending EXCEPT ![p.name][p.serial] = NoCall][r][n] =
            IF r = p.name /\ n = p.serial THEN NoCall ELSE pending[r][n]
    BY ONLY <1>2, <1>3, PendingEntry
  <2>. QED  BY <1>4, <2>1
<1>6. NoCall \notin DOMAIN calls
  BY Lengths DEF NoCall
<1>7. ASSUME Finish(c, p.call)
      PROVE  /\ DOMAIN calls' = DOMAIN calls
             /\ \A d \in DOMAIN calls :
                  /\ calls'[d].name = calls[d].name /\ calls'[d].serial = calls[d].serial
                  /\ calls'[d].session = calls[d].session
                  /\ d # c => calls'[d].done = calls[d].done /\ calls'[d].value = calls[d].value
             /\ c \in DOMAIN calls => calls'[c].value = p.call
  <2>1. /\ DOMAIN calls' = DOMAIN calls
        /\ \A d \in DOMAIN calls :
             calls'[d] = IF d = c THEN FinishedCall(calls[d], p.call) ELSE calls[d]
    BY <1>2, <1>7, Finished
  <2>2. ASSUME NEW d \in DOMAIN calls, d = c
        PROVE  /\ calls'[d].name = calls[d].name /\ calls'[d].serial = calls[d].serial
               /\ calls'[d].session = calls[d].session /\ calls'[d].value = p.call
    <3>1. calls[d] \in CallRecords /\ calls'[d] = FinishedCall(calls[d], p.call)
      BY <2>1, <2>2, Lengths
    <3>2. LET call == FinishedCall(calls[d], p.call) IN
          /\ call.name = calls[d].name /\ call.serial = calls[d].serial
          /\ call.session = calls[d].session /\ call.value = p.call
      BY ONLY <1>2, <3>1, FinishedRecord
    <3>. QED  BY ONLY <3>1, <3>2
  <2>3. ASSUME NEW d \in DOMAIN calls, d # c  PROVE calls'[d] = calls[d]
    BY <2>1, <2>3
  <2>. QED  BY <2>1, <2>2, <2>3
<1>8. /\ DOMAIN calls' = DOMAIN calls
      /\ \A d \in DOMAIN calls :
           /\ calls'[d].name = calls[d].name /\ calls'[d].serial = calls[d].serial
           /\ calls'[d].session = calls[d].session
           /\ d # c => calls'[d].done = calls[d].done /\ calls'[d].value = calls[d].value
      /\ c \in DOMAIN calls => calls'[c].value = p.call
  BY <1>4, <1>6, <1>7
<1>. QED  BY <1>1, <1>5, <1>8 DEF p, c

(* Every step keeps the tables. *)
LEMMA TableNext ==
  ASSUME TypeInv, TypeInv', TableInv, Next
  PROVE  TableInv'
<1>. USE DEF TypeInv
<1>0. /\ \A r \in Remote : curSerialId[r] \in Nat
      /\ curSerialId \in [Remote -> 1..MaxInt] /\ session \in Nat
      /\ pending \in [Remote -> [0..MaxInt -> Nat]]
  <2>1. curSerialId \in [Remote -> 1..MaxInt] /\ pending \in [Remote -> [0..MaxInt -> Nat]]
    BY Zenon DEF TypeOK
  <2>2. session \in Nat
    <3>1. session \in 0..MaxSessions
      BY Zenon DEF TypeOK
    <3>. QED  BY ONLY <3>1, BoundsAreNaturals
  <2>. QED  BY <2>1, <2>2, MaxIntIsPositive
<1>1. CASE Calm
  BY <1>0, <1>1, TableSteady DEF Calm, Same
<1>2. ASSUME NEW r \in Remote, SendWithReply(r)  PROVE TableInv'
  <2>. DEFINE call == NewCall(r, NextSerialId(r), FALSE, NoCall)
  <2>1. /\ UNCHANGED session
        /\ curSerialId' = [curSerialId EXCEPT ![r] = IF @ = MaxInt THEN @ ELSE @ + 1]
        /\ \/ UNCHANGED <<calls, pending>>
           \/ /\ calls' = Append(calls, call)
              /\ pending' = [pending EXCEPT ![r][NextSerialId(r)] = Len(calls) + 1]
    BY <1>2 DEF SendWithReply, linkVars
  <2>2. NextSerialId(r) \in Serials
    BY SerialFits
  <2>3. call \in CallRecords
    BY <2>2, Small, NewCallType
  <2>4. call.name = r /\ call.serial = NextSerialId(r) /\ call.session = session
    BY DEF NewCall
  <2>. HIDE DEF call
  <2>5. CASE UNCHANGED <<calls, pending>>
    BY <1>0, <2>1, <2>5, TableSteady
  <2>. QED  BY <2>1, <2>3, <2>4, <2>5, TableMade
<1>3. ASSUME NEW r \in InProcess, SendInProcess(r)  PROVE TableInv'
  <2>. DEFINE call == NewCall(r, NoReply, TRUE, Len(calls) + 1)
  <2>1. calls' = Append(calls, call) /\ UNCHANGED <<pending, curSerialId, session>>
    BY <1>3 DEF SendInProcess, linkVars, replicaVars
  <2>2. Len(calls) + 1 \in CallIds
    BY <1>3, NextCallFits DEF SendInProcess
  <2>3. call \in CallRecords
    BY <2>2, Small, NewCallType
  <2>4. call.serial = NoReply /\ call.session = session
    BY DEF NewCall
  <2>. HIDE DEF call
  <2>. QED  BY <2>1, <2>3, <2>4, TableMade
<1>4. CASE ReadReply
  <2>1. /\ UNCHANGED <<curSerialId, session>>
        /\ \A r \in Remote, n \in 1..MaxInt : pending'[r][n] \in {NoCall, pending[r][n]}
        /\ DOMAIN calls' = DOMAIN calls
        /\ \A d \in DOMAIN calls :
             /\ calls'[d].name = calls[d].name /\ calls'[d].serial = calls[d].serial
             /\ calls'[d].session = calls[d].session
    BY <1>4, ReplyTaken
  <2>. QED  BY <1>0, <2>1, TableSteady
<1>. QED  BY <1>1, <1>2, <1>3, <1>4, CalmSteps

-----------------------------------------------------------------------------
(* The packets *)

(* Sequences over a set are sequences over a larger one. *)
LEMMA SeqGrows ==
  ASSUME NEW S, NEW T, S \subseteq T
  PROVE  Seq(S) \subseteq Seq(T)
<1>. SUFFICES ASSUME NEW s \in Seq(S)  PROVE s \in Seq(T)
  OBVIOUS
<1>1. Len(s) \in Nat /\ s \in [1..Len(s) -> S]
  BY LenProperties
<1>2. s \in [1..Len(s) -> T]
  BY <1>1
<1>. QED  BY <1>1, <1>2, SeqDef

(* Packets that fit the calls still do when calls are made or finished on  *)
(* the same connection.                                                    *)
Kept ==
  /\ DOMAIN calls \subseteq DOMAIN calls'
  /\ \A d \in DOMAIN calls :
       /\ calls'[d].name = calls[d].name /\ calls'[d].serial = calls[d].serial
       /\ calls'[d].session = calls[d].session
  /\ UNCHANGED session
  /\ strayed \subseteq strayed'

(* What fits the calls still does. *)
LEMMA FitKept ==
  ASSUME Kept
  PROVE  /\ \A p \in Packets : Wanted(p) => Wanted(p)' /\ calls'[p.call].name = calls[p.call].name
         /\ Seq(Requests) \subseteq Seq(Requests') /\ Seq(Replies) \subseteq Seq(Replies')
<1>1. \A p \in Packets : Wanted(p) => Wanted(p)' /\ calls'[p.call].name = calls[p.call].name
  BY DEF Kept, Wanted
<1>2. Requests \subseteq Requests'
  BY <1>1 DEF Requests
<1>3. Replies \subseteq Replies'
  BY <1>1 DEF Replies, Kept
<1>. QED  BY <1>1, <1>2, <1>3, SeqGrows

(* Every step but a new connection keeps calls and connection. *)
LEMMA CallsKept ==
  ASSUME TypeInv, Next, ~Connect
  PROVE  Kept
<1>. USE DEF TypeInv
<1>1. CASE Calm
  BY <1>1 DEF Calm, Kept, Same
<1>2. ASSUME NEW call \in CallRecords, calls' = Append(calls, call), UNCHANGED <<session, strayed>>
      PROVE  Kept
  <2>1. DOMAIN calls \subseteq DOMAIN calls' /\ \A d \in DOMAIN calls : calls'[d] = calls[d]
    BY <1>2, Lengths, Appended
  <2>. QED  BY <1>2, <2>1 DEF Kept
<1>3. ASSUME NEW r \in Remote, SendWithReply(r)  PROVE Kept
  <2>. DEFINE call == NewCall(r, NextSerialId(r), FALSE, NoCall)
  <2>1. UNCHANGED <<session, strayed>> /\ (UNCHANGED calls \/ calls' = Append(calls, call))
    BY <1>3 DEF SendWithReply, linkVars, hostVars
  <2>2. NextSerialId(r) \in Serials
    BY SerialFits
  <2>3. call \in CallRecords
    BY <2>2, Small, NewCallType
  <2>. HIDE DEF call
  <2>4. CASE UNCHANGED calls
    BY <2>1, <2>4 DEF Kept
  <2>. QED  BY <1>2, <2>1, <2>3, <2>4
<1>4. ASSUME NEW r \in InProcess, SendInProcess(r)  PROVE Kept
  <2>. DEFINE call == NewCall(r, NoReply, TRUE, Len(calls) + 1)
  <2>1. calls' = Append(calls, call) /\ UNCHANGED <<session, strayed>>
    BY <1>4 DEF SendInProcess, linkVars, hostVars
  <2>2. Len(calls) + 1 \in CallIds
    BY <1>4, NextCallFits DEF SendInProcess
  <2>3. call \in CallRecords
    BY <2>2, Small, NewCallType
  <2>. HIDE DEF call
  <2>. QED  BY <1>2, <2>1, <2>3
<1>5. CASE ReadReply
  BY <1>5, ReplyTaken DEF Kept
<1>. QED  BY <1>1, <1>3, <1>4, <1>5, CalmSteps

(* Every step keeps the packets fitting the calls. *)
LEMMA PacketsNext ==
  ASSUME TypeInv, TypeInv', PacketsFit, Next
  PROVE  PacketsFit'
<1>. USE DEF TypeInv, linkVars, replicaVars, hostVars
<1>0. /\ toHost \in Seq(Packets) /\ toHost \in Seq(Requests)
      /\ toClient \in Seq(Packets) /\ toClient \in Seq(Replies)
      /\ slots \subseteq Packets
      /\ \A s \in slots : Wanted(s) /\ calls[s.call].name = s.name
      /\ link = "down" => slots = {}
  BY DEF TypeOK, PacketsFit
<1>1. CASE Connect
  <2>1. /\ slots' = {} /\ toClient' = <<>>
        /\ toHost' = [i \in DOMAIN Order |-> Packet("AddObject", Order[i], NoReply, NoCall)]
    BY <1>0, <1>1 DEF Connect
  <2>2. toHost' \in Seq(Requests')
    <3>1. Len(Order) \in Nat /\ DOMAIN Order = 1..Len(Order)
      BY OrderIsNotEmpty, LenProperties
    <3>2. ASSUME NEW i \in DOMAIN Order
          PROVE  Packet("AddObject", Order[i], NoReply, NoCall) \in Requests'
      <4>1. Order[i] \in Remote
        BY DEF Remote
      <4>2. LET p == Packet("AddObject", Order[i], NoReply, NoCall)
            IN  p \in Packets /\ p.type = "AddObject"
        BY ONLY <4>1, Small, PacketType
      <4>. QED  BY <4>2 DEF Requests
    <3>3. toHost' \in [1..Len(Order) -> Requests']
      BY <2>1, <3>1, <3>2
    <3>. QED  BY <3>1, <3>3, SeqDef
  <2>3. toClient' \in Seq(Replies')
    BY <2>1, EmptySeq
  <2>. QED  BY <2>1, <2>2, <2>3 DEF PacketsFit
<1>2. CASE Disconnected
  BY <1>2, EmptySeq DEF Disconnected, PacketsFit
<1>. SUFFICES ASSUME ~Connect, ~Disconnected  PROVE PacketsFit'
  BY <1>1, <1>2
<1>3. /\ \A p \in Packets : Wanted(p) => Wanted(p)' /\ calls'[p.call].name = calls[p.call].name
      /\ Seq(Requests) \subseteq Seq(Requests') /\ Seq(Replies) \subseteq Seq(Replies')
  BY CallsKept, FitKept
<1>4. /\ toHost \in Seq(Requests') /\ toClient \in Seq(Replies')
      /\ \A s \in slots : Wanted(s)' /\ calls'[s.call].name = s.name
  BY <1>0, <1>3
<1>5. ASSUME UNCHANGED slots, link' # "down" \/ UNCHANGED link,
             toHost' \in Seq(Requests'), toClient' \in Seq(Replies')
      PROVE  PacketsFit'
  BY <1>0, <1>4, <1>5 DEF PacketsFit
<1>6. CASE \/ \E r \in InProcess : SendInProcess(r)
           \/ \E c \in DOMAIN calls : Watch(c)
           \/ Wait \/ WaitReturns
           \/ \E i \in DOMAIN waits : WaitExpires(i)
           \/ SetHeartbeatInterval \/ GoesSilent
  <2>1. UNCHANGED <<slots, link, toHost, toClient>>
    BY <1>6 DEF SendInProcess, Watch, Wait, WaitReturns, WaitExpires, SetHeartbeatInterval,
         GoesSilent
  <2>. QED  BY <1>4, <1>5, <2>1
<1>7. ASSUME NEW p \in Requests', toHost' = toHost \/ toHost' = Append(toHost, p),
             UNCHANGED <<slots, toClient>>, link' # "down" \/ UNCHANGED link
      PROVE  PacketsFit'
  <2>1. toHost' \in Seq(Requests')
    BY <1>4, <1>7, AppendProperties
  <2>2. toClient' \in Seq(Replies')
    BY <1>4, <1>7
  <2>. QED  BY <1>5, <1>7, <2>1, <2>2
<1>8. ASSUME NEW r \in Remote, SendWithReply(r)  PROVE PacketsFit'
  <2>. DEFINE id == Len(calls) + 1
              call == NewCall(r, NextSerialId(r), FALSE, NoCall)
              p == Packet("Invoke", r, NextSerialId(r), id)
  <2>1. /\ UNCHANGED <<slots, link, toClient, session>>
        /\ SendCommand(p)
        /\ link = "up" => calls' = Append(calls, call)
    <3>1. UNCHANGED <<slots, link, toClient, session>>
      BY <1>8 DEF SendWithReply
    <3>2. SendCommand(p) /\ (link = "up" => calls' = Append(calls, call))
      BY <1>8, Zenon DEF SendWithReply
    <3>. QED  BY <3>1, <3>2
  <2>2. id \in CallIds
    <3>1. Len(calls) < MaxCalls
      BY <1>8, Zenon DEF SendWithReply
    <3>. QED  BY <3>1, NextCallFits
  <2>3. NextSerialId(r) \in Serials /\ NextSerialId(r) # NoReply
    BY SerialFits
  <2>4. call \in CallRecords
    BY <2>3, Small, NewCallType
  <2>5. call.name = r /\ call.serial = NextSerialId(r) /\ call.session = session
    BY DEF NewCall
  <2>6. /\ p \in Packets /\ p.name = r /\ p.serial = NextSerialId(r) /\ p.call = id
    BY <2>2, <2>3, PacketType
  <2>. HIDE DEF call, p
  <2>7. CASE link # "up"
    <3>1. UNCHANGED toHost
      BY <2>1, <2>7 DEF SendCommand
    <3>. QED  BY <1>4, <1>5, <2>1, <3>1
  <2>8. CASE link = "up"
    <3>1. id \in DOMAIN calls' /\ calls'[id] = call
      BY <2>1, <2>4, <2>8, Lengths, Appended
    <3>. HIDE DEF id
    <3>2. p \in Requests'
      BY <2>1, <2>3, <2>5, <2>6, <3>1 DEF Requests, Wanted
    <3>3. toHost' = Append(toHost, p)
      BY <2>1, <2>8 DEF SendCommand
    <3>. QED  BY <1>7, <2>1, <3>2, <3>3
  <2>. QED  BY <2>7, <2>8
<1>9. ASSUME NEW r \in Remote, Send(r)  PROVE PacketsFit'
  <2>. DEFINE p == Packet("Invoke", r, NoReply, NoCall)
  <2>1. p \in Packets /\ p.serial = NoReply
    BY Small, PacketType
  <2>2. p \in Requests'
    BY <2>1 DEF Requests
  <2>3. /\ UNCHANGED <<slots, link, toClient>>
        /\ toHost' = toHost \/ toHost' = Append(toHost, p)
    BY <1>9 DEF Send, SendCommand
  <2>. HIDE DEF p
  <2>. QED  BY <1>7, <2>2, <2>3
<1>10. ASSUME NEW r \in Remote, HeartbeatTimeout(r)  PROVE PacketsFit'
  <2>. DEFINE p == Packet("Ping", r, Heartbeat, NoCall)
  <2>1. p \in Packets /\ p.type = "Ping"
    BY Small, PacketType
  <2>2. p \in Requests'
    BY <2>1 DEF Requests
  <2>3. UNCHANGED <<slots, toClient>>
    BY <1>10 DEF HeartbeatTimeout
  <2>4. link' # "down" \/ UNCHANGED link
    BY <1>10 DEF HeartbeatTimeout, HeartbeatMissed, HeartbeatIgnored, HeartbeatSent,
                 DisconnectFromServer
  <2>5. toHost' = toHost \/ toHost' = Append(toHost, p)
    BY <1>10 DEF HeartbeatTimeout, HeartbeatMissed, HeartbeatIgnored, HeartbeatSent
  <2>. HIDE DEF p
  <2>. QED  BY <1>7, <2>2, <2>3, <2>4, <2>5
<1>11. ASSUME NEW type, HostReads(type)
       PROVE  /\ toHost' \in Seq(Requests') /\ UNCHANGED link /\ link # "down"
              /\ Head(toHost) \in Requests /\ Head(toHost).type = type
              /\ rxName' \in Remote /\ Head(toHost) \in Packets
              /\ Head(toHost).name \in Remote /\ Head(toHost).serial \in Serials
              /\ Head(toHost).call \in CallIds
  <2>1. /\ toHost # <<>> /\ toHost' = Tail(toHost) /\ UNCHANGED link /\ link # "down"
        /\ Head(toHost).type = type /\ rxName' = Head(toHost).name
    BY <1>11 DEF HostReads
  <2>2. /\ Head(toHost) \in Packets
        /\ Head(toHost).name \in Remote /\ Head(toHost).serial \in Serials
        /\ Head(toHost).call \in CallIds
    BY <1>0, <2>1, FirstPacket
  <2>3. Head(toHost) \in Requests /\ toHost' \in Seq(Requests')
    BY <1>0, <1>4, <2>1, HeadTailProperties
  <2>. QED  BY <2>1, <2>2, <2>3
<1>12. ASSUME NEW type, HostReads(type), UNCHANGED slots,
              NEW p \in Replies', toClient' = Append(toClient, p)
       PROVE  PacketsFit'
  <2>1. toClient' \in Seq(Replies')
    BY <1>4, <1>12, AppendProperties
  <2>. QED  BY <1>5, <1>11, <1>12, <2>1
<1>13. CASE HostReadsAddObject
  <2>. DEFINE p == Packet("Init", rxName', NoReply, NoCall)
  <2>1. HostReads("AddObject") /\ UNCHANGED slots /\ toClient' = Append(toClient, p)
    BY <1>13 DEF HostReadsAddObject, Answer
  <2>2. p \in Packets /\ p.type = "Init"
    BY <1>11, <2>1, Small, PacketType
  <2>3. p \in Replies'
    BY <2>2 DEF Replies
  <2>. HIDE DEF p
  <2>. QED  BY <1>12, <2>1, <2>3
<1>14. CASE HostReadsPing
  <2>. DEFINE p == Packet("Pong", rxName', Heartbeat, NoCall)
  <2>1. HostReads("Ping") /\ UNCHANGED slots /\ toClient' = Append(toClient, p)
    BY <1>14 DEF HostReadsPing, Answer
  <2>2. p \in Packets /\ p.type = "Pong"
    BY <1>11, <2>1, Small, PacketType
  <2>3. p \in Replies'
    BY <2>2 DEF Replies
  <2>. HIDE DEF p
  <2>. QED  BY <1>12, <2>1, <2>3
<1>15. CASE HostInvokes
  <2>. PICK q : q = Head(toHost)
    OBVIOUS
  <2>. DEFINE p == Packet("Reply", q.name, q.serial, q.call)
  <2>1. /\ HostReads("Invoke") /\ UNCHANGED slots
        /\ IF q.serial # NoReply THEN toClient' = Append(toClient, p) ELSE UNCHANGED toClient
    BY <1>15 DEF HostInvokes, Answer
  <2>2. CASE q.serial = NoReply
    <3>1. toClient' \in Seq(Replies')
      BY <1>4, <2>1, <2>2
    <3>. QED  BY <1>5, <1>11, <2>1, <3>1
  <2>3. CASE q.serial # NoReply
    <3>1. q \in Packets /\ Wanted(q) /\ calls[q.call].name = q.name
      <4>1. q \in Packets /\ q \in Requests /\ q.type = "Invoke"
        BY <1>11, <2>1
      <4>. QED  BY <2>3, <4>1 DEF Requests
    <3>2. Wanted(q)' /\ calls'[q.call].name = q.name
      BY <1>3, <3>1
    <3>3. p \in Packets /\ p.name = q.name /\ p.serial = q.serial /\ p.call = q.call
      BY <1>11, <2>1, PacketType
    <3>4. p \in Replies'
      BY <3>2, <3>3 DEF Replies, Wanted
    <3>. HIDE DEF p
    <3>. QED  BY <1>12, <2>1, <2>3, <3>4
  <2>. QED  BY <2>2, <2>3
<1>16. CASE HostInvokesAsync
  <2>. PICK q : q = Head(toHost)
    OBVIOUS
  <2>1. /\ HostReads("Invoke") /\ q.serial # NoReply
        /\ slots' = slots \cup {q} /\ UNCHANGED toClient
    BY <1>16 DEF HostInvokesAsync
  <2>2. q \in Packets /\ Wanted(q) /\ calls[q.call].name = q.name
    <3>1. q \in Packets /\ q \in Requests /\ q.type = "Invoke"
      BY <1>11, <2>1
    <3>. QED  BY <2>1, <3>1 DEF Requests
  <2>3. Wanted(q)' /\ calls'[q.call].name = q.name
    BY <1>3, <2>2
  <2>4. \A s \in slots' : Wanted(s)' /\ calls'[s.call].name = s.name
    BY <1>4, <2>1, <2>3
  <2>5. toClient' \in Seq(Replies')
    BY <1>4, <2>1
  <2>. QED  BY <1>11, <2>1, <2>4, <2>5 DEF PacketsFit, Wanted
<1>17. ASSUME NEW s \in slots, SlotFinishes(s)  PROVE PacketsFit'
  <2>. DEFINE p == Packet("Reply", rxName, s.serial, s.call)
  <2>1. /\ slots' = slots \ {s} /\ toClient' = Append(toClient, p)
        /\ strayed' = IF rxName = s.name THEN strayed ELSE strayed \cup {s.call}
        /\ UNCHANGED <<link, toHost>>
    BY <1>17 DEF SlotFinishes, Answer
  <2>2. s \in Packets /\ s.serial \in Serials /\ s.call \in CallIds /\ rxName \in Remote
    BY <1>0 DEF TypeOK, Packets
  <2>3. p \in Packets /\ p.name = rxName /\ p.serial = s.serial /\ p.call = s.call
    BY <2>2, PacketType
  <2>4. Wanted(s)' /\ calls'[s.call].name = s.name
    BY <1>4
  <2>. HIDE DEF p
  <2>5. p \in Replies'
    BY <2>1, <2>3, <2>4 DEF Replies, Wanted
  <2>6. toClient' \in Seq(Replies') /\ toHost' \in Seq(Requests')
    BY <1>4, <2>1, <2>5, AppendProperties
  <2>. QED  BY <1>0, <1>4, <2>1, <2>6 DEF PacketsFit, Wanted
<1>18. CASE ReadPong \/ ReadReply \/ ReadInit
  <2>1. /\ toClient # <<>> /\ toClient' = Tail(toClient)
        /\ UNCHANGED <<link, slots, toHost>>
    BY <1>18 DEF ReadPong, ReadReply, ReadInit, ClientReads
  <2>2. toClient' \in Seq(Replies')
    BY <1>4, <2>1, HeadTailProperties
  <2>. QED  BY <1>4, <1>5, <2>1, <2>2
<1>. QED
  BY <1>6, <1>8, <1>9, <1>10, <1>13, <1>14, <1>15, <1>16, <1>17, <1>18 DEF Next, Reads

-----------------------------------------------------------------------------
(* The answers *)

(* What OwnAnswer says of the call c when it holds the answer of another. *)
Mistaken(c, other) ==
  /\ calls[c].serial = calls[other].serial
  /\ IF calls[c].name = calls[other].name
       THEN /\ calls[c].session = calls[other].session
            /\ curSerialId[calls[c].name] = MaxInt
       ELSE other \in strayed

(* OwnAnswer in terms of the second call. *)
LEMMA OwnOrMistaken ==
  OwnAnswer <=> \A c \in DOMAIN calls : calls[c].done =>
                  calls[c].value = c \/ Mistaken(c, calls[c].value)
BY DEF OwnAnswer, Mistaken

(* A step that changes the answer of no more than one call. *)
LEMMA AnswersKept ==
  ASSUME ValuesGiven, OwnAnswer,
         DOMAIN calls \subseteq DOMAIN calls',
         \A d \in DOMAIN calls :
           /\ calls'[d].name = calls[d].name /\ calls'[d].serial = calls[d].serial
           /\ calls'[d].session = calls[d].session,
         \A r \in Remote : curSerialId[r] = MaxInt => curSerialId'[r] = MaxInt,
         strayed \subseteq strayed',
         NEW c, NEW v,
         \A d \in DOMAIN calls : d # c =>
           calls'[d].done = calls[d].done /\ calls'[d].value = calls[d].value,
         \A d \in DOMAIN calls' : (d \notin DOMAIN calls /\ calls'[d].done) =>
           calls'[d].value = d,
         c \in DOMAIN calls =>
           /\ calls'[c].value = v /\ v \in DOMAIN calls
           /\ calls[c].name \in Remote
           /\ v = c \/ Mistaken(c, v)
  PROVE  ValuesGiven' /\ OwnAnswer'
<1>1. ASSUME NEW d \in DOMAIN calls, NEW o \in DOMAIN calls,
             calls[d].name \in Remote, Mistaken(d, o)
      PROVE  Mistaken(d, o)'
  BY <1>1 DEF Mistaken
<1>2. ASSUME NEW d \in DOMAIN calls', calls'[d].done
      PROVE  \E o \in DOMAIN calls' :
               /\ calls'[d].value = o
               /\ o = d \/ (calls'[d].name \in Remote /\ Mistaken(d, o)')
  <2>1. CASE d \notin DOMAIN calls
    BY <1>2, <2>1
  <2>2. CASE d \in DOMAIN calls /\ d # c
    <3>1. PICK o \in DOMAIN calls : o = calls[d].value
      BY <1>2, <2>2 DEF ValuesGiven
    <3>2. o = d \/ (calls[d].name \in Remote /\ Mistaken(d, o))
      BY <1>2, <2>2, <3>1, OwnOrMistaken DEF ValuesGiven
    <3>. QED  BY <1>1, <2>2, <3>1, <3>2
  <2>3. CASE d \in DOMAIN calls /\ d = c
    BY <1>1, <2>3
  <2>. QED  BY <2>1, <2>2, <2>3
<1>3. ValuesGiven'
  BY <1>2 DEF ValuesGiven
<1>4. OwnAnswer'
  BY <1>2 DEF OwnAnswer, Mistaken
<1>. QED  BY <1>3, <1>4

(* The answer that a reply brings is one of the call's serial id.          *)
LEMMA ReplyFits ==
  ASSUME TypeInv, TableInv, PacketsFit, ReadReply
  PROVE  LET p == Head(toClient)
             c == pending[p.name][p.serial]
         IN  c \in DOMAIN calls =>
               /\ p.call \in DOMAIN calls /\ calls[c].name \in Remote
               /\ p.call = c \/ Mistaken(c, p.call)
<1>. USE DEF TypeInv, TableInv
<1>. PICK p : p = Head(toClient)
  OBVIOUS
<1>. PICK c : c = pending[p.name][p.serial]
  OBVIOUS
<1>. SUFFICES ASSUME c \in DOMAIN calls
              PROVE  /\ p.call \in DOMAIN calls /\ calls[c].name \in Remote
                     /\ p.call = c \/ Mistaken(c, p.call)
  OBVIOUS
<1>1. p \in Packets /\ p.type = "Reply" /\ p.name \in Remote
  BY ReplyRead
<1>2. p \in Replies
  <2>1. toClient # <<>>
    BY DEF ReadReply, ClientReads
  <2>. QED  BY <2>1, HeadTailProperties DEF PacketsFit
<1>3. Wanted(p) /\ (calls[p.call].name = p.name \/ p.call \in strayed)
  BY <1>1, <1>2 DEF Replies
<1>. PICK o : o = p.call
  OBVIOUS
<1>4. /\ p.serial # NoReply /\ o \in DOMAIN calls
      /\ calls[o].serial = p.serial /\ calls[o].session = session
  BY <1>3 DEF Wanted
<1>5. p.serial \in 1..MaxInt
  BY <1>4 DEF SerialsGiven
<1>6. c # NoCall
  BY Lengths DEF NoCall
<1>7. /\ calls[c].name = p.name /\ calls[c].serial = p.serial
      /\ \A d \in DOMAIN calls : (calls[d].name = p.name /\ calls[d].serial = p.serial) => d <= c
  BY <1>1, <1>5, <1>6 DEF LastEntered
<1>8. CASE calls[o].name # p.name
  BY <1>1, <1>3, <1>4, <1>7, <1>8 DEF Mistaken
<1>9. CASE calls[o].name = p.name /\ o # c
  <2>1. o <= c
    BY <1>4, <1>7, <1>9
  <2>2. calls[o].session = calls[c].session
    <3>1. calls[o].session <= calls[c].session /\ calls[c].session <= session
      BY <1>4, <2>1 DEF SessionsGrow
    <3>2. calls[o].session \in Nat /\ calls[c].session \in Nat
      <4>1. calls[o] \in CallRecords /\ calls[c] \in CallRecords
        BY <1>4, Lengths
      <4>. QED  BY <4>1, BoundsAreNaturals DEF CallRecords
    <3>. QED  BY <1>4, <3>1, <3>2
  <2>3. curSerialId[calls[c].name] = MaxInt
    BY <1>4, <1>7, <1>9 DEF SerialsGiven
  <2>. QED  BY <1>1, <1>4, <1>7, <1>9, <2>2, <2>3 DEF Mistaken
<1>. QED  BY <1>1, <1>4, <1>7, <1>8, <1>9

(* Every step keeps the answers of the calls own or mistaken. *)
LEMMA AnswersNext ==
  ASSUME TypeInv, TypeInv', AnswerInv, Next
  PROVE  ValuesGiven' /\ OwnAnswer'
<1>. USE DEF TypeInv, AnswerInv
<1>0. NoCall \notin DOMAIN calls
  BY Lengths DEF NoCall
<1>1. CASE Calm
  BY <1>0, <1>1, AnswersKept DEF Calm, Same
<1>2. ASSUME NEW call \in CallRecords, calls' = Append(calls, call),
             call.done => call.value = Len(calls) + 1,
             UNCHANGED strayed,
             \A r \in Remote : curSerialId[r] = MaxInt => curSerialId'[r] = MaxInt
      PROVE  ValuesGiven' /\ OwnAnswer'
  <2>1. /\ DOMAIN calls = 1..Len(calls) /\ Len(calls) \in Nat
        /\ DOMAIN calls' = 1..(Len(calls) + 1)
        /\ \A d \in DOMAIN calls : calls'[d] = calls[d]
        /\ calls'[Len(calls) + 1] = call
    BY <1>2, Lengths, Appended
  <2>2. DOMAIN calls \subseteq DOMAIN calls'
    BY <2>1
  <2>3. \A d \in DOMAIN calls' : (d \notin DOMAIN calls /\ calls'[d].done) => calls'[d].value = d
    BY <1>2, <2>1
  <2>. QED  BY <1>0, <1>2, <2>1, <2>2, <2>3, AnswersKept
<1>3. ASSUME NEW r \in Remote, SendWithReply(r)  PROVE ValuesGiven' /\ OwnAnswer'
  <2>. DEFINE call == NewCall(r, NextSerialId(r), FALSE, NoCall)
  <2>1. UNCHANGED strayed /\ (UNCHANGED calls \/ calls' = Append(calls, call))
    BY <1>3 DEF SendWithReply, hostVars
  <2>2. \A q \in Remote : curSerialId[q] = MaxInt => curSerialId'[q] = MaxInt
    <3>1. curSerialId' = [curSerialId EXCEPT ![r] = IF @ = MaxInt THEN @ ELSE @ + 1]
      BY <1>3, Zenon DEF SendWithReply
    <3>2. curSerialId \in [Remote -> 1..MaxInt]
      BY DEF TypeOK
    <3>. QED  BY <3>1, <3>2
  <2>3. call \in CallRecords
    BY SerialFits, Small, NewCallType
  <2>4. call.done = FALSE
    BY DEF NewCall
  <2>. HIDE DEF call
  <2>5. CASE UNCHANGED calls
    BY <1>0, <2>1, <2>2, <2>5, AnswersKept
  <2>. QED  BY <1>2, <2>1, <2>2, <2>3, <2>4, <2>5
<1>4. ASSUME NEW r \in InProcess, SendInProcess(r)  PROVE ValuesGiven' /\ OwnAnswer'
  <2>. DEFINE call == NewCall(r, NoReply, TRUE, Len(calls) + 1)
  <2>1. calls' = Append(calls, call) /\ UNCHANGED <<strayed, curSerialId>>
    BY <1>4 DEF SendInProcess, hostVars, replicaVars
  <2>2. Len(calls) + 1 \in CallIds
    BY <1>4, NextCallFits DEF SendInProcess
  <2>3. call \in CallRecords
    BY <2>2, Small, NewCallType
  <2>4. call.value = Len(calls) + 1
    BY DEF NewCall
  <2>. HIDE DEF call
  <2>. QED  BY <1>2, <2>1, <2>3, <2>4
<1>5. CASE ReadReply
  <2>. DEFINE p == Head(toClient)
              c == pending[p.name][p.serial]
  <2>1. /\ UNCHANGED <<curSerialId, strayed>>
        /\ DOMAIN calls' = DOMAIN calls
        /\ \A d \in DOMAIN calls :
             /\ calls'[d].name = calls[d].name /\ calls'[d].serial = calls[d].serial
             /\ calls'[d].session = calls[d].session
             /\ d # c => calls'[d].done = calls[d].done /\ calls'[d].value = calls[d].value
        /\ c \in DOMAIN calls => calls'[c].value = p.call
    BY <1>5, ReplyTaken
  <2>2. c \in DOMAIN calls =>
          /\ p.call \in DOMAIN calls /\ calls[c].name \in Remote
          /\ p.call = c \/ Mistaken(c, p.call)
    BY <1>5, ReplyFits
  <2>. HIDE DEF p, c
  <2>. QED  BY <2>1, <2>2, AnswersKept
<1>. QED  BY <1>1, <1>3, <1>4, <1>5, CalmSteps

(* There is no call at first. *)
LEMMA AnswerInit == Init => AnswerInv
<1>. SUFFICES ASSUME Init  PROVE AnswerInv
  OBVIOUS
<1>1. DOMAIN calls = {} /\ slots = {} /\ toHost = <<>> /\ toClient = <<>>
  BY EmptySeq, LenProperties DEF Init
<1>2. LastEntered
  <2>1. \A r \in Remote, n \in 1..MaxInt : pending[r][n] = NoCall
    BY DEF Init
  <2>. QED  BY <2>1 DEF LastEntered
<1>3. PacketsFit
  BY <1>1, EmptySeq DEF PacketsFit
<1>. QED
  BY <1>1, <1>2, <1>3
     DEF AnswerInv, TableInv, SerialsGiven, SessionsGrow, ValuesGiven, OwnAnswer

(* The invariant is inductive. *)
LEMMA AnswerNext == TypeInv /\ TypeInv' /\ AnswerInv /\ [Next]_vars => AnswerInv'
<1>1. TypeInv /\ TypeInv' /\ AnswerInv /\ Next => AnswerInv'
  BY TableNext, PacketsNext, AnswersNext DEF AnswerInv
<1>2. ASSUME AnswerInv, UNCHANGED vars  PROVE AnswerInv'
  BY <1>2 DEF vars, replicaVars, linkVars, hostVars, AnswerInv, TableInv, SerialsGiven,
     SessionsGrow, LastEntered, PacketsFit, Requests, Replies, Wanted, ValuesGiven, OwnAnswer
<1>. QED  BY <1>1, <1>2

(* A call holds its own answer.  It holds another's only if the serial ids *)
(* of its replica have run out, so that two calls of one connection share  *)
(* one, or if that answer was sent under another replica's name            *)
(* (sendCommandWithReply, onClientRead, onServerRead).                     *)
THEOREM AnswersAreOwn == Spec => []OwnAnswer
<1>1. AnswerInv => OwnAnswer
  BY DEF AnswerInv
<1>. QED  BY <1>1, AnswerInit, AnswerNext, TypeInvHolds, PTL DEF Spec

=============================================================================
