------------------------------ MODULE ChatProofs ------------------------------
(***************************************************************************)
(* Proofs about Chat: for any number of users, whatever they type and      *)
(* however the threads run, the chat is a room of module ChatRoom, so that *)
(* what is proved of ChatRoom holds with client.c.                         *)
(***************************************************************************)
EXTENDS Chat, SequenceTheorems, TLAPS

ClientTypes ==
  /\ clientEnd \in [Users -> {"none", "open", "gone"}]
  /\ cpc \in [Users -> {"connect", "enter", "type", "close", "join", "ended"}]
  /\ rpc \in [Users -> {"none", "test", "call", "recv", "done"}]
  /\ running \in [Users -> BOOLEAN]
  /\ typed \in [Users -> 0..MaxLines]
  /\ quit \in [Users -> {"no", "exit", "eof", "lost"}]
  /\ misread \in [Users -> BOOLEAN]

\* While the main thread may still send, and while the other thread is in recv, the
\* connection is open; it is made once.
OpenWhileUsed ==
  \A u \in Users :
    /\ cpc[u] = "connect" => clientEnd[u] = "none"
    /\ cpc[u] \in {"enter", "type", "close"} => clientEnd[u] = "open"
    /\ rpc[u] = "recv" => clientEnd[u] = "open"

\* The receiver runs from the name on, and is not left in recv by the end of main.
ReceiverAlongside ==
  \A u \in Users :
    /\ cpc[u] \in {"connect", "enter"} => rpc[u] = "none"
    /\ cpc[u] = "ended" => rpc[u] \in {"none", "done"}

ClientInv == ClientTypes /\ OpenWhileUsed /\ ReceiverAlongside

-----------------------------------------------------------------------------
\* The server does not touch what a client has.
LEMMA ServerLeavesClients ==
  ASSUME NEW u \in Users, ServerStep(u)
  PROVE  clientEnd' = clientEnd
<1>. USE DEF netVars, Receive, ServerSend, ServerCloses, ServerGone
<1>1. CASE Accept(u) \/ RecvName(u) \/ RecvNameFails(u) \/ AddClient(u) \/ NoSlot(u)
           \/ SendFull(u) \/ RecvLine(u) \/ RecvLineFails(u) \/ GetName(u) \/ GotName(u)
  BY <1>1 DEF Accept, RecvName, RecvNameFails, AddClient, NoSlot, SendFull, RecvLine,
              RecvLineFails, GetName, GotName
<1>2. CASE \/ FormatText(u) \/ FormatLeave(u) \/ RemoveClient(u) \/ CloseFd(u) \/ BuildList(u)
           \/ SendList(u) \/ BroadcastLock(u) \/ BroadcastSlot(u) \/ BroadcastUnlock(u)
           \/ SigPipe(u)
  BY <1>2 DEF FormatText, FormatLeave, RemoveClient, CloseFd, BuildList, SendList,
              BroadcastLock, BroadcastSlot, BroadcastUnlock, SigPipe
<1>. QED
  BY <1>1, <1>2 DEF ServerStep, Handler

LEMMA ServerNextKeeps ==
  ASSUME ClientInv, NEW u \in Users, ServerNext(u)
  PROVE  ClientInv'
<1>1. UNCHANGED <<clientEnd, clientVars>>
  BY ServerLeavesClients DEF ServerNext
<1>2. misread' \in [Users -> BOOLEAN]
  BY DEF ServerNext, ClientInv, ClientTypes, Misreads
<1>. QED
  BY <1>1, <1>2 DEF clientVars, ClientInv, ClientTypes, OpenWhileUsed, ReceiverAlongside

\* The main thread, up to its end or to the end of its loop.
LEMMA UserKeeps ==
  ASSUME ClientInv, NEW u \in Users, UserStep(u), ServerWaits
  PROVE  ClientInv'
<1>. USE DEF ServerWaits, ClientInv, ClientTypes, OpenWhileUsed, ReceiverAlongside
<1>1. CASE Connect(u)
  BY <1>1 DEF Connect
<1>2. CASE EnterName(u) \/ EnterEmptyName(u)
  BY <1>2 DEF EnterName, EnterEmptyName, ClientSend, netVars
<1>3. CASE GiveUp(u)
  BY <1>3 DEF GiveUp, ClientCloses, ClientDrops
<1>4. ASSUME NEW l \in Lines, TypeLine(u, l) PROVE ClientInv'
  <2>1. /\ cpc[u] = "type" /\ UNCHANGED <<clientEnd, rpc>>
        /\ cpc' = cpc \/ cpc' = [cpc EXCEPT ![u] = "close"]
        /\ running' = running \/ running' = [running EXCEPT ![u] = FALSE]
        /\ \/ quit' = quit \/ quit' = [quit EXCEPT ![u] = "exit"]
           \/ quit' = [quit EXCEPT ![u] = "lost"]
    BY <1>4 DEF TypeLine, ClientSend
  <2>2. typed' \in [Users -> 0..MaxLines]
    <3>1. typed[u] < MaxLines /\ typed' = [typed EXCEPT ![u] = typed[u] + 1]
      BY <1>4 DEF TypeLine
    <3>. QED
      BY <3>1, ClientAssumption DEF ClientAssumption
  <2>. QED
    BY <2>1, <2>2
<1>5. CASE TypeEmpty(u) \/ TypeEof(u)
  BY <1>5 DEF TypeEmpty, TypeEof, netVars
<1>6. CASE ClientSigPipe(u)
  BY <1>6 DEF ClientSigPipe, ClientCloses, ClientDrops
<1>. QED
  BY <1>1, <1>2, <1>3, <1>4, <1>5, <1>6 DEF UserStep

LEMMA ThreadsKeep ==
  ASSUME ClientInv, NEW u \in Users, ClosingStep(u) \/ ReceiverStep(u), ServerWaits
  PROVE  ClientInv'
<1>. USE DEF ServerWaits, ClientInv, ClientTypes, OpenWhileUsed, ReceiverAlongside, netVars
<1>1. CASE CloseSocket(u)
  BY <1>1 DEF CloseSocket, ClientCloses, ClientDrops
<1>2. CASE JoinReceiver(u)
  BY <1>2 DEF JoinReceiver
<1>3. CASE TestRunning(u) \/ CallRecv(u)
  BY <1>3 DEF TestRunning, CallRecv
<1>4. CASE RecvData(u)
  BY <1>4 DEF RecvData, DropIfClosed, ClientDrops
<1>5. CASE RecvEnd(u)
  BY <1>5 DEF RecvEnd, DropIfClosed, ClientDrops
<1>. QED
  BY <1>1, <1>2, <1>3, <1>4, <1>5 DEF ClosingStep, ReceiverStep

LEMMA ClientInitInv == Init => ClientInv
  BY ClientAssumption
     DEF ClientAssumption, Init, NetInit, ClientInit, ClientInv, ClientTypes, OpenWhileUsed,
         ReceiverAlongside

LEMMA ClientNext == ClientInv /\ [Next]_vars => ClientInv'
<1>. SUFFICES ASSUME ClientInv, [Next]_vars PROVE ClientInv'
  OBVIOUS
<1>1. CASE UNCHANGED vars
  BY <1>1 DEF vars, netVars, clientVars, ClientInv, ClientTypes, OpenWhileUsed,
              ReceiverAlongside
<1>2. CASE Next
  BY <1>2, ServerNextKeeps, UserKeeps, ThreadsKeep
     DEF Next, UserNext, ClosingNext, ReceiverNext
<1>. QED
  BY <1>1, <1>2

-----------------------------------------------------------------------------
\* What any client of ChatRoom may do to the connection of u, or nothing.
AsAnyClient(u) ==
  \/ AnyConnect(u) \/ AnyReceive(u) \/ AnyLeave(u)
  \/ \E segment \in Lines \cup {u} : AnySend(u, segment)
  \/ UNCHANGED netVars

\* Each step of the main thread sends, leaves or lets the connection be.
LEMMA UserFits ==
  ASSUME ClientInv, NEW u \in Users, UserStep(u)
  PROVE  AsAnyClient(u)
<1>. USE DEF ClientInv, OpenWhileUsed, AsAnyClient
<1>1. CASE Connect(u)
  BY <1>1 DEF Connect, AnyConnect
<1>2. CASE EnterName(u)
  BY <1>2 DEF EnterName, AnySend
<1>3. CASE EnterEmptyName(u) \/ TypeEmpty(u) \/ TypeEof(u)
  BY <1>3 DEF EnterEmptyName, TypeEmpty, TypeEof
<1>4. CASE GiveUp(u)
  BY <1>4 DEF GiveUp, AnyLeave, netVars
<1>5. ASSUME NEW l \in Lines, TypeLine(u, l) PROVE AsAnyClient(u)
  BY <1>5 DEF TypeLine, AnySend
<1>6. CASE ClientSigPipe(u)
  BY <1>6 DEF ClientSigPipe, AnyLeave
<1>. QED
  BY <1>1, <1>2, <1>3, <1>4, <1>5, <1>6 DEF UserStep

\* The connection is dropped once, by whichever thread is the last to use it.
LEMMA ThreadsFit ==
  ASSUME ClientInv, NEW u \in Users, ClosingStep(u) \/ ReceiverStep(u)
  PROVE  AsAnyClient(u)
<1>. USE DEF ClientInv, OpenWhileUsed, AsAnyClient
<1>1. CASE CloseSocket(u)
  BY <1>1 DEF CloseSocket, AnyLeave, netVars
<1>2. CASE JoinReceiver(u) \/ TestRunning(u) \/ CallRecv(u)
  BY <1>2 DEF JoinReceiver, TestRunning, CallRecv
<1>3. CASE RecvData(u)
  BY <1>3 DEF RecvData, DropIfClosed, AnyReceive
<1>4. CASE RecvEnd(u)
  BY <1>4 DEF RecvEnd, DropIfClosed, ClientCloses, AnyLeave, netVars
<1>. QED
  BY <1>1, <1>2, <1>3, <1>4 DEF ClosingStep, ReceiverStep

\* Where the two threads of each client are, and that the connection is open as long as
\* one of them uses it.  (client.c:14-32, 36-116)
THEOREM ClientInvariant == Spec => []ClientInv
<1>. QED
  BY ClientInitInv, ClientNext, PTL DEF Spec

-----------------------------------------------------------------------------
\* The server of the chat is the server of the room.
LEMMA SameDescriptors == Room!Fds = Fds
<1>1. Room!Cardinality(Users) = Cardinality(Users)
  BY DEF Room!Cardinality, Cardinality
<1>. QED
  BY <1>1 DEF Fds, Room!Fds

LEMMA SameServer ==
  ASSUME NEW u \in Users, ServerStep(u)
  PROVE  Room!ServerStep(u)
<1>1. Handler(u) => Room!Handler(u)
  BY DEF Handler, RecvName, RecvNameFails, AddClient, NoSlot, SendFull, RecvLine, RecvLineFails,
         GetName, GotName, FormatText, FormatLeave, RemoveClient, CloseFd, BuildList, SendList,
         BroadcastLock, BroadcastSlot, BroadcastUnlock, SigPipe, Receive, FirstLine, First,
         EndOfStream, Message, FreeSlots, Slots, SlotsOf, Goto, ClearBuffer, netVars, NameReturned,
         ServerSend, ServerCloses, ServerGone, LockMutex, Addressed, Owners, Skipped, SendsTo,
         Room!Handler, Room!RecvName, Room!RecvNameFails, Room!AddClient, Room!NoSlot,
         Room!SendFull, Room!RecvLine, Room!RecvLineFails, Room!GetName, Room!GotName,
         Room!FormatText, Room!FormatLeave, Room!RemoveClient, Room!CloseFd, Room!BuildList,
         Room!SendList, Room!BroadcastLock, Room!BroadcastSlot, Room!BroadcastUnlock, Room!SigPipe,
         Room!Receive, Room!FirstLine, Room!First, Room!EndOfStream, Room!Message, Room!FreeSlots,
         Room!Slots, Room!SlotsOf, Room!Goto, Room!ClearBuffer, Room!netVars, Room!NameReturned,
         Room!ServerSend, Room!ServerCloses, Room!ServerGone, Room!LockMutex, Room!Addressed,
         Room!Owners, Room!Skipped, Room!SendsTo
<1>2. Accept(u) => Room!Accept(u)
  <2>1. First(Fds \ {fd[v] : v \in Users}) = Room!First(Room!Fds \ {fd[v] : v \in Users})
    BY SameDescriptors DEF First, Room!First
  <2>. QED
    BY <2>1 DEF Accept, Room!Accept, Goto, Room!Goto
<1>. QED
  BY <1>1, <1>2 DEF ServerStep, Room!ServerStep

\* What a client does to its connection while the server waits is a step of the room.
LEMMA ClientInRoom ==
  ASSUME NEW u \in Users, AsAnyClient(u), ServerWaits
  PROVE  [Room!Next]_(Room!vars)
<1>. USE DEF ServerWaits, serverVars, Room!serverVars, Room!record
<1>1. CASE AnyConnect(u) \/ AnyReceive(u) \/ AnyLeave(u)
  <2>1. Room!Client(u)
    BY <1>1 DEF AnyConnect, AnyReceive, AnyLeave, ClientDrops, ClientCloses, Room!Client,
                Room!AnyConnect, Room!AnyReceive, Room!AnyLeave, Room!ClientDrops,
                Room!ClientCloses
  <2>. QED
    BY <2>1 DEF Room!Next
<1>2. ASSUME NEW segment \in Lines \cup {u}, AnySend(u, segment)
      PROVE  Room!Next
  <2>1. Room!Send(u, segment)
    BY <1>2 DEF AnySend, ClientSend, Room!Send, Room!AnySend, Room!ClientSend
  <2>. QED
    BY <2>1 DEF Room!Next
<1>3. CASE UNCHANGED netVars
  BY <1>3 DEF netVars, Room!vars, Room!netVars
<1>. QED
  BY <1>1, <1>2, <1>3 DEF AsAnyClient

LEMMA StartsAsRoom == Init => Room!Init
  BY DEF Init, NetInit, ServerInit, Room!Init, Room!NetInit, Room!ServerInit, Slots,
         Room!Slots, NoMessage, Room!NoMessage

\* Whatever is typed, and however a client ends, the chat is a room: client.c connects
\* once, sends and receives only while it is connected, and drops its connection once,
\* and what the server does with it is what it does with any client.
\* (client.c:14-32, 36-116)
THEOREM ClientsFit == Spec => ClientsFitRoom
<1>1. ClientInv /\ [Next]_vars => [Room!Next]_(Room!vars)
  <2>. SUFFICES ASSUME ClientInv, [Next]_vars PROVE [Room!Next]_(Room!vars)
    OBVIOUS
  <2>1. CASE UNCHANGED vars
    BY <2>1 DEF vars, netVars, serverVars, Room!vars, Room!netVars, Room!serverVars, Room!record
  <2>2. ASSUME NEW u \in Users, ServerNext(u) PROVE Room!Next
    BY <2>2, SameServer DEF ServerNext, Room!Server, Room!Next
  <2>3. ASSUME NEW u \in Users, UserNext(u) \/ ClosingNext(u) \/ ReceiverNext(u)
        PROVE  [Room!Next]_(Room!vars)
    <3>1. AsAnyClient(u) /\ ServerWaits
      BY <2>3, UserFits, ThreadsFit DEF UserNext, ClosingNext, ReceiverNext
    <3>. QED
      BY <3>1, ClientInRoom
  <2>. QED
    BY <2>1, <2>2, <2>3 DEF Next
<1>. QED
  BY <1>1, StartsAsRoom, ClientInvariant, PTL DEF Spec, ClientsFitRoom, Room!Spec

-----------------------------------------------------------------------------
Segments == Users \cup Lines

\* A step of the server sends one segment, receives some, or changes its own ends.
LEMMA ServerOnNet ==
  ASSUME NEW u \in Users, ServerStep(u)
  PROVE  \/ UNCHANGED netVars
         \/ Receive(u)
         \/ \E v \in Users : ServerSend(v)
         \/ UNCHANGED <<up, down, clientEnd>> /\ (ServerCloses(u) \/ ServerGone)
         \/ /\ UNCHANGED <<up, down, clientEnd, reset>>
            /\ serverEnd' = [serverEnd EXCEPT ![u] = "open"]
<1>1. CASE \/ RecvNameFails(u) \/ AddClient(u) \/ NoSlot(u) \/ RecvLineFails(u) \/ GetName(u)
           \/ GotName(u) \/ FormatText(u) \/ FormatLeave(u) \/ RemoveClient(u) \/ BuildList(u)
           \/ BroadcastLock(u) \/ BroadcastUnlock(u)
  BY <1>1 DEF RecvNameFails, AddClient, NoSlot, RecvLineFails, GetName, GotName, FormatText,
              FormatLeave, RemoveClient, BuildList, BroadcastLock, BroadcastUnlock
<1>2. CASE RecvName(u) \/ RecvLine(u)
  BY <1>2 DEF RecvName, RecvLine
<1>3. CASE SendFull(u) \/ SendList(u)
  BY <1>3 DEF SendFull, SendList
<1>4. CASE BroadcastSlot(u)
  BY <1>4 DEF BroadcastSlot, Owners
<1>5. CASE CloseFd(u) \/ SigPipe(u)
  BY <1>5 DEF CloseFd, SigPipe
<1>6. CASE Accept(u)
  BY <1>6 DEF Accept
<1>. QED
  BY <1>1, <1>2, <1>3, <1>4, <1>5, <1>6 DEF ServerStep, Handler

Ends == {"client", "server"}

\* An end that is told of a reset is one of the two.
LEMMA ResetTypes ==
  ASSUME reset \in [Users -> SUBSET Ends], NEW v \in Users, NEW end \in Ends,
         reset' = reset \/ reset' = [reset EXCEPT ![v] = reset[v] \cup {end}]
  PROVE  reset' \in [Users -> SUBSET Ends]
<1>1. reset[v] \cup {end} \in SUBSET Ends
  OBVIOUS
<1>. QED
  BY <1>1

\* What has been received is taken from the front of the stream.
LEMMA ReceiveTypes ==
  ASSUME NetTypeOK(Segments), NEW u \in Users, Receive(u)
  PROVE  NetTypeOK(Segments)'
<1>1. PICK n \in 1..RecvMax :
        n <= Len(up[u]) /\ up' = [up EXCEPT ![u] = SubSeq(up[u], n + 1, Len(up[u]))]
  BY DEF Receive
<1>2. n \in Nat /\ up[u] \in Seq(Segments) /\ Len(up[u]) \in Nat /\ Len(up[u]) <= SocketBuffer
  BY <1>1, ServerAssumption DEF ServerAssumption, NetTypeOK
<1>. DEFINE rest == SubSeq(up[u], n + 1, Len(up[u]))
<1>3. rest \in Seq(Segments) /\ Len(rest) \in Nat /\ Len(rest) <= Len(up[u])
  BY <1>1, <1>2, SubSeqProperties
<1>4. Len(rest) <= SocketBuffer
  BY <1>2, <1>3, BufferAssumption DEF BufferAssumption
<1>. HIDE DEF rest
<1>5. up' = [up EXCEPT ![u] = rest]
  BY <1>1 DEF rest
<1>. QED
  BY <1>3, <1>4, <1>5 DEF Receive, NetTypeOK

LEMMA ClientSendTypes ==
  ASSUME NetTypeOK(Segments), NEW u \in Users, NEW segment \in Segments, ClientSend(u, segment)
  PROVE  NetTypeOK(Segments)'
<1>1. CASE serverEnd[u] = "gone"
  BY <1>1, ResetTypes DEF ClientSend, NetTypeOK, Ends
<1>2. CASE serverEnd[u] # "gone"
  <2>. DEFINE more == Append(up[u], segment)
  <2>1. up[u] \in Seq(Segments) /\ Len(up[u]) < SocketBuffer
    BY <1>2 DEF ClientSend, NetTypeOK
  <2>2. more \in Seq(Segments) /\ Len(more) <= SocketBuffer
    BY <2>1, AppendProperties, BufferAssumption DEF BufferAssumption
  <2>. HIDE DEF more
  <2>3. up' = [up EXCEPT ![u] = more] /\ UNCHANGED <<down, clientEnd, serverEnd, reset>>
    BY <1>2 DEF ClientSend, more
  <2>. QED
    BY <2>2, <2>3 DEF NetTypeOK
<1>. QED
  BY <1>1, <1>2

LEMMA ServerKeepsNet ==
  ASSUME NetTypeOK(Segments), NEW u \in Users, ServerStep(u)
  PROVE  NetTypeOK(Segments)'
<1>1. CASE UNCHANGED netVars
  BY <1>1 DEF netVars, NetTypeOK
<1>2. CASE Receive(u)
  BY <1>2, ReceiveTypes
<1>3. ASSUME NEW v \in Users, ServerSend(v) PROVE NetTypeOK(Segments)'
  <2>1. UNCHANGED <<up, clientEnd, serverEnd>>
    BY <1>3 DEF ServerSend
  <2>2. down' \in [Users -> 0..SocketBuffer]
    <3>1. down \in [Users -> 0..SocketBuffer] /\ SocketBuffer \in Nat
      BY BufferAssumption DEF NetTypeOK, BufferAssumption
    <3>2. \/ down[v] < SocketBuffer /\ down' = [down EXCEPT ![v] = down[v] + 1]
          \/ down' = down
      BY <1>3 DEF ServerSend
    <3>. QED
      BY <3>1, <3>2
  <2>3. reset' \in [Users -> SUBSET Ends]
    BY <1>3, ResetTypes DEF ServerSend, NetTypeOK, Ends
  <2>. QED
    BY <2>1, <2>2, <2>3 DEF NetTypeOK, Ends
<1>4. CASE UNCHANGED <<up, down, clientEnd>> /\ (ServerCloses(u) \/ ServerGone)
  <2>1. serverEnd' \in [Users -> {"none", "open", "gone"}]
    BY <1>4 DEF ServerCloses, ServerGone, NetTypeOK
  <2>2. reset' \in [Users -> SUBSET Ends]
    <3>1. CASE ServerCloses(u)
      BY <3>1, ResetTypes DEF ServerCloses, NetTypeOK, Ends
    <3>2. CASE ServerGone
      <4>1. reset' = [v \in Users |-> IF up[v] # << >> THEN reset[v] \cup {"client"}
                                                       ELSE reset[v]]
        BY <3>2 DEF ServerGone
      <4>2. \A v \in Users : reset[v] \subseteq Ends /\ "client" \in Ends
        BY DEF NetTypeOK, Ends
      <4>3. \A v \in Users : reset'[v] \in SUBSET Ends
        BY <4>1, <4>2
      <4>. QED
        BY <4>1, <4>3
    <3>. QED
      BY <1>4, <3>1, <3>2
  <2>. QED
    BY <1>4, <2>1, <2>2 DEF NetTypeOK, Ends
<1>5. CASE /\ UNCHANGED <<up, down, clientEnd, reset>>
           /\ serverEnd' = [serverEnd EXCEPT ![u] = "open"]
  BY <1>5 DEF NetTypeOK
<1>. QED
  BY <1>1, <1>2, <1>3, <1>4, <1>5, ServerOnNet

LEMMA ClientsKeepNet ==
  ASSUME NetTypeOK(Segments), NEW u \in Users, AsAnyClient(u)
  PROVE  NetTypeOK(Segments)'
<1>. USE DEF NetTypeOK
<1>1. CASE AnyConnect(u)
  BY <1>1 DEF AnyConnect
<1>2. CASE AnyReceive(u)
  <2>1. down' \in [Users -> 0..SocketBuffer]
    BY <1>2, BufferAssumption DEF AnyReceive, BufferAssumption
  <2>2. /\ clientEnd' \in [Users -> {"none", "open", "gone"}]
        /\ reset' \in [Users -> SUBSET Ends]
    <3>1. CASE UNCHANGED <<clientEnd, reset>>
      BY <3>1 DEF Ends
    <3>2. CASE ClientDrops(u, down[u] - 1)
      BY <3>2, ResetTypes DEF ClientDrops, Ends
    <3>. QED
      BY <1>2, <3>1, <3>2 DEF AnyReceive
  <2>. QED
    BY <1>2, <2>1, <2>2 DEF AnyReceive, Ends
<1>3. CASE AnyLeave(u)
  BY <1>3, ResetTypes DEF AnyLeave, ClientCloses, ClientDrops, Ends
<1>4. ASSUME NEW segment \in Lines \cup {u}, AnySend(u, segment) PROVE NetTypeOK(Segments)'
  BY <1>4, ClientSendTypes DEF AnySend, Segments
<1>5. CASE UNCHANGED netVars
  BY <1>5 DEF netVars
<1>. QED
  BY <1>1, <1>2, <1>3, <1>4, <1>5 DEF AsAnyClient

\* No connection holds more than its buffer, in either direction, and what is in it are
\* names and lines; the threads of the clients are where client.c has places.
\* (server.c:22-30, 78-144, client.c:14-32, 36-116)
THEOREM ChatTypeCorrect == Spec => []TypeOK
<1>1. Init => NetTypeOK(Segments)
  BY BufferAssumption DEF BufferAssumption, Init, NetInit, NetTypeOK
<1>2. ClientInv /\ NetTypeOK(Segments) /\ [Next]_vars => NetTypeOK(Segments)'
  <2>. SUFFICES ASSUME ClientInv, NetTypeOK(Segments), [Next]_vars PROVE NetTypeOK(Segments)'
    OBVIOUS
  <2>1. CASE UNCHANGED vars
    BY <2>1 DEF vars, netVars, NetTypeOK
  <2>2. CASE Next
    BY <2>2, UserFits, ThreadsFit, ServerKeepsNet, ClientsKeepNet
       DEF Next, ServerNext, UserNext, ClosingNext, ReceiverNext
  <2>. QED
    BY <2>1, <2>2
<1>3. ClientInv /\ NetTypeOK(Segments) => TypeOK
  BY DEF ClientInv, ClientTypes, TypeOK, Segments
<1>. QED
  BY <1>1, <1>2, <1>3, ClientInvariant, PTL DEF Spec
-----------------------------------------------------------------------------
\* What is proved of ChatRoom, for the room that the chat is.
RoomTheorems == INSTANCE ChatRoomProofs

LEMMA SameSets ==
  /\ \A S : RoomTheorems!Cardinality(S) = Room!Cardinality(S)
  /\ \A S : RoomTheorems!IsFiniteSet(S) <=> IsFiniteSet(S)
<1>1. \A S : RoomTheorems!Cardinality(S) = Room!Cardinality(S)
  BY DEF Room!Cardinality, RoomTheorems!Cardinality
<1>2. \A S : RoomTheorems!IsFiniteSet(S) <=> IsFiniteSet(S)
  BY DEF IsFiniteSet, RoomTheorems!IsFiniteSet
<1>. QED
  BY <1>1, <1>2

LEMMA SameDescriptorsToo == Room!Fds = RoomTheorems!Fds
  BY SameSets DEF Room!Fds, RoomTheorems!Fds

LEMMA SameRoomServer ==
  ASSUME NEW u \in Users, Room!Server(u)
  PROVE  RoomTheorems!Server(u)
<1>1. Room!Handler(u) => RoomTheorems!Handler(u)
  BY DEF Room!Handler, Room!RecvName, Room!RecvNameFails, Room!AddClient, Room!NoSlot,
         Room!SendFull, Room!RecvLine, Room!RecvLineFails, Room!GetName, Room!GotName,
         Room!FormatText, Room!FormatLeave, Room!RemoveClient, Room!CloseFd, Room!BuildList,
         Room!SendList, Room!BroadcastLock, Room!BroadcastSlot, Room!BroadcastUnlock, Room!SigPipe,
         Room!Receive, Room!FirstLine, Room!First, Room!EndOfStream, Room!Message, Room!FreeSlots,
         Room!Slots, Room!SlotsOf, Room!Goto, Room!ClearBuffer, Room!netVars, Room!NameReturned,
         Room!ServerSend, Room!ServerCloses, Room!ServerGone, Room!LockMutex, Room!Addressed,
         Room!Owners, Room!Skipped, Room!SendsTo, RoomTheorems!Handler, RoomTheorems!RecvName,
         RoomTheorems!RecvNameFails, RoomTheorems!AddClient, RoomTheorems!NoSlot,
         RoomTheorems!SendFull, RoomTheorems!RecvLine, RoomTheorems!RecvLineFails,
         RoomTheorems!GetName, RoomTheorems!GotName, RoomTheorems!FormatText,
         RoomTheorems!FormatLeave, RoomTheorems!RemoveClient, RoomTheorems!CloseFd,
         RoomTheorems!BuildList, RoomTheorems!SendList, RoomTheorems!BroadcastLock,
         RoomTheorems!BroadcastSlot, RoomTheorems!BroadcastUnlock, RoomTheorems!SigPipe,
         RoomTheorems!Receive, RoomTheorems!FirstLine, RoomTheorems!First, RoomTheorems!EndOfStream,
         RoomTheorems!Message, RoomTheorems!FreeSlots, RoomTheorems!Slots, RoomTheorems!SlotsOf,
         RoomTheorems!Goto, RoomTheorems!ClearBuffer, RoomTheorems!netVars,
         RoomTheorems!NameReturned, RoomTheorems!ServerSend, RoomTheorems!ServerCloses,
         RoomTheorems!ServerGone, RoomTheorems!LockMutex, RoomTheorems!Addressed,
         RoomTheorems!Owners, RoomTheorems!Skipped, RoomTheorems!SendsTo
<1>2. Room!Accept(u) => RoomTheorems!Accept(u)
  <2>1. Room!First(Room!Fds \ {fd[v] : v \in Users})
          = RoomTheorems!First(RoomTheorems!Fds \ {fd[v] : v \in Users})
    BY SameDescriptorsToo DEF Room!First, RoomTheorems!First
  <2>. QED
    BY <2>1 DEF Room!Accept, RoomTheorems!Accept, Room!Goto, RoomTheorems!Goto
<1>3. Room!Record(u) => RoomTheorems!Record(u)
  BY DEF Room!Record, RoomTheorems!Record, Room!record, RoomTheorems!record,
         Room!Audience, RoomTheorems!Audience, Room!InTable, RoomTheorems!InTable,
         Room!Registered, RoomTheorems!Registered, Room!SendsTo, RoomTheorems!SendsTo,
         Room!Addressed, RoomTheorems!Addressed, Room!Owners, RoomTheorems!Owners,
         Room!Skipped, RoomTheorems!Skipped
<1>. QED
  BY <1>1, <1>2, <1>3
     DEF Room!Server, RoomTheorems!Server, Room!ServerStep, RoomTheorems!ServerStep

LEMMA SameRoom == [Room!Next]_(Room!vars) => [RoomTheorems!Next]_(RoomTheorems!vars)
<1>1. UNCHANGED Room!vars => UNCHANGED RoomTheorems!vars
  BY DEF Room!vars, RoomTheorems!vars, Room!netVars, RoomTheorems!netVars, Room!serverVars,
         RoomTheorems!serverVars, Room!record, RoomTheorems!record
<1>2. ASSUME NEW u \in Users
      PROVE  /\ Room!Client(u) => RoomTheorems!Client(u)
             /\ \A segment : Room!Send(u, segment) => RoomTheorems!Send(u, segment)
  BY DEF Room!Client, RoomTheorems!Client, Room!Send, RoomTheorems!Send,
         Room!AnyConnect, RoomTheorems!AnyConnect, Room!AnyReceive, RoomTheorems!AnyReceive,
         Room!AnyLeave, RoomTheorems!AnyLeave, Room!AnySend, RoomTheorems!AnySend,
         Room!ClientSend, RoomTheorems!ClientSend, Room!ClientDrops, RoomTheorems!ClientDrops,
         Room!ClientCloses, RoomTheorems!ClientCloses, Room!serverVars, RoomTheorems!serverVars,
         Room!record, RoomTheorems!record
<1>. QED
  BY <1>1, <1>2, SameRoomServer DEF Room!Next, RoomTheorems!Next

\* With client.c at the other ends, too, the table lists the connections that have a
\* handler, each in one slot, and every client hears every broadcast, in one order.
\* (server.c:22-30, 46-71, 141-143, client.c:14-32, 36-116)
THEOREM RoomHolds == Spec => [](Room!TableIsCurrent /\ Room!HeardEverything)
<1>1. Room!Init => RoomTheorems!Init
  BY DEF Room!Init, RoomTheorems!Init, Room!NetInit, RoomTheorems!NetInit, Room!ServerInit,
         RoomTheorems!ServerInit, Room!Slots, RoomTheorems!Slots, Room!NoMessage,
         RoomTheorems!NoMessage
<1>2. RoomTheorems!Spec => []RoomTheorems!TableIsCurrent
  BY RoomTheorems!TableStaysCurrent, SameSets, BufferAssumption, ServerAssumption,
     CommandsAssumption DEF BufferAssumption, ServerAssumption, CommandsAssumption
<1>3. RoomTheorems!Spec => []RoomTheorems!HeardEverything
  BY RoomTheorems!EverybodyHears, SameSets, BufferAssumption, ServerAssumption,
     CommandsAssumption DEF BufferAssumption, ServerAssumption, CommandsAssumption
<1>4. RoomTheorems!HeardEverything => Room!HeardEverything
  BY DEF Room!HeardEverything, RoomTheorems!HeardEverything, Room!InTable, RoomTheorems!InTable,
         Room!Registered, RoomTheorems!Registered
<1>5. RoomTheorems!TableIsCurrent => Room!TableIsCurrent
  <2>1. \A f : /\ Room!SlotsOf(f) = RoomTheorems!SlotsOf(f)
              /\ {u \in Users : fd[u] = f /\ Room!InTable(u)}
                   = {u \in Users : fd[u] = f /\ RoomTheorems!InTable(u)}
    BY DEF Room!SlotsOf, RoomTheorems!SlotsOf, Room!Slots, RoomTheorems!Slots, Room!InTable,
           RoomTheorems!InTable, Room!Registered, RoomTheorems!Registered
  <2>. QED
    BY <2>1, SameDescriptorsToo, SameSets DEF Room!TableIsCurrent, RoomTheorems!TableIsCurrent
<1>. QED
  BY <1>1, <1>2, <1>3, <1>4, <1>5, SameRoom, ClientsFit, PTL
     DEF ClientsFitRoom, Room!Spec, RoomTheorems!Spec
=============================================================================
