---------------------------- MODULE ChatRoomProofs ----------------------------
(***************************************************************************)
(* Machine-checked proofs about ChatRoom: for any number of clients that   *)
(* may do anything, any size of the table and of the connections.          *)
(***************************************************************************)
EXTENDS ChatRoom, SequenceTheorems, FiniteSetTheorems, WellFoundedInduction, TLAPS

\* The places where a handler holds clients_mutex.
Holding == {"copyText", "copyLeave", "sending"}

Kinds == {"none", "joined", "text", "left"}
Messages == [kind : Kinds, name : Seq(Segments) \cup {Torn, <<"Unknown">>},
             from : Users \cup {Free}]

MoreTypes ==
  /\ buf \in [Users -> Seq(Segments)]
  /\ msg \in [Users -> Messages]
  /\ owed \in [Users -> Seq(Messages)]
  /\ stray \in BOOLEAN

\* A connection has a descriptor from accept to close, and its handler runs only
\* after accept.
Descriptors ==
  /\ \A u \in Users : fd[u] = 0 <=> hpc[u] \in {"none", "closed"}
  /\ alive => \A u \in Users : serverEnd[u] = "none" => hpc[u] = "none"

\* A handler that removes its client has made its leave message.
LeavesLast == \A u \in Users : hpc[u] = "remove" => msg[u].kind = "left"

\* Exactly the handler that holds the mutex is at a place where it is held.
MutexHeld == \A u \in Users : mutex = u <=> hpc[u] \in Holding

\* TableIsCurrent, slot by slot: every slot has its user, every user its slot, and
\* no two slots have the same descriptor.
Listed ==
  /\ \A s \in Slots : clients[s].active =>
       \E u \in Users : InTable(u) /\ fd[u] = clients[s].sockfd
  /\ \A u \in Users : InTable(u) => SlotsOf(fd[u]) # {}
  /\ \A s, t \in Slots :
       clients[s].active /\ clients[t].active /\ clients[s].sockfd = clients[t].sockfd
         => s = t

\* The broadcast of the handler of u has not come to the slot of v yet.
Pending(u, v) ==
  /\ hpc[u] = "sending"
  /\ v \in Audience(u)
  /\ \E s \in SlotsOf(fd[v]) : s >= slot[u]

\* A client is owed exactly the broadcast that has not come to its slot yet.
Owing ==
  \A v \in Users :
    /\ \A u \in Users : Pending(u, v) => owed[v] = <<msg[u]>>
    /\ (\A u \in Users : ~Pending(u, v)) => owed[v] = << >>

RoomInv ==
  /\ TypeOK /\ MoreTypes
  /\ Descriptors /\ LeavesLast /\ MutexHeld /\ Listed
  /\ alive => Owing
  /\ HeardEverything

\* A step that changes neither the table nor who is in it nor any broadcast.
Quiet ==
  /\ UNCHANGED <<clients, owed, stray>>
  /\ \A v \in Users :
       /\ InTable(v)' <=> InTable(v)
       /\ InTable(v) => fd'[v] = fd[v]
       /\ hpc'[v] = "sending" <=> hpc[v] = "sending"
       /\ hpc[v] = "sending" => msg'[v] = msg[v] /\ slot'[v] = slot[v]

-----------------------------------------------------------------------------
\* A set of numbers that is not empty has a least one, and First picks it.
LEMMA FirstIsLeast ==
  ASSUME NEW S \in SUBSET Nat, S # {}
  PROVE  First(S) \in S
<1>1. PICK x \in S : \A y \in S : <<y, x>> \notin OpToRel(<, Nat)
  BY WFMin, NatLessThanWellFounded, Zenon
<1>2. \A y \in S : ~(y < x)
  BY <1>1, Zenon DEF OpToRel
<1>3. \A y \in S : x <= y
  BY <1>2
<1>. QED
  BY <1>3 DEF First

\* There is a descriptor for every connection.
LEMMA DescriptorLeft ==
  ASSUME ServerAssumption, fd \in [Users -> Nat], NEW u \in Users, fd[u] = 0
  PROVE  First(Fds \ {fd[v] : v \in Users}) \in Fds \ {fd[v] : v \in Users}
<1>. DEFINE Others == Users \ {u}
            N == Cardinality(Users)
            owner == [f \in Fds |-> CHOOSE v \in Others : fd[v] = f]
<1>1. IsFiniteSet(Users) /\ N \in Nat
  BY FS_CardinalityType DEF ServerAssumption
<1>2. IsFiniteSet(Others) /\ Cardinality(Others) = N - 1
  BY <1>1, FS_RemoveElement
<1>3. IsFiniteSet(Fds) /\ Cardinality(Fds) = N
  BY <1>1, FS_Interval DEF Fds
<1>4. ASSUME Fds \subseteq {fd[v] : v \in Others} PROVE FALSE
  <2>1. owner \in [Fds -> Others] /\ \A f \in Fds : fd[owner[f]] = f
    BY <1>4
  <2>2. Cardinality(Others) < Cardinality(Fds)
    BY <1>1, <1>2, <1>3
  <2>3. \E f, g \in Fds : f # g /\ owner[f] = owner[g]
    <3>. HIDE DEF Others, owner
    <3>. QED  BY <1>2, <1>3, <2>1, <2>2, FS_PigeonHole
  <2>. QED
    BY <2>1, <2>3
<1>5. {fd[v] : v \in Users} \subseteq {fd[v] : v \in Others} \cup {0}
  OBVIOUS
<1>6. Fds \ {fd[v] : v \in Users} # {}
  BY <1>1, <1>4, <1>5 DEF Fds
<1>. QED
  BY <1>1, <1>6, FirstIsLeast DEF Fds

\* The slots that First picks.
LEMMA FirstSlot ==
  /\ FreeSlots # {} => First(FreeSlots) \in FreeSlots
  /\ \A f : SlotsOf(f) # {} => First(SlotsOf(f)) \in SlotsOf(f)
<1>1. Slots \subseteq Nat
  BY ServerAssumption DEF ServerAssumption, Slots
<1>. QED
  BY <1>1, FirstIsLeast DEF FreeSlots, SlotsOf

-----------------------------------------------------------------------------
\* What a quiet step keeps.
LEMMA QuietKeeps ==
  ASSUME RoomInv, alive, Quiet
  PROVE  Listed' /\ Owing'
<1>1. Listed'
  BY DEF RoomInv, Listed, Quiet, SlotsOf
<1>2. \A u, v \in Users : Pending(u, v)' <=> Pending(u, v)
  BY DEF Quiet, Pending, Audience, SlotsOf
<1>3. Owing'
  BY <1>2 DEF RoomInv, Owing, Quiet, Pending
<1>. QED
  BY <1>1, <1>3

\* Nobody is owed anything while the mutex is free.
LEMMA NothingOwed ==
  ASSUME Owing, MutexHeld, mutex = Free
  PROVE  \A v \in Users : owed[v] = << >>
  BY ServerAssumption DEF ServerAssumption, Owing, MutexHeld, Pending, Holding

\* HeardEverything follows from the rest while the server is alive.
LEMMA HeardFollows ==
  ASSUME Owing', MutexHeld', ~stray'
  PROVE  HeardEverything'
  BY ServerAssumption DEF ServerAssumption, Owing, MutexHeld, Pending, Holding, HeardEverything

-----------------------------------------------------------------------------
\* What is before the first newline is a part of the buffer.
LEMMA FirstLineType ==
  ASSUME NEW b \in Seq(Segments)
  PROVE  FirstLine(b) \in Seq(Segments)
<1>. DEFINE ends == {i \in 1..Len(b) : b[i] = Newline}
<1>1. CASE ends = {}
  BY <1>1 DEF FirstLine
<1>2. CASE ends # {}
  <2>1. First(ends) \in ends
    <3>1. ends \in SUBSET Nat
      OBVIOUS
    <3>. HIDE DEF ends
    <3>. QED
      BY <1>2, <3>1, FirstIsLeast
  <2>2. First(ends) - 1 \in Int /\ First(ends) - 1 <= Len(b) /\ Len(b) \in Nat
    BY <2>1
  <2>3. \A i \in 1..(First(ends) - 1) : b[i] \in Segments
    BY <2>2
  <2>. HIDE DEF ends
  <2>4. SubSeq(b, 1, First(ends) - 1) \in Seq(Segments)
    BY <2>2, <2>3, SubSeqProperties
  <2>. QED
    BY <1>2, <2>4 DEF FirstLine, ends
<1>. QED
  BY <1>1, <1>2

\* What the connections do keeps their types.
LEMMA ReceiveTypes ==
  ASSUME NetTypeOK(Segments), NEW u \in Users, Receive(u), buf \in [Users -> Seq(Segments)]
  PROVE  NetTypeOK(Segments)' /\ buf' \in [Users -> Seq(Segments)]
<1>1. PICK k \in 1..RecvMax :
        /\ k <= Len(up[u])
        /\ buf' = [buf EXCEPT ![u] = FirstLine(SubSeq(up[u], 1, k))]
        /\ up' = [up EXCEPT ![u] = SubSeq(@, k + 1, Len(@))]
  BY DEF Receive
<1>2. k \in Nat /\ k >= 1 /\ up[u] \in Seq(Segments) /\ Len(up[u]) \in Nat
  BY <1>1, ServerAssumption DEF ServerAssumption, NetTypeOK
<1>3. FirstLine(SubSeq(up[u], 1, k)) \in Seq(Segments)
  <2>1. SubSeq(up[u], 1, k) \in Seq(Segments)
    BY <1>1, <1>2, SubSeqProperties
  <2>. QED
    BY <2>1, FirstLineType
<1>4. SubSeq(up[u], k + 1, Len(up[u])) \in Seq(Segments)
      /\ Len(SubSeq(up[u], k + 1, Len(up[u]))) <= Len(up[u])
  BY <1>1, <1>2, SubSeqProperties
<1>5. up' \in [Users -> Seq(Segments)] /\ \A v \in Users : Len(up'[v]) <= SocketBuffer
  <2>1. up' \in [Users -> Seq(Segments)]
    BY <1>1, <1>4 DEF NetTypeOK
  <2>2. Len(up'[u]) <= SocketBuffer
    BY <1>1, <1>2, <1>4, BufferAssumption DEF NetTypeOK, BufferAssumption
  <2>3. \A v \in Users \ {u} : up'[v] = up[v]
    BY <1>1 DEF NetTypeOK
  <2>. QED
    BY <2>1, <2>2, <2>3 DEF NetTypeOK
<1>. QED
  BY <1>1, <1>3, <1>5 DEF Receive, NetTypeOK

LEMMA ServerSendTypes ==
  ASSUME NetTypeOK(Segments), NEW u \in Users, ServerSend(u)
  PROVE  NetTypeOK(Segments)'
<1>1. UNCHANGED <<up, clientEnd, serverEnd>>
  BY DEF ServerSend
<1>2. down' \in [Users -> 0..SocketBuffer]
  <2>1. down \in [Users -> 0..SocketBuffer] /\ SocketBuffer \in Nat
    BY BufferAssumption DEF BufferAssumption, NetTypeOK
  <2>2. \/ down[u] < SocketBuffer /\ down' = [down EXCEPT ![u] = down[u] + 1]
        \/ down' = down
    BY DEF ServerSend
  <2>. QED
    BY <2>1, <2>2
<1>3. reset' \in [Users -> SUBSET {"client", "server"}]
  <2>1. \/ reset' = [reset EXCEPT ![u] = reset[u] \cup {"server"}]
        \/ reset' = reset
    BY DEF ServerSend
  <2>2. reset[u] \cup {"server"} \in SUBSET {"client", "server"}
    BY DEF NetTypeOK
  <2>. QED
    BY <2>1, <2>2 DEF NetTypeOK
<1>. QED
  BY <1>1, <1>2, <1>3 DEF NetTypeOK

LEMMA ClientSendTypes ==
  ASSUME NetTypeOK(Segments), NEW u \in Users, NEW segment \in Segments, ClientSend(u, segment)
  PROVE  NetTypeOK(Segments)'
<1>1. CASE serverEnd[u] = "gone"
  <2>1. reset' = [reset EXCEPT ![u] = reset[u] \cup {"client"}]
    BY <1>1 DEF ClientSend
  <2>2. reset' \in [Users -> SUBSET {"client", "server"}]
    BY <2>1 DEF NetTypeOK
  <2>. QED
    BY <1>1, <2>2 DEF ClientSend, NetTypeOK
<1>2. CASE serverEnd[u] # "gone"
  <2>1. up' = [up EXCEPT ![u] = Append(up[u], segment)] /\ Len(up[u]) < SocketBuffer
    BY <1>2 DEF ClientSend
  <2>2. up[u] \in Seq(Segments)
    BY DEF NetTypeOK
  <2>3. Append(up[u], segment) \in Seq(Segments) /\ Len(Append(up[u], segment)) = Len(up[u]) + 1
        /\ Len(up[u]) \in Nat
    BY <2>2, AppendProperties
  <2>4. Len(Append(up[u], segment)) <= SocketBuffer
    BY <2>1, <2>3, BufferAssumption DEF BufferAssumption
  <2>5. up' \in [Users -> Seq(Segments)] /\ \A v \in Users : Len(up'[v]) <= SocketBuffer
    BY <2>1, <2>3, <2>4 DEF NetTypeOK
  <2>. QED
    BY <1>2, <2>5 DEF ClientSend, NetTypeOK
<1>. QED
  BY <1>1, <1>2

-----------------------------------------------------------------------------
\* The steps of a handler between its places in the table, or before and after
\* them, without the mutex.
Walks(u) ==
  /\ \/ hpc[u] \in {"line", "list", "sendList"}
        /\ hpc'[u] \in {"line", "list", "sendList", "text", "leave"}
     \/ hpc[u] \in {"name", "add", "full"} /\ hpc'[u] \in {"add", "full", "close"}
  /\ hpc' = [hpc EXCEPT ![u] = hpc'[u]]
  /\ UNCHANGED <<serverEnd, alive, clients, mutex, static, fd, msg, slot, record>>
  /\ NetTypeOK(Segments)' /\ buf' \in [Users -> Seq(Segments)]

LEMMA WalkSteps ==
  ASSUME RoomInv, NEW u \in Users, Record(u),
         \/ RecvName(u) \/ RecvNameFails(u) \/ NoSlot(u) \/ SendFull(u)
         \/ RecvLine(u) \/ BuildList(u) \/ SendList(u) \/ RecvLineFails(u)
  PROVE  Walks(u)
<1>. USE DEF RoomInv, TypeOK, MoreTypes, Goto, Record
<1>1. CASE RecvName(u) \/ RecvLine(u)
  <2>1. Receive(u)
    BY <1>1 DEF RecvName, RecvLine
  <2>2. NetTypeOK(Segments)' /\ buf' \in [Users -> Seq(Segments)]
    BY <2>1, ReceiveTypes
  <2>3. serverEnd' = serverEnd
    BY <2>1 DEF Receive
  <2>4. CASE RecvName(u)
    BY <2>2, <2>3, <2>4 DEF RecvName, Walks
  <2>5. CASE RecvLine(u)
    BY <2>2, <2>3, <2>5 DEF RecvLine, Walks
  <2>. QED
    BY <1>1, <2>4, <2>5
<1>2. CASE SendFull(u) \/ SendList(u)
  <2>1. ServerSend(u)
    BY <1>2 DEF SendFull, SendList
  <2>2. NetTypeOK(Segments)' /\ serverEnd' = serverEnd
    BY <2>1, ServerSendTypes DEF ServerSend
  <2>3. buf' \in [Users -> Seq(Segments)]
    <3>1. << >> \in Seq(Segments)
      OBVIOUS
    <3>. QED
      BY <1>2, <3>1 DEF SendFull, SendList, ClearBuffer
  <2>. QED
    BY <1>2, <2>2, <2>3 DEF SendFull, SendList, Walks
<1>3. CASE RecvNameFails(u) \/ NoSlot(u) \/ BuildList(u) \/ RecvLineFails(u)
  <2>1. NetTypeOK(Segments)'
    BY <1>3 DEF RecvNameFails, NoSlot, BuildList, RecvLineFails, netVars, NetTypeOK
  <2>. QED
    BY <1>3, <2>1 DEF RecvNameFails, NoSlot, BuildList, RecvLineFails, netVars, Walks
<1>. QED
  BY <1>1, <1>2, <1>3

LEMMA WalksKeep ==
  ASSUME RoomInv, alive, NEW u \in Users, Walks(u)
  PROVE  RoomInv'
<1>. USE DEF Walks, record
<1>1. TypeOK' /\ MoreTypes'
  BY DEF RoomInv, TypeOK, MoreTypes, Registered
<1>2. Descriptors' /\ LeavesLast'
  BY DEF RoomInv, TypeOK, Descriptors, LeavesLast
<1>3. MutexHeld'
  BY DEF RoomInv, TypeOK, MutexHeld, Holding
<1>4. Quiet
  BY DEF RoomInv, TypeOK, Quiet, InTable, Registered
<1>5. Listed' /\ Owing'
  BY <1>4, QuietKeeps
<1>6. HeardEverything'
  BY <1>3, <1>5, HeardFollows DEF RoomInv, HeardEverything
<1>. QED
  BY <1>1, <1>2, <1>3, <1>5, <1>6 DEF RoomInv
-----------------------------------------------------------------------------
\* The steps that no broadcast and no change of the table has a part in.

LEMMA GetNameKeeps ==
  ASSUME RoomInv, alive, NEW u \in Users, GetName(u) \/ GotName(u), Record(u)
  PROVE  RoomInv'
<1>1. /\ hpc' = [hpc EXCEPT ![u] = hpc'[u]]
      /\ \/ hpc[u] = "text" /\ hpc'[u] = "copyText"
         \/ hpc[u] = "leave" /\ hpc'[u] = "copyLeave"
         \/ hpc[u] = "copyText" /\ hpc'[u] = "formatText"
         \/ hpc[u] = "copyLeave" /\ hpc'[u] = "formatLeave"
  BY DEF GetName, GotName, Goto, RoomInv, TypeOK
<1>2. UNCHANGED <<netVars, alive, clients, fd, buf, msg, slot, record>>
  BY <1>1 DEF GetName, GotName, Record
<1>3. static' \in Seq(Segments) \/ static' = Torn
  <2>1. CASE GetName(u)
    BY <2>1 DEF GetName, RoomInv, TypeOK
  <2>2. CASE GotName(u)
    <3>1. SlotsOf(fd[u]) # {} => clients[First(SlotsOf(fd[u]))].name \in Seq(Segments)
      BY FirstSlot DEF RoomInv, TypeOK, SlotsOf
    <3>. QED
      BY <2>2, <3>1 DEF GotName, RoomInv, TypeOK
  <2>. QED
    BY <2>1, <2>2
<1>4. \/ hpc'[u] \in Holding /\ hpc[u] \notin Holding /\ mutex = Free /\ mutex' = u
      \/ hpc[u] \in Holding /\ hpc'[u] \notin Holding /\ mutex' = Free
  BY <1>1 DEF GetName, GotName, Holding
<1>. USE DEF RoomInv, netVars, record
<1>5. TypeOK' /\ MoreTypes'
  <2>1. NetTypeOK(Segments)'
    BY <1>2 DEF TypeOK, NetTypeOK
  <2>2. mutex' \in Users \cup {Free} /\ hpc' \in [Users -> Registered \cup
                                         {"none", "name", "add", "full", "close", "closed"}]
    BY <1>1, <1>4 DEF TypeOK, Registered
  <2>. QED
    BY <1>2, <1>3, <2>1, <2>2 DEF TypeOK, MoreTypes
<1>6. Descriptors' /\ LeavesLast'
  BY <1>1, <1>2 DEF TypeOK, Descriptors, LeavesLast
<1>7. MutexHeld'
  BY <1>1, <1>4, ServerAssumption DEF TypeOK, MutexHeld, ServerAssumption
<1>8. Quiet
  BY <1>1, <1>2 DEF TypeOK, Quiet, InTable, Registered
<1>9. Listed' /\ Owing'
  BY <1>8, QuietKeeps
<1>10. HeardEverything'
  BY <1>2, <1>7, <1>9, HeardFollows DEF HeardEverything
<1>. QED
  BY <1>2, <1>5, <1>6, <1>7, <1>9, <1>10

\* The message is made after the mutex has been released.
LEMMA FormatKeeps ==
  ASSUME RoomInv, alive, NEW u \in Users, FormatText(u) \/ FormatLeave(u), Record(u)
  PROVE  RoomInv'
<1>. DEFINE message(kind) == [kind |-> kind, name |-> NameReturned(u), from |-> u]
<1>1. \E kind \in {"text", "left"} :
        /\ hpc[u] = IF kind = "text" THEN "formatText" ELSE "formatLeave"
        /\ hpc' = [hpc EXCEPT ![u] = IF kind = "text" THEN "announce" ELSE "remove"]
        /\ msg' = [msg EXCEPT ![u] = message(kind)]
  BY DEF FormatText, FormatLeave, Goto, Message
<1>2. UNCHANGED <<netVars, alive, clients, mutex, static, fd, buf, slot, record>>
  BY <1>1 DEF FormatText, FormatLeave, Record
<1>3. \A kind \in {"text", "left"} : message(kind) \in Messages /\ message(kind).kind = kind
  <2>1. NameReturned(u) \in Seq(Segments) \cup {Torn, <<"Unknown">>}
    BY DEF NameReturned, RoomInv, TypeOK
  <2>. QED
    BY <2>1 DEF Messages, Kinds
<1>. HIDE DEF message
<1>. USE DEF RoomInv, netVars, record
<1>4. TypeOK' /\ MoreTypes'
  <2>1. NetTypeOK(Segments)'
    BY <1>2 DEF TypeOK, NetTypeOK
  <2>2. msg' \in [Users -> Messages] /\ hpc' \in [Users -> Registered \cup
                                         {"none", "name", "add", "full", "close", "closed"}]
    BY <1>1, <1>3 DEF TypeOK, MoreTypes, Registered
  <2>. QED
    BY <1>2, <2>1, <2>2 DEF TypeOK, MoreTypes
<1>5. Descriptors' /\ LeavesLast'
  BY <1>1, <1>2, <1>3 DEF TypeOK, MoreTypes, Descriptors, LeavesLast
<1>6. MutexHeld'
  BY <1>1, <1>2 DEF TypeOK, MutexHeld, Holding
<1>7. Quiet
  BY <1>1, <1>2, <1>3 DEF TypeOK, MoreTypes, Quiet, InTable, Registered
<1>8. Listed' /\ Owing'
  BY <1>7, QuietKeeps
<1>9. HeardEverything'
  BY <1>2, <1>6, <1>8, HeardFollows DEF HeardEverything
<1>. QED
  BY <1>2, <1>4, <1>5, <1>6, <1>8, <1>9

\* accept gives the connection a descriptor that no other has.
LEMMA AcceptKeeps ==
  ASSUME RoomInv, alive, NEW u \in Users, Accept(u), Record(u)
  PROVE  RoomInv'
<1>. DEFINE f == First(Fds \ {fd[v] : v \in Users})
<1>1. hpc[u] = "none" /\ fd[u] = 0
  BY DEF Accept, RoomInv, Descriptors
<1>2. /\ hpc' = [hpc EXCEPT ![u] = "name"]
      /\ fd' = [fd EXCEPT ![u] = f]
      /\ serverEnd' = [serverEnd EXCEPT ![u] = "open"]
      /\ UNCHANGED <<up, down, clientEnd, reset, alive, clients, mutex, static, buf, msg, slot,
                     record>>
  BY <1>1 DEF Accept, Goto, Record
<1>3. f \in Fds /\ f > 0 /\ \A v \in Users : fd[v] # f
  <2>1. fd \in [Users -> Nat]
    BY DEF RoomInv, TypeOK, Fds
  <2>2. f \in Fds \ {fd[v] : v \in Users}
    BY <1>1, <2>1, DescriptorLeft, ServerAssumption
  <2>. QED
    BY <2>2 DEF Fds
<1>. HIDE DEF f
<1>. USE DEF RoomInv, record
<1>4. TypeOK' /\ MoreTypes'
  BY <1>1, <1>2, <1>3 DEF TypeOK, MoreTypes, NetTypeOK
<1>5. Descriptors' /\ LeavesLast'
  BY <1>1, <1>2, <1>3 DEF TypeOK, NetTypeOK, Descriptors, LeavesLast
<1>6. MutexHeld'
  BY <1>1, <1>2 DEF TypeOK, MutexHeld, Holding
<1>7. Quiet
  BY <1>1, <1>2 DEF TypeOK, Quiet, InTable, Registered
<1>8. Listed' /\ Owing'
  BY <1>7, QuietKeeps
<1>9. HeardEverything'
  BY <1>2, <1>6, <1>8, HeardFollows DEF HeardEverything
<1>. QED
  BY <1>2, <1>4, <1>5, <1>6, <1>8, <1>9

\* A descriptor that is closed is in no slot any more.
LEMMA CloseFdKeeps ==
  ASSUME RoomInv, alive, NEW u \in Users, CloseFd(u), Record(u)
  PROVE  RoomInv'
<1>1. /\ hpc[u] = "close" /\ hpc' = [hpc EXCEPT ![u] = "closed"]
      /\ fd' = [fd EXCEPT ![u] = 0]
      /\ UNCHANGED <<up, down, clientEnd, alive, clients, mutex, static, buf, msg, slot,
                     record>>
  BY DEF CloseFd, Goto, Record
<1>2. /\ serverEnd' = [serverEnd EXCEPT ![u] = "gone"]
      /\ reset' = [reset EXCEPT ![u] = IF up[u] # << >> THEN reset[u] \cup {"client"}
                                                         ELSE reset[u]]
  BY DEF CloseFd, ServerCloses
<1>. USE DEF RoomInv, record
<1>3. NetTypeOK(Segments)'
  <2>1. reset' \in [Users -> SUBSET {"client", "server"}]
    BY <1>2 DEF TypeOK, NetTypeOK
  <2>. QED
    BY <1>1, <1>2, <2>1 DEF TypeOK, NetTypeOK
<1>4. TypeOK' /\ MoreTypes'
  BY <1>1, <1>3 DEF TypeOK, MoreTypes
<1>5. Descriptors' /\ LeavesLast'
  BY <1>1, <1>2 DEF TypeOK, NetTypeOK, Descriptors, LeavesLast
<1>6. MutexHeld'
  BY <1>1 DEF TypeOK, MutexHeld, Holding
<1>7. Quiet
  BY <1>1 DEF TypeOK, Quiet, InTable, Registered
<1>8. Listed' /\ Owing'
  BY <1>7, QuietKeeps
<1>9. HeardEverything'
  BY <1>1, <1>6, <1>8, HeardFollows DEF HeardEverything
<1>. QED
  BY <1>1, <1>4, <1>5, <1>6, <1>8, <1>9
-----------------------------------------------------------------------------
\* The steps that change the table.

\* add_client: the slot is free, and no slot has the descriptor yet.
LEMMA AddClientKeeps ==
  ASSUME RoomInv, alive, NEW u \in Users, AddClient(u), Record(u)
  PROVE  RoomInv'
<1>. DEFINE s == First(FreeSlots)
            entry == [active |-> TRUE, sockfd |-> fd[u], name |-> buf[u]]
            message == [kind |-> "joined", name |-> buf[u], from |-> u]
<1>1. /\ hpc[u] = "add" /\ hpc' = [hpc EXCEPT ![u] = "announce"]
      /\ mutex = Free
      /\ clients' = [clients EXCEPT ![s] = entry]
      /\ msg' = [msg EXCEPT ![u] = message]
      /\ UNCHANGED <<netVars, alive, mutex, static, fd, buf, slot, record>>
  BY DEF AddClient, Goto, Message, Record
<1>2. s \in Slots /\ ~clients[s].active
  BY FirstSlot DEF AddClient, FreeSlots
<1>3. entry \in [active : BOOLEAN, sockfd : Fds \cup {0}, name : Seq(Segments)]
      /\ message \in Messages /\ fd[u] # 0
  BY <1>1 DEF RoomInv, TypeOK, MoreTypes, Messages, Kinds, Descriptors
<1>4. entry.active /\ entry.sockfd = fd[u] /\ message.kind = "joined"
  OBVIOUS
<1>. HIDE DEF s, entry, message
<1>. USE DEF RoomInv, netVars, record
<1>5. TypeOK' /\ MoreTypes'
  <2>1. NetTypeOK(Segments)'
    BY <1>1 DEF TypeOK, NetTypeOK
  <2>2. /\ hpc' \in [Users -> Registered \cup {"none", "name", "add", "full", "close", "closed"}]
        /\ msg' \in [Users -> Messages]
        /\ clients' \in [Slots -> [active : BOOLEAN, sockfd : Fds \cup {0},
                                   name : Seq(Segments)]]
    BY <1>1, <1>2, <1>3 DEF TypeOK, MoreTypes, Registered
  <2>. QED
    BY <1>1, <2>1, <2>2 DEF TypeOK, MoreTypes
<1>6. Descriptors' /\ LeavesLast'
  BY <1>1 DEF TypeOK, Descriptors, LeavesLast
<1>7. MutexHeld'
  BY <1>1 DEF TypeOK, MutexHeld, Holding
<1>8. ~InTable(u) /\ InTable(u)' /\ \A v \in Users \ {u} : InTable(v)' <=> InTable(v)
  BY <1>1, <1>3, <1>4 DEF TypeOK, MoreTypes, InTable, Registered
<1>9. \A t \in Slots : clients[t].active => clients[t].sockfd # fd[u]
  BY <1>3, <1>8 DEF TypeOK, Listed
<1>10. Listed'
  <2>1. clients'[s] = entry /\ \A t \in Slots \ {s} : clients'[t] = clients[t]
    BY <1>1, <1>2 DEF TypeOK
  <2>2. \A t \in Slots : clients'[t].active =>
          \E v \in Users : InTable(v)' /\ fd'[v] = clients'[t].sockfd
    BY <1>1, <1>4, <1>8, <2>1 DEF Listed
  <2>3. \A v \in Users : InTable(v)' =>
          \E t \in Slots : clients'[t].active /\ clients'[t].sockfd = fd'[v]
    BY <1>1, <1>2, <1>4, <1>8, <2>1 DEF Listed, SlotsOf
  <2>4. \A t, r \in Slots :
          clients'[t].active /\ clients'[r].active /\ clients'[t].sockfd = clients'[r].sockfd
            => t = r
    BY <1>2, <1>4, <1>9, <2>1 DEF Listed
  <2>. QED
    BY <2>2, <2>3, <2>4 DEF Listed, SlotsOf
<1>11. Owing'
  BY <1>1, <1>7, NothingOwed, ServerAssumption
     DEF ServerAssumption, Owing, Pending, MutexHeld, Holding
<1>12. HeardEverything'
  BY <1>1, <1>7, <1>11, HeardFollows DEF HeardEverything
<1>. QED
  BY <1>5, <1>6, <1>7, <1>10, <1>11, <1>12

\* remove_client: the slot found is the only one of the client.
LEMMA RemoveClientKeeps ==
  ASSUME RoomInv, alive, NEW u \in Users, RemoveClient(u), Record(u)
  PROVE  RoomInv'
<1>. DEFINE s == First(SlotsOf(fd[u]))
<1>. USE DEF RoomInv
<1>1. /\ hpc[u] = "remove" /\ hpc' = [hpc EXCEPT ![u] = "announce"]
      /\ msg[u].kind = "left"
      /\ mutex = Free
      /\ UNCHANGED <<netVars, alive, mutex, static, fd, buf, msg, slot, record>>
  BY DEF RemoveClient, Goto, Record, LeavesLast
<1>2. InTable(u) /\ ~InTable(u)' /\ \A v \in Users \ {u} : InTable(v)' <=> InTable(v)
  BY <1>1 DEF TypeOK, InTable, Registered
<1>3. /\ clients' = [clients EXCEPT ![s].active = FALSE]
      /\ s \in Slots /\ clients[s].active /\ clients[s].sockfd = fd[u]
  <2>1. SlotsOf(fd[u]) # {}
    BY <1>2 DEF Listed
  <2>2. s \in SlotsOf(fd[u])
    BY <2>1, FirstSlot
  <2>. QED
    BY <2>1, <2>2 DEF RemoveClient, SlotsOf
<1>4. fd[u] # 0 /\ \A v \in Users \ {u} : fd[v] # fd[u]
  BY <1>1 DEF TypeOK, Descriptors
<1>. HIDE DEF s
<1>. USE DEF netVars, record
<1>5. clients' \in [Slots -> [active : BOOLEAN, sockfd : Fds \cup {0}, name : Seq(Segments)]]
      /\ ~clients'[s].active /\ \A t \in Slots \ {s} : clients'[t] = clients[t]
  BY <1>3 DEF TypeOK
<1>6. TypeOK' /\ MoreTypes'
  <2>1. NetTypeOK(Segments)'
    BY <1>1 DEF TypeOK, NetTypeOK
  <2>2. hpc' \in [Users -> Registered \cup {"none", "name", "add", "full", "close", "closed"}]
    BY <1>1 DEF TypeOK, Registered
  <2>. QED
    BY <1>1, <1>5, <2>1, <2>2 DEF TypeOK, MoreTypes
<1>7. Descriptors' /\ LeavesLast'
  BY <1>1 DEF TypeOK, Descriptors, LeavesLast
<1>8. MutexHeld'
  BY <1>1 DEF TypeOK, MutexHeld, Holding
<1>9. Listed'
  <2>1. \A t \in Slots : clients'[t].active =>
          \E v \in Users : InTable(v)' /\ fd'[v] = clients'[t].sockfd
    BY <1>1, <1>2, <1>3, <1>5 DEF Listed
  <2>2. \A v \in Users : InTable(v)' =>
          \E t \in Slots : clients'[t].active /\ clients'[t].sockfd = fd'[v]
    BY <1>1, <1>2, <1>3, <1>4, <1>5 DEF Listed, SlotsOf
  <2>3. \A t, r \in Slots :
          clients'[t].active /\ clients'[r].active /\ clients'[t].sockfd = clients'[r].sockfd
            => t = r
    BY <1>5 DEF Listed
  <2>. QED
    BY <2>1, <2>2, <2>3 DEF Listed, SlotsOf
<1>10. Owing'
  BY <1>1, <1>8, NothingOwed, ServerAssumption
     DEF ServerAssumption, Owing, Pending, MutexHeld, Holding
<1>11. HeardEverything'
  BY <1>1, <1>8, <1>10, HeardFollows DEF HeardEverything
<1>. QED
  BY <1>6, <1>7, <1>8, <1>9, <1>10, <1>11
-----------------------------------------------------------------------------
\* The broadcast.

\* A step of a broadcast, which leaves the table and the descriptors alone.
LEMMA BroadcastKeeps ==
  ASSUME RoomInv, UNCHANGED <<clients, fd>>, \A v \in Users : InTable(v)' <=> InTable(v)
  PROVE  Listed'
  BY DEF RoomInv, Listed, SlotsOf

\* From here on everybody in the table is owed the message, each at its slot.
LEMMA BroadcastLockKeeps ==
  ASSUME RoomInv, alive, NEW u \in Users, BroadcastLock(u), Record(u)
  PROVE  RoomInv'
<1>. USE DEF RoomInv, netVars, record
<1>1. /\ hpc[u] = "announce" /\ hpc' = [hpc EXCEPT ![u] = "sending"]
      /\ mutex = Free /\ mutex' = u
      /\ slot' = [slot EXCEPT ![u] = 0]
      /\ owed' = [v \in Users |-> IF v \in Audience(u) THEN Append(owed[v], msg[u]) ELSE owed[v]]
      /\ UNCHANGED <<netVars, alive, clients, static, fd, buf, msg, stray>>
  BY DEF BroadcastLock, LockMutex, Goto, Record
<1>2. \A v \in Users : owed[v] = << >>
  BY <1>1, NothingOwed
<1>3. \A v \in Users : owed'[v] = IF v \in Audience(u) THEN <<msg[u]>> ELSE << >>
  <2>1. Append(<< >>, msg[u]) = <<msg[u]>>
    OBVIOUS
  <2>. QED
    BY <1>1, <1>2, <2>1
<1>4. TypeOK' /\ MoreTypes'
  <2>1. NetTypeOK(Segments)'
    BY <1>1 DEF TypeOK, NetTypeOK
  <2>2. msg[u] \in Messages /\ owed' \in [Users -> Seq(Messages)]
    BY <1>1, <1>3 DEF MoreTypes
  <2>3. hpc' \in [Users -> Registered \cup {"none", "name", "add", "full", "close", "closed"}]
        /\ slot' \in [Users -> 0..MaxClients]
    BY <1>1, ServerAssumption DEF ServerAssumption, TypeOK, Registered
  <2>. QED
    BY <1>1, <2>1, <2>2, <2>3 DEF TypeOK, MoreTypes
<1>5. Descriptors' /\ LeavesLast'
  BY <1>1 DEF TypeOK, Descriptors, LeavesLast
<1>6. MutexHeld'
  BY <1>1, ServerAssumption DEF ServerAssumption, TypeOK, MutexHeld, Holding
<1>7. \A v \in Users : InTable(v)' <=> InTable(v)
  BY <1>1 DEF TypeOK, InTable, Registered
<1>8. Listed'
  BY <1>1, <1>7, BroadcastKeeps
<1>9. \A w \in Users : hpc'[w] = "sending" <=> w = u
  BY <1>1, <1>6 DEF MutexHeld, Holding, TypeOK
<1>10. \A v \in Users : Pending(u, v)' <=> v \in Audience(u)
  <2>1. Audience(u)' = Audience(u)
    BY <1>1, <1>7 DEF Audience
  <2>2. slot'[u] = 0 /\ Slots \subseteq Nat
    BY <1>1, ServerAssumption DEF ServerAssumption, TypeOK, Slots
  <2>3. \A v \in Audience(u) :
          v \in Users /\ \E r \in Slots : clients'[r].active /\ clients'[r].sockfd = fd'[v]
    <3>. SUFFICES ASSUME NEW v \in Audience(u)
                  PROVE  v \in Users /\ \E r \in Slots : /\ clients'[r].active
                                                      /\ clients'[r].sockfd = fd'[v]
      OBVIOUS
    <3>1. v \in Users /\ SlotsOf(fd[v]) # {}
      BY DEF Audience, Listed
    <3>. QED
      BY <1>1, <3>1 DEF SlotsOf
  <2>4. \A v \in Audience(u) : \E r \in Slots :
          clients'[r].active /\ clients'[r].sockfd = fd'[v] /\ r >= slot'[u]
    <3>. SUFFICES ASSUME NEW v \in Audience(u)
                  PROVE  \E r \in Slots : /\ clients'[r].active /\ clients'[r].sockfd = fd'[v]
                                         /\ r >= slot'[u]
      OBVIOUS
    <3>1. PICK r \in Slots : clients'[r].active /\ clients'[r].sockfd = fd'[v]
      BY <2>3
    <3>2. r >= slot'[u]
      BY <2>2
    <3>. QED
      BY <3>1, <3>2
  <2>. QED
    BY <1>9, <2>1, <2>4 DEF Pending, SlotsOf
<1>11. Owing'
  BY <1>1, <1>3, <1>9, <1>10 DEF Owing, Pending
<1>12. HeardEverything'
  BY <1>1, <1>6, <1>11, HeardFollows DEF HeardEverything
<1>. QED
  BY <1>4, <1>5, <1>6, <1>8, <1>11, <1>12

\* Whose slot it is: one client, which is owed just this message.
LEMMA Addressee ==
  ASSUME RoomInv, Owing, NEW u \in Users, hpc[u] = "sending", SendsTo(u) # {}
  PROVE  \E v \in Users : /\ SendsTo(u) = {v} /\ v \in Audience(u) /\ owed[v] = <<msg[u]>>
                          /\ clients[slot[u]].active /\ clients[slot[u]].sockfd = fd[v]
<1>. USE DEF RoomInv
<1>1. /\ slot[u] < MaxClients
      /\ Addressed(u, slot[u])
      /\ SendsTo(u) = Owners(slot[u])
  BY DEF SendsTo
<1>2. slot[u] \in Slots
  BY <1>1, ServerAssumption DEF ServerAssumption, TypeOK, Slots
<1>3. PICK v \in Users : InTable(v) /\ fd[v] = clients[slot[u]].sockfd
  BY <1>1, <1>2 DEF Addressed, Listed
<1>4. fd[v] # 0
  BY <1>3 DEF Descriptors, TypeOK, InTable, Registered
<1>5. Owners(slot[u]) = {v}
  BY <1>3, <1>4 DEF Owners, TypeOK
<1>6. v \in Audience(u)
  BY <1>1, <1>3 DEF Addressed, Skipped, Audience
<1>7. Pending(u, v)
  <2>1. slot[u] \in SlotsOf(fd[v]) /\ slot[u] >= slot[u]
    BY <1>1, <1>2, <1>3 DEF Addressed, SlotsOf, Slots
  <2>. QED
    BY <1>6, <2>1 DEF Pending
<1>8. owed[v] = <<msg[u]>>
  BY <1>7 DEF Owing
<1>. QED
  BY <1>1, <1>3, <1>5, <1>6, <1>8 DEF Addressed

\* What the record says of a send of a broadcast.
LEMMA SendRecorded ==
  ASSUME RoomInv, Owing, NEW u \in Users, hpc[u] = "sending", Record(u)
  PROVE  /\ stray' = stray
         /\ owed' = [v \in Users |-> IF v \in SendsTo(u) THEN << >> ELSE owed[v]]
<1>1. CASE SendsTo(u) = {}
  BY <1>1 DEF Record, record, RoomInv, MoreTypes
<1>2. CASE SendsTo(u) # {}
  <2>1. PICK v \in Users : SendsTo(u) = {v} /\ owed[v] = <<msg[u]>>
    BY <1>2, Addressee
  <2>2. owed[v] # << >> /\ Head(owed[v]) = msg[u] /\ Tail(owed[v]) = << >>
    BY <2>1
  <2>. DEFINE due == {w \in SendsTo(u) : owed[w] # << >> /\ Head(owed[w]) = msg[u]}
  <2>3. due = SendsTo(u)
    BY <2>1, <2>2
  <2>4. /\ owed' = [w \in Users |-> IF w \in due THEN Tail(owed[w]) ELSE owed[w]]
        /\ stray' = (stray \/ due # SendsTo(u))
    BY <1>2 DEF Record
  <2>5. stray' = stray
    BY <2>3, <2>4 DEF RoomInv, MoreTypes
  <2>6. \A w \in SendsTo(u) : Tail(owed[w]) = << >>
    BY <2>1, <2>2
  <2>. QED
    BY <2>3, <2>4, <2>5, <2>6
<1>. QED
  BY <1>1, <1>2

\* One turn of the loop: the client at the slot is not owed the message any more.
LEMMA BroadcastSlotKeeps ==
  ASSUME RoomInv, alive, NEW u \in Users, BroadcastSlot(u), Record(u)
  PROVE  RoomInv'
<1>. USE DEF RoomInv
<1>1. /\ hpc[u] = "sending" /\ slot[u] < MaxClients
      /\ slot' = [slot EXCEPT ![u] = slot[u] + 1]
      /\ UNCHANGED <<alive, clients, mutex, static, fd, hpc, buf, msg>>
  BY DEF BroadcastSlot
<1>2. NetTypeOK(Segments)' /\ serverEnd' = serverEnd
  <2>1. CASE Addressed(u, slot[u])
    <3>1. PICK v \in Owners(slot[u]) : ServerSend(v)
      BY <2>1 DEF BroadcastSlot
    <3>. QED
      BY <3>1, ServerSendTypes DEF ServerSend, Owners, TypeOK
  <2>2. CASE ~Addressed(u, slot[u])
    BY <2>2 DEF BroadcastSlot, netVars, NetTypeOK, TypeOK
  <2>. QED
    BY <2>1, <2>2
<1>3. /\ stray' = stray
      /\ owed' = [v \in Users |-> IF v \in SendsTo(u) THEN << >> ELSE owed[v]]
  BY <1>1, SendRecorded
<1>4. slot[u] \in Nat /\ Slots \subseteq Nat /\ slot'[u] = slot[u] + 1
      /\ slot' \in [Users -> 0..MaxClients]
  BY <1>1, ServerAssumption DEF ServerAssumption, TypeOK, Slots
<1>5. TypeOK' /\ MoreTypes'
  <2>1. owed' \in [Users -> Seq(Messages)]
    BY <1>3 DEF MoreTypes
  <2>. QED
    BY <1>1, <1>2, <1>3, <1>4, <2>1 DEF TypeOK, MoreTypes
<1>6. Descriptors' /\ LeavesLast' /\ MutexHeld'
  BY <1>1, <1>2 DEF Descriptors, LeavesLast, MutexHeld
<1>7. \A v \in Users : (InTable(v)' <=> InTable(v)) /\ (v \in Audience(u)' <=> v \in Audience(u))
  BY <1>1 DEF InTable, Audience
<1>8. Listed'
  BY <1>1, <1>7, BroadcastKeeps
<1>9. \A w \in Users : hpc[w] = "sending" <=> w = u
  BY <1>1 DEF MutexHeld, Holding
<1>10. \A v \in Users : Pending(u, v)' <=> Pending(u, v) /\ v \notin SendsTo(u)
  <2>. SUFFICES ASSUME NEW v \in Users
                PROVE  Pending(u, v)' <=> Pending(u, v) /\ v \notin SendsTo(u)
    OBVIOUS
  <2>1. Pending(u, v)' <=> v \in Audience(u) /\ \E r \in SlotsOf(fd[v]) : r >= slot[u] + 1
    BY <1>1, <1>4, <1>7 DEF Pending, SlotsOf
  <2>2. CASE slot[u] \in SlotsOf(fd[v]) /\ v \in Audience(u)
    <3>1. v \in SendsTo(u)
      <4>1. InTable(v) /\ (msg[u].kind = "text" \/ v # u)
        BY <2>2 DEF Audience
      <4>2. fd[v] # 0 /\ fd[v] \in Nat
        BY <4>1 DEF Descriptors, InTable, Registered, TypeOK, Fds
      <4>3. fd[v] # Skipped(u)
        BY <4>1, <4>2 DEF Skipped, TypeOK
      <4>4. Addressed(u, slot[u]) /\ v \in Owners(slot[u])
        BY <2>2, <4>3 DEF Addressed, Owners, SlotsOf
      <4>. QED
        BY <1>1, <4>4 DEF SendsTo
    <3>2. \A r \in SlotsOf(fd[v]) : r = slot[u]
      BY <2>2 DEF SlotsOf, Listed
    <3>. QED
      BY <1>4, <2>1, <3>1, <3>2
  <2>3. CASE ~(slot[u] \in SlotsOf(fd[v]) /\ v \in Audience(u))
    <3>1. v \notin SendsTo(u)
      <4>. SUFFICES ASSUME v \in SendsTo(u) PROVE FALSE
        OBVIOUS
      <4>1. PICK w \in Users : /\ SendsTo(u) = {w} /\ w \in Audience(u)
                               /\ clients[slot[u]].active /\ clients[slot[u]].sockfd = fd[w]
        BY <1>1, Addressee
      <4>2. slot[u] \in Slots
        BY <1>1, <1>4, ServerAssumption DEF ServerAssumption, Slots
      <4>. QED
        BY <2>3, <4>1, <4>2 DEF SlotsOf
    <3>2. v \in Audience(u) =>
            \A r \in SlotsOf(fd[v]) : r >= slot[u] <=> r >= slot[u] + 1
      <4>1. v \in Audience(u) => \A r \in SlotsOf(fd[v]) : r # slot[u] /\ r \in Nat
        BY <1>4, <2>3 DEF SlotsOf
      <4>. QED
        BY <1>4, <4>1
    <3>. QED
      BY <1>1, <2>1, <3>1, <3>2 DEF Pending
  <2>. QED
    BY <2>2, <2>3
<1>11. Owing'
  BY <1>1, <1>3, <1>9, <1>10 DEF Owing, Pending
<1>12. HeardEverything'
  BY <1>1, <1>3, <1>6, <1>11, HeardFollows DEF HeardEverything
<1>. QED
  BY <1>5, <1>6, <1>8, <1>11, <1>12

\* At the end of the loop nobody is owed the message.
LEMMA BroadcastUnlockKeeps ==
  ASSUME RoomInv, alive, NEW u \in Users, BroadcastUnlock(u), Record(u)
  PROVE  RoomInv'
<1>. USE DEF RoomInv, netVars, record
<1>1. /\ hpc[u] = "sending" /\ slot[u] = MaxClients
      /\ hpc' = [hpc EXCEPT ![u] = IF msg[u].kind = "left" THEN "close" ELSE "line"]
      /\ mutex' = Free
      /\ buf' = [buf EXCEPT ![u] = << >>]
      /\ UNCHANGED <<netVars, alive, clients, static, fd, msg, slot>>
  BY DEF BroadcastUnlock, ClearBuffer, Goto
<1>2. owed' = owed /\ stray' = stray
  <2>1. SendsTo(u) = {}
    BY <1>1, ServerAssumption DEF ServerAssumption, SendsTo
  <2>. QED
    BY <1>1, <2>1 DEF Record
<1>3. TypeOK' /\ MoreTypes'
  <2>1. NetTypeOK(Segments)'
    BY <1>1 DEF TypeOK, NetTypeOK
  <2>2. hpc' \in [Users -> Registered \cup {"none", "name", "add", "full", "close", "closed"}]
    BY <1>1 DEF TypeOK, Registered
  <2>3. buf' \in [Users -> Seq(Segments)]
    <3>1. << >> \in Seq(Segments)
      OBVIOUS
    <3>. QED
      BY <1>1, <3>1 DEF MoreTypes
  <2>. QED
    BY <1>1, <1>2, <2>1, <2>2, <2>3 DEF TypeOK, MoreTypes
<1>4. Descriptors' /\ LeavesLast'
  BY <1>1 DEF TypeOK, Descriptors, LeavesLast
<1>5. MutexHeld'
  BY <1>1, ServerAssumption DEF ServerAssumption, TypeOK, MutexHeld, Holding
<1>6. \A v \in Users : InTable(v)' <=> InTable(v)
  BY <1>1 DEF TypeOK, InTable, Registered
<1>7. Listed'
  BY <1>1, <1>6, BroadcastKeeps
<1>8. \A v, w \in Users : ~Pending(w, v) /\ ~Pending(w, v)'
  <2>1. \A w \in Users : hpc[w] = "sending" <=> w = u
    BY <1>1 DEF MutexHeld, Holding
  <2>2. \A w \in Users : hpc'[w] # "sending"
    BY <1>1, <2>1 DEF TypeOK
  <2>3. \A r \in Slots : ~(r >= slot[u])
    BY <1>1, ServerAssumption DEF ServerAssumption, Slots
  <2>. QED
    BY <2>1, <2>2, <2>3 DEF Pending, SlotsOf
<1>9. Owing'
  BY <1>2, <1>8 DEF Owing
<1>10. HeardEverything'
  BY <1>2, <1>5, <1>9, HeardFollows DEF HeardEverything
<1>. QED
  BY <1>3, <1>4, <1>5, <1>7, <1>9, <1>10

\* SIGPIPE ends the server in the middle of whatever it was doing.
LEMMA SigPipeKeeps ==
  ASSUME RoomInv, alive, NEW u \in Users, SigPipe(u), Record(u)
  PROVE  RoomInv'
<1>. USE DEF RoomInv
<1>1. /\ alive' = FALSE
      /\ serverEnd' = [v \in Users |-> "gone"]
      /\ UNCHANGED <<up, down, clientEnd, clients, mutex, static, fd, hpc, buf, msg, slot>>
  BY DEF SigPipe, ServerGone
<1>2. hpc[u] # "announce"
  BY DEF SigPipe, SendsTo
<1>3. stray' = stray /\ (mutex = Free => owed' = owed) /\ owed' \in [Users -> Seq(Messages)]
  <2>1. CASE hpc[u] = "sending"
    <3>1. mutex # Free
      BY <2>1, ServerAssumption DEF ServerAssumption, MutexHeld, Holding
    <3>2. stray' = stray /\ owed' = [v \in Users |-> IF v \in SendsTo(u) THEN << >> ELSE owed[v]]
      BY <2>1, SendRecorded
    <3>. QED
      BY <3>1, <3>2 DEF MoreTypes
  <2>2. CASE hpc[u] # "sending"
    BY <1>2, <2>2 DEF Record, record, MoreTypes
  <2>. QED
    BY <2>1, <2>2
<1>4. NetTypeOK(Segments)'
  <2>1. \A v \in Users : reset[v] \in SUBSET {"client", "server"}
                         /\ reset[v] \cup {"client"} \in SUBSET {"client", "server"}
    BY DEF TypeOK, NetTypeOK
  <2>2. reset' \in [Users -> SUBSET {"client", "server"}]
    BY <2>1 DEF SigPipe, ServerGone
  <2>. QED
    BY <1>1, <2>2 DEF TypeOK, NetTypeOK
<1>5. TypeOK' /\ MoreTypes'
  BY <1>1, <1>3, <1>4 DEF TypeOK, MoreTypes
<1>6. Descriptors' /\ LeavesLast' /\ MutexHeld'
  BY <1>1 DEF Descriptors, LeavesLast, MutexHeld
<1>7. \A v \in Users : InTable(v)' <=> InTable(v)
  BY <1>1 DEF InTable
<1>8. Listed'
  BY <1>1, <1>7, BroadcastKeeps
<1>9. HeardEverything'
  BY <1>1, <1>3, <1>7 DEF HeardEverything
<1>. QED
  BY <1>1, <1>5, <1>6, <1>8, <1>9

-----------------------------------------------------------------------------
\* The clients: nothing they do reaches the table or the handlers at once.
LEMMA ClientKeeps ==
  ASSUME RoomInv, NEW u \in Users,
         Client(u) \/ \E segment \in Lines \cup {u} : Send(u, segment)
  PROVE  RoomInv'
<1>. USE DEF RoomInv, serverVars, record
<1>1. UNCHANGED <<serverEnd, serverVars, record>>
  BY DEF Client, Send, AnyConnect, AnyReceive, AnyLeave, AnySend, ClientSend
<1>2. NetTypeOK(Segments)'
  <2>1. CASE \E segment \in Lines \cup {u} : Send(u, segment)
    BY <2>1, ClientSendTypes DEF Send, AnySend, Segments, TypeOK
  <2>2. CASE AnyConnect(u)
    BY <2>2 DEF AnyConnect, NetTypeOK, TypeOK
  <2>3. \A unread : ClientDrops(u, unread) =>
          /\ clientEnd' \in [Users -> {"none", "open", "gone"}]
          /\ reset' \in [Users -> SUBSET {"client", "server"}]
    <3>1. reset[u] \cup {"server"} \in SUBSET {"client", "server"}
          /\ reset[u] \in SUBSET {"client", "server"}
      BY DEF NetTypeOK, TypeOK
    <3>. QED
      BY <3>1 DEF ClientDrops, NetTypeOK, TypeOK
  <2>4. CASE AnyReceive(u)
    <3>1. down' \in [Users -> 0..SocketBuffer]
      BY <2>4, BufferAssumption DEF BufferAssumption, AnyReceive, NetTypeOK, TypeOK
    <3>. QED
      BY <2>3, <2>4, <3>1 DEF AnyReceive, NetTypeOK, TypeOK
  <2>5. CASE AnyLeave(u)
    BY <2>3, <2>5 DEF AnyLeave, ClientCloses, NetTypeOK, TypeOK
  <2>. QED
    BY <2>1, <2>2, <2>4, <2>5 DEF Client
<1>3. TypeOK' /\ MoreTypes'
  BY <1>1, <1>2 DEF TypeOK, MoreTypes
<1>4. Descriptors' /\ LeavesLast' /\ MutexHeld'
  BY <1>1 DEF Descriptors, LeavesLast, MutexHeld
<1>5. Quiet
  BY <1>1 DEF Quiet, InTable
<1>6. Listed' /\ HeardEverything'
  BY <1>1 DEF Listed, SlotsOf, InTable, HeardEverything
<1>7. alive' => Owing'
  BY <1>1, <1>5, QuietKeeps
<1>. QED
  BY <1>3, <1>4, <1>6, <1>7

-----------------------------------------------------------------------------
LEMMA RoomInit == Init => RoomInv
<1>. SUFFICES ASSUME Init PROVE RoomInv
  OBVIOUS
<1>. USE DEF Init, NetInit, ServerInit
<1>1. TypeOK
  BY BufferAssumption, ServerAssumption
     DEF BufferAssumption, ServerAssumption, TypeOK, NetTypeOK
<1>2. MoreTypes
  <2>1. NoMessage \in Messages
    BY DEF Messages, Kinds, NoMessage
  <2>2. buf \in [Users -> Seq(Segments)] /\ owed \in [Users -> Seq(Messages)]
    OBVIOUS
  <2>3. msg \in [Users -> Messages] /\ stray \in BOOLEAN
    BY <2>1
  <2>. QED
    BY <2>2, <2>3 DEF MoreTypes
<1>3. Descriptors /\ LeavesLast /\ MutexHeld
  BY ServerAssumption DEF ServerAssumption, Descriptors, LeavesLast, MutexHeld, Holding
<1>4. Listed /\ Owing /\ HeardEverything
  BY DEF Listed, Owing, Pending, HeardEverything, InTable, Registered
<1>. QED
  BY <1>1, <1>2, <1>3, <1>4 DEF RoomInv

LEMMA RoomStep == RoomInv /\ [Next]_vars => RoomInv'
<1>. SUFFICES ASSUME RoomInv, [Next]_vars PROVE RoomInv'
  OBVIOUS
<1>1. CASE UNCHANGED vars
  <2>. USE <1>1 DEF vars, netVars, serverVars, record
  <2>1. TypeOK' /\ MoreTypes'
    BY DEF RoomInv, TypeOK, NetTypeOK, MoreTypes
  <2>2. Descriptors' /\ LeavesLast' /\ MutexHeld' /\ HeardEverything'
    BY DEF RoomInv, Descriptors, LeavesLast, MutexHeld, HeardEverything, InTable
  <2>3. Listed' /\ (alive' => Owing')
    BY DEF RoomInv, Listed, Owing, Pending, Audience, SlotsOf, InTable
  <2>. QED
    BY <2>1, <2>2, <2>3 DEF RoomInv
<1>2. CASE \E u \in Users : Client(u) \/ \E segment \in Lines \cup {u} : Send(u, segment)
  BY <1>2, ClientKeeps
<1>3. CASE \E u \in Users : Server(u)
  <2>1. PICK u \in Users : alive /\ (Accept(u) \/ Handler(u)) /\ Record(u)
    BY <1>3 DEF Server, ServerStep
  <2>2. CASE \/ RecvName(u) \/ RecvNameFails(u) \/ NoSlot(u) \/ SendFull(u)
             \/ RecvLine(u) \/ BuildList(u) \/ SendList(u) \/ RecvLineFails(u)
    BY <2>1, <2>2, WalkSteps, WalksKeep
  <2>3. CASE GetName(u) \/ GotName(u) \/ FormatText(u) \/ FormatLeave(u) \/ Accept(u) \/ CloseFd(u)
    BY <2>1, <2>3, GetNameKeeps, FormatKeeps, AcceptKeeps, CloseFdKeeps
  <2>4. CASE AddClient(u) \/ RemoveClient(u)
    BY <2>1, <2>4, AddClientKeeps, RemoveClientKeeps
  <2>5. CASE BroadcastLock(u) \/ BroadcastSlot(u) \/ BroadcastUnlock(u) \/ SigPipe(u)
    BY <2>1, <2>5, BroadcastLockKeeps, BroadcastSlotKeeps, BroadcastUnlockKeeps, SigPipeKeeps
  <2>. QED
    BY <2>1, <2>2, <2>3, <2>4, <2>5 DEF Handler
<1>. QED
  BY <1>1, <1>2, <1>3 DEF Next

\* Slot by slot or by numbers, it is the same.
LEMMA ListedCounts ==
  ASSUME TypeOK, Descriptors, Listed
  PROVE  TableIsCurrent
<1>. SUFFICES ASSUME NEW f \in Fds
              PROVE  Cardinality(SlotsOf(f))
                       = Cardinality({u \in Users : fd[u] = f /\ InTable(u)})
  BY DEF TableIsCurrent
<1>. DEFINE Those == {u \in Users : fd[u] = f /\ InTable(u)}
<1>1. f # 0
  BY ServerAssumption, FS_CardinalityType DEF ServerAssumption, Fds
<1>2. CASE SlotsOf(f) = {}
  <2>1. Those = {}
    BY <1>2 DEF Listed
  <2>. QED
    BY <1>2, <2>1
<1>3. CASE SlotsOf(f) # {}
  <2>1. PICK s : SlotsOf(f) = {s}
    BY <1>3 DEF SlotsOf, Listed
  <2>2. PICK u \in Users : InTable(u) /\ fd[u] = f
    BY <1>3 DEF SlotsOf, Listed
  <2>3. Those = {u}
    BY <1>1, <2>2 DEF TypeOK
  <2>. QED
    BY <2>1, <2>3, FS_Singleton
<1>. QED
  BY <1>2, <1>3

\* Whatever the clients do and in whatever order the handlers run: who holds the mutex,
\* which slot belongs to whom, and who is still owed what.  (server.c:17-160)
THEOREM RoomInvariant == Spec => []RoomInv
<1>. QED
  BY RoomInit, RoomStep, PTL DEF Spec

\* No slot of the table keeps a descriptor that has been closed and may by now be that
\* of another client, and nobody has two.  (server.c:46-71, 141-143)
THEOREM TableStaysCurrent == Spec => []TableIsCurrent
<1>1. RoomInv => TableIsCurrent
  BY ListedCounts DEF RoomInv
<1>. QED
  BY <1>1, RoomInvariant, PTL

\* Every client in the table hears every broadcast, in one order for all, and nothing
\* else.  (server.c:22-30)
THEOREM EverybodyHears == Spec => []HeardEverything
<1>1. RoomInv => HeardEverything
  BY DEF RoomInv
<1>. QED
  BY <1>1, RoomInvariant, PTL

\* Every variable keeps its type, and no two connections share a descriptor.
\* (server.c:10-15, 178-190)
THEOREM RoomTypeCorrect == Spec => []TypeOK
<1>1. RoomInv => TypeOK
  BY DEF RoomInv
<1>. QED
  BY <1>1, RoomInvariant, PTL
=============================================================================
