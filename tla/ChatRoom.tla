------------------------------ MODULE ChatRoom ------------------------------
(***************************************************************************)
(* The chat server of ipc-4 among clients that may do anything a client of *)
(* a TCP connection can do.  Module Chat shows that client.c is such a     *)
(* client.                                                                 *)
(***************************************************************************)
EXTENDS ChatServer

CONSTANT Lines  \* what a client may send, besides its name

ASSUME RoomAssumption == Lines \cap Users = {}

VARIABLES
  owed,   \* owed[u]: the broadcasts begun since u was entered in the table that
          \* have not been sent to u yet, oldest first
  stray   \* a broadcast was sent to somebody who was not due it

record == <<owed, stray>>
vars == <<netVars, serverVars, record>>

Init ==
  /\ NetInit
  /\ ServerInit
  /\ owed = [u \in Users |-> << >>]
  /\ stray = FALSE

\* Clients send what they like: a name, too, at any time or never.
Send(u, segment) ==
  /\ AnySend(u, segment)
  /\ UNCHANGED <<serverVars, record>>

Client(u) ==
  /\ AnyConnect(u) \/ AnyReceive(u) \/ AnyLeave(u)
  /\ UNCHANGED <<serverVars, record>>

Registered == {"announce", "sending", "line", "list", "sendList", "text", "copyText",
               "formatText", "leave", "copyLeave", "formatLeave", "remove"}

\* A handler that sends its own leave message has already given up its slot.
InTable(u) ==
  hpc[u] \in Registered /\ (hpc[u] \in {"announce", "sending"} => msg[u].kind # "left")

\* Who is due the broadcast that the handler of u begins: everybody in the table
\* but, unless it is a text, u.
Audience(u) == {v \in Users : InTable(v) /\ (msg[u].kind = "text" \/ v # u)}

Record(u) ==
  CASE hpc[u] = "announce" ->
         /\ owed' = [v \in Users |-> IF v \in Audience(u) THEN Append(owed[v], msg[u])
                                                         ELSE owed[v]]
         /\ UNCHANGED stray
    [] hpc[u] = "sending" /\ SendsTo(u) # {} ->
         LET due == {v \in SendsTo(u) : owed[v] # << >> /\ Head(owed[v]) = msg[u]}
         IN  /\ owed' = [v \in Users |-> IF v \in due THEN Tail(owed[v]) ELSE owed[v]]
             /\ stray' = (stray \/ due # SendsTo(u))
    [] OTHER -> UNCHANGED record

Server(u) == ServerStep(u) /\ Record(u)

Next ==
  \E u \in Users :
    \/ Server(u)
    \/ Client(u)
    \/ \E segment \in Lines \cup {u} : Send(u, segment)

Spec == Init /\ [][Next]_vars

\* The server's threads are scheduled, and a client that keeps its connection
\* receives what is sent to it.
Fairness ==
  \A u \in Users :
    /\ WF_vars(Server(u))
    /\ WF_vars(AnyReceive(u) /\ UNCHANGED <<serverVars, record>>)

FairSpec == Spec /\ Fairness
-----------------------------------------------------------------------------
Segments == Users \cup Lines
TypeOK ==
  /\ NetTypeOK(Segments)
  /\ alive \in BOOLEAN
  /\ clients \in [Slots -> [active : BOOLEAN, sockfd : Fds \cup {0}, name : Seq(Segments)]]
  /\ mutex \in Users \cup {Free}
  /\ static \in Seq(Segments) \/ static = Torn
  /\ fd \in [Users -> Fds \cup {0}]
  /\ \A u, v \in Users : u # v /\ fd[u] = fd[v] => fd[u] = 0
  /\ hpc \in [Users -> Registered \cup {"none", "name", "add", "full", "close", "closed"}]
  /\ slot \in [Users -> 0..MaxClients]

\* The table lists exactly the connections that have a handler in its command
\* loop, each in one slot: no slot keeps a descriptor that has been closed and
\* may by now belong to another client.  (server.c:46-71, 141-143)
TableIsCurrent ==
  alive =>
    \A f \in Fds :
      Cardinality(SlotsOf(f)) = Cardinality({u \in Users : fd[u] = f /\ InTable(u)})

\* Every client hears every broadcast that was begun while it was in the table,
\* in the one order in which they were begun, and nothing else; between two
\* broadcasts nobody is owed one.  (server.c:22-30 under clients_mutex)
HeardEverything ==
  /\ ~stray
  /\ mutex = Free => \A u \in Users : InTable(u) => owed[u] = << >>

\* A text is announced under the name of the client that wrote it.
\* (server.c:131-134: "[%s]: %s" with the name of client_fd)
Attributed ==
  \A u \in Users :
    hpc[u] = "sending" /\ msg[u].kind = "text" =>
      \A s \in SlotsOf(fd[u]) : msg[u].name = clients[s].name

\* A client whose connection is gone loses its slot, or the server has died.
SlotIsFreed ==
  \A u \in Users : clientEnd[u] = "gone" ~> (~alive \/ ~InTable(u))
=============================================================================
