----------------------------- MODULE ChatServer -----------------------------
(***************************************************************************)
(* server.c of ipc-4: the accept loop and one handle_client thread per     *)
(* connection.  The threads share the table clients[] under clients_mutex, *)
(* and the buffer that get_client_name returns, which it fills under the   *)
(* mutex and its callers read after the mutex has been released.           *)
(*                                                                         *)
(* The functions that only use the table are one step each; a broadcast    *)
(* holds the mutex from its first send to its last, one step per slot.     *)
(* Names and lines are short: a recv is never cut by the size of a buffer, *)
(* and a segment has no newline in it but the one that is all of it.       *)
(***************************************************************************)
EXTENDS ChatNet

CONSTANTS MaxClients,  \* MAX_CLIENTS
          RecvMax,     \* bound: segments that one recv may return
          ListLine,    \* the line /list
          ExitLine,    \* the line /exit
          Newline,     \* a newline on its own
          Free,        \* the owner of the mutex when nobody holds it
          Torn         \* a buffer while strncpy is writing it

ASSUME ServerAssumption ==
  /\ IsFiniteSet(Users)
  /\ MaxClients \in Nat \ {0}
  /\ RecvMax \in Nat \ {0}
  /\ ListLine # ExitLine
  /\ Newline \notin {ListLine, ExitLine} \cup Users
  /\ Free \notin Users

VARIABLES
  alive,     \* the server process is running
  clients,   \* the table: slot -> [active, sockfd, name]
  mutex,     \* the user whose handler holds clients_mutex, or Free
  static,    \* the buffer of get_client_name
  fd,        \* fd[u]: the descriptor of u's connection, 0 when it has none
  hpc,       \* where the handler of u is
  buf,       \* buf[u]: the local buffer, the segments of one recv
  msg,       \* msg[u]: the local message, [kind, name, from]
  slot       \* slot[u]: the loop counter of broadcast_message

serverVars == <<alive, clients, mutex, static, fd, hpc, buf, msg, slot>>

Slots == 0..(MaxClients - 1)
Fds == 1..Cardinality(Users)
NoMessage == [kind |-> "none", name |-> << >>, from |-> Free]

ServerInit ==
  /\ alive = TRUE
  /\ clients = [s \in Slots |-> [active |-> FALSE, sockfd |-> 0, name |-> << >>]]
  /\ mutex = Free
  /\ static = << >>
  /\ fd = [u \in Users |-> 0]
  /\ hpc = [u \in Users |-> "none"]
  /\ buf = [u \in Users |-> << >>]
  /\ msg = [u \in Users |-> NoMessage]
  /\ slot = [u \in Users |-> 0]

Goto(u, place) == hpc' = [hpc EXCEPT ![u] = place]

\* memset of the local buffer, before each recv
ClearBuffer(u) == buf' = [buf EXCEPT ![u] = << >>]

\* The slots that the loops over clients[] find for descriptor f.
SlotsOf(f) == {s \in Slots : clients[s].active /\ clients[s].sockfd = f}
FreeSlots == {s \in Slots : ~clients[s].active}
First(S) == CHOOSE s \in S : \A t \in S : s <= t

-----------------------------------------------------------------------------
\* Mutant of Accept: main closes the descriptor that the handler is to use.
AcceptAndClose(u) ==
  /\ clientEnd[u] # "none"
  /\ serverEnd[u] = "none"
  /\ ServerCloses(u)
  /\ fd' = [fd EXCEPT ![u] = First(Fds)]
  /\ Goto(u, "name")
  /\ UNCHANGED <<up, down, clientEnd>>
  /\ UNCHANGED <<alive, clients, mutex, static, buf, msg, slot>>

\* main: accept returns the lowest free descriptor, pthread_create a handler.
Accept(u) ==
  /\ clientEnd[u] # "none"
  /\ serverEnd[u] = "none"
  /\ serverEnd' = [serverEnd EXCEPT ![u] = "open"]
  /\ fd' = [fd EXCEPT ![u] = First(Fds \ {fd[v] : v \in Users})]
  /\ Goto(u, "name")
  /\ UNCHANGED <<up, down, clientEnd, reset>>
  /\ UNCHANGED <<alive, clients, mutex, static, buf, msg, slot>>

-----------------------------------------------------------------------------
\* handle_client

\* A buffer up to the first newline in it.
FirstLine(b) ==
  LET ends == {i \in 1..Len(b) : b[i] = Newline}
  IN  IF ends = {} THEN b ELSE SubSeq(b, 1, First(ends) - 1)

\* recv with n > 0: the next segments of the stream, RecvMax at most.
Receive(u) ==
  \E k \in 1..RecvMax :
    /\ k <= Len(up[u])
    /\ buf' = [buf EXCEPT ![u] = FirstLine(SubSeq(up[u], 1, k))]
    /\ up' = [up EXCEPT ![u] = SubSeq(@, k + 1, Len(@))]
    /\ UNCHANGED <<down, clientEnd, serverEnd, reset>>

\* recv with n <= 0: everything has been received and the peer is gone.
EndOfStream(u) == up[u] = << >> /\ clientEnd[u] = "gone"

RecvName(u) ==
  /\ hpc[u] = "name"
  /\ Receive(u)
  /\ Goto(u, "add")
  /\ UNCHANGED <<alive, clients, mutex, static, fd, msg, slot>>

RecvNameFails(u) ==
  /\ hpc[u] = "name"
  /\ EndOfStream(u)
  /\ Goto(u, "close")
  /\ UNCHANGED netVars
  /\ UNCHANGED <<alive, clients, mutex, static, fd, buf, msg, slot>>

Message(u, kind, name) ==
  msg' = [msg EXCEPT ![u] = [kind |-> kind, name |-> name, from |-> u]]

\* add_client: the first slot that is not active
AddClient(u) ==
  /\ hpc[u] = "add"
  /\ mutex = Free
  /\ FreeSlots # {}
  /\ clients' = [clients EXCEPT ![First(FreeSlots)] =
                   [active |-> TRUE, sockfd |-> fd[u], name |-> buf[u]]]
  /\ Message(u, "joined", buf[u])
  /\ Goto(u, "announce")
  /\ UNCHANGED netVars
  /\ UNCHANGED <<alive, mutex, static, fd, buf, slot>>

\* add_client returns -1.
NoSlot(u) ==
  /\ hpc[u] = "add"
  /\ mutex = Free
  /\ FreeSlots = {}
  /\ Goto(u, "full")
  /\ UNCHANGED netVars
  /\ UNCHANGED <<alive, clients, mutex, static, fd, buf, msg, slot>>

SendFull(u) ==
  /\ hpc[u] = "full"
  /\ ServerSend(u)
  /\ Goto(u, "close")
  /\ UNCHANGED <<alive, clients, mutex, static, fd, buf, msg, slot>>

\* The command loop: /exit, /list, nothing, or a text to pass on.
RecvLine(u) ==
  /\ hpc[u] = "line"
  /\ Receive(u)
  /\ Goto(u, CASE buf'[u] = <<ExitLine>> -> "leave"
               [] buf'[u] = <<ListLine>> -> "list"
               [] buf'[u] = << >> -> "line"
               [] OTHER -> "text")
  /\ UNCHANGED <<alive, clients, mutex, static, fd, msg, slot>>

\* Mutant of RecvLineFails: the end of the stream is not noticed.
RecvAgain(u) ==
  /\ hpc[u] = "line"
  /\ EndOfStream(u)
  /\ UNCHANGED <<netVars, serverVars>>

RecvLineFails(u) ==
  /\ hpc[u] = "line"
  /\ EndOfStream(u)
  /\ Goto(u, "leave")
  /\ UNCHANGED netVars
  /\ UNCHANGED <<alive, clients, mutex, static, fd, buf, msg, slot>>

\* get_client_name, twice in the handler: lock, find the slot, start to copy
GetName(u) ==
  /\ hpc[u] \in {"text", "leave"}
  /\ mutex = Free
  /\ mutex' = u
  /\ static' = IF SlotsOf(fd[u]) # {} THEN Torn ELSE static
  /\ Goto(u, IF hpc[u] = "text" THEN "copyText" ELSE "copyLeave")
  /\ UNCHANGED netVars
  /\ UNCHANGED <<alive, clients, fd, buf, msg, slot>>

\* ... finish the copy and unlock.
GotName(u) ==
  /\ hpc[u] \in {"copyText", "copyLeave"}
  /\ mutex' = Free
  /\ static' = IF SlotsOf(fd[u]) # {} THEN clients[First(SlotsOf(fd[u]))].name ELSE static
  /\ Goto(u, IF hpc[u] = "copyText" THEN "formatText" ELSE "formatLeave")
  /\ UNCHANGED netVars
  /\ UNCHANGED <<alive, clients, fd, buf, msg, slot>>

\* What the pointer returned by get_client_name points at now.
NameReturned(u) == IF SlotsOf(fd[u]) # {} THEN static ELSE <<"Unknown">>

\* snprintf of the message, after the mutex has been released
FormatText(u) ==
  /\ hpc[u] = "formatText"
  /\ Message(u, "text", NameReturned(u))
  /\ Goto(u, "announce")
  /\ UNCHANGED netVars
  /\ UNCHANGED <<alive, clients, mutex, static, fd, buf, slot>>

FormatLeave(u) ==
  /\ hpc[u] = "formatLeave"
  /\ Message(u, "left", NameReturned(u))
  /\ Goto(u, "remove")
  /\ UNCHANGED netVars
  /\ UNCHANGED <<alive, clients, mutex, static, fd, buf, slot>>

\* Mutant of RemoveClient: the descriptor is closed and the slot forgotten.
CloseThenRemove(u) ==
  /\ hpc[u] = "remove"
  /\ mutex = Free
  /\ fd' = [fd EXCEPT ![u] = 0]
  /\ ServerCloses(u)
  /\ Goto(u, "announce")
  /\ UNCHANGED <<up, down, clientEnd>>
  /\ UNCHANGED <<alive, clients, mutex, static, buf, msg, slot>>

\* remove_client
RemoveClient(u) ==
  /\ hpc[u] = "remove"
  /\ mutex = Free
  /\ clients' = IF SlotsOf(fd[u]) = {} THEN clients
                ELSE [clients EXCEPT ![First(SlotsOf(fd[u]))].active = FALSE]
  /\ Goto(u, "announce")
  /\ UNCHANGED netVars
  /\ UNCHANGED <<alive, mutex, static, fd, buf, msg, slot>>

CloseFd(u) ==
  /\ hpc[u] = "close"
  /\ ServerCloses(u)
  /\ fd' = [fd EXCEPT ![u] = 0]
  /\ Goto(u, "closed")
  /\ UNCHANGED <<up, down, clientEnd>>
  /\ UNCHANGED <<alive, clients, mutex, static, buf, msg, slot>>

-----------------------------------------------------------------------------
\* send_user_list: the list is made under the mutex and sent without it.
BuildList(u) ==
  /\ hpc[u] = "list"
  /\ mutex = Free
  /\ Goto(u, "sendList")
  /\ UNCHANGED netVars
  /\ UNCHANGED <<alive, clients, mutex, static, fd, buf, msg, slot>>

SendList(u) ==
  /\ hpc[u] = "sendList"
  /\ ServerSend(u)
  /\ Goto(u, "line")
  /\ ClearBuffer(u)
  /\ UNCHANGED <<alive, clients, mutex, static, fd, msg, slot>>

-----------------------------------------------------------------------------
\* broadcast_message

\* The descriptor that is left out: -1 for a text, the own one otherwise.
Skipped(u) == IF msg[u].kind = "text" THEN -1 ELSE fd[u]

\* Mutant of LockMutex: a broadcast goes without the mutex.
LockTaken(u) == mutex' = u

LockMutex(u) == mutex = Free /\ mutex' = u

BroadcastLock(u) ==
  /\ hpc[u] = "announce"
  /\ LockMutex(u)
  /\ slot' = [slot EXCEPT ![u] = 0]
  /\ Goto(u, "sending")
  /\ UNCHANGED netVars
  /\ UNCHANGED <<alive, clients, static, fd, buf, msg>>

\* The users that a slot's descriptor stands for now.
Owners(s) == {v \in Users : fd[v] = clients[s].sockfd}

Addressed(u, s) == clients[s].active /\ clients[s].sockfd # Skipped(u)

\* One turn of the loop.
BroadcastSlot(u) ==
  /\ hpc[u] = "sending"
  /\ slot[u] < MaxClients
  /\ slot' = [slot EXCEPT ![u] = @ + 1]
  /\ IF Addressed(u, slot[u])
     THEN \E v \in Owners(slot[u]) : ServerSend(v)
     ELSE UNCHANGED netVars
  /\ UNCHANGED <<alive, clients, mutex, static, fd, hpc, buf, msg>>

BroadcastUnlock(u) ==
  /\ hpc[u] = "sending"
  /\ slot[u] = MaxClients
  /\ mutex' = Free
  /\ Goto(u, IF msg[u].kind = "left" THEN "close" ELSE "line")
  /\ ClearBuffer(u)
  /\ UNCHANGED netVars
  /\ UNCHANGED <<alive, clients, static, fd, msg, slot>>

-----------------------------------------------------------------------------
\* The connection on which the handler of u is about to send.
SendsTo(u) ==
  CASE hpc[u] \in {"full", "sendList"} -> {u}
    [] hpc[u] = "sending" /\ slot[u] < MaxClients ->
         IF Addressed(u, slot[u]) THEN Owners(slot[u]) ELSE {}
    [] OTHER -> {}

\* A send on a connection that has been reset raises SIGPIPE, which nobody
\* handles: it ends the server.
SigPipe(u) ==
  /\ \E v \in SendsTo(u) : "server" \in reset[v]
  /\ alive' = FALSE
  /\ ServerGone
  /\ UNCHANGED <<up, down, clientEnd>>
  /\ UNCHANGED <<clients, mutex, static, fd, hpc, buf, msg, slot>>

Handler(u) ==
  \/ RecvName(u) \/ RecvNameFails(u) \/ AddClient(u) \/ NoSlot(u) \/ SendFull(u)
  \/ RecvLine(u) \/ RecvLineFails(u) \/ GetName(u) \/ GotName(u)
  \/ FormatText(u) \/ FormatLeave(u) \/ RemoveClient(u) \/ CloseFd(u)
  \/ BuildList(u) \/ SendList(u)
  \/ BroadcastLock(u) \/ BroadcastSlot(u) \/ BroadcastUnlock(u)
  \/ SigPipe(u)

ServerStep(u) == alive /\ (Accept(u) \/ Handler(u))
=============================================================================
