-------------------------------- MODULE Chat --------------------------------
(***************************************************************************)
(* The chat of ipc-4: one ChatServer and one ChatClient for each user,     *)
(* over the connections of ChatNet.  It carries the record of ChatRoom     *)
(* along, so that it can be compared with it.                              *)
(***************************************************************************)
EXTENDS ChatServer, ChatClient

\* A line is sent without the newline that ends it.
ASSUME CommandsAssumption == /\ QuitLine = ExitLine
                             /\ Newline \notin Lines
                             /\ Lines \cap Users = {}

VARIABLES misread,  \* misread[u]: a recv of the server did not return what one
                    \* send of u had sent, its name first
          owed, stray  \* the record that ChatRoom keeps of broadcasts

Room == INSTANCE ChatRoom

vars == <<netVars, serverVars, clientVars, misread, owed, stray>>

Init ==
  /\ NetInit
  /\ ServerInit
  /\ ClientInit
  /\ misread = [u \in Users |-> FALSE]
  /\ owed = [u \in Users |-> << >>]
  /\ stray = FALSE

\* What the handler of u has just received is not the name, or not one line.
Misreads(u) ==
  \/ hpc[u] = "name" /\ hpc'[u] = "add" /\ buf'[u] # <<u>>
  \/ hpc[u] = "line" /\ Len(buf'[u]) > 1

ServerNext(u) ==
  /\ ServerStep(u)
  /\ misread' = [misread EXCEPT ![u] = @ \/ Misreads(u)]
  /\ Room!Record(u)
  /\ UNCHANGED clientVars

ServerWaits == UNCHANGED <<serverVars, misread, owed, stray>>

UserNext(u) == UserStep(u) /\ ServerWaits
ClosingNext(u) == ClosingStep(u) /\ ServerWaits
ReceiverNext(u) == ReceiverStep(u) /\ ServerWaits

Next ==
  \E u \in Users : ServerNext(u) \/ UserNext(u) \/ ClosingNext(u) \/ ReceiverNext(u)

Spec == Init /\ [][Next]_vars

\* The threads of the server and both threads of a client are scheduled; a user
\* need not ever type anything.
Fairness ==
  \A u \in Users :
    WF_vars(ServerNext(u)) /\ WF_vars(ClosingNext(u)) /\ WF_vars(ReceiverNext(u))

FairSpec == Spec /\ Fairness
-----------------------------------------------------------------------------
TypeOK ==
  /\ NetTypeOK(Users \cup Lines)
  /\ cpc \in [Users -> {"connect", "enter", "type", "close", "join", "ended"}]
  /\ rpc \in [Users -> {"none", "test", "call", "recv", "done"}]
  /\ running \in [Users -> BOOLEAN]
  /\ typed \in [Users -> 0..MaxLines]
  /\ quit \in [Users -> {"no", "exit", "eof", "lost"}]
  /\ misread \in [Users -> BOOLEAN]

\* Whatever its two threads do, and however it ends, client.c uses its connection
\* as a client of ChatRoom does, and the server goes on beside it as it does there:
\* the chat is a room.  (client.c:14-32, 36-116)
ClientsFitRoom == Room!Spec

\* A client does not let its connection run full: while the main thread sits in
\* fgets, or is blocked in a send to a server that is itself blocked in a send to
\* this client, the receiver goes on.  (client.c:14-32, 86)
ReceiverDrains ==
  \A u \in Users :
    down[u] = SocketBuffer ~> (down[u] < SocketBuffer \/ clientEnd[u] = "gone")

\* A client that was told to quit with /exit ends, unless the server took its
\* lines for something else.  (client.c:98-113, server.c:126)
ExitEnds ==
  \A u \in Users : quit[u] = "exit" ~> (cpc[u] = "ended" \/ misread[u])

\* /exit ends the client.  (client.c:83: "/exit - quit")
ExitQuits == \A u \in Users : quit[u] = "exit" ~> cpc[u] = "ended"
=============================================================================
