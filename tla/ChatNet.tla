------------------------------ MODULE ChatNet ------------------------------
(***************************************************************************)
(* The TCP connections between the clients and the server of ipc-4, as     *)
(* server.c and client.c use them.  Every client makes one connection.     *)
(*                                                                         *)
(* A stream is a sequence of segments, one for each send.  It keeps their  *)
(* order but not their borders: a recv may return several at once.  Ends   *)
(* that are closed answer data with a reset; a send on a connection that   *)
(* was reset fails, and raises SIGPIPE unless the error is still pending.  *)
(***************************************************************************)
EXTENDS Integers, Sequences, FiniteSets

CONSTANTS Users,         \* the clients; one client is one user, one connection
          SocketBuffer   \* bound: segments a connection holds in one direction

ASSUME BufferAssumption == SocketBuffer \in Nat \ {0}

VARIABLES up,         \* up[u]: what u has sent and the server has not received
          down,       \* down[u]: how many segments wait for u
          clientEnd,  \* clientEnd[u]: "none", "open", "gone"
          serverEnd,  \* serverEnd[u]: "none" until accepted, "open", "gone"
          reset       \* reset[u]: the ends that have been told of a reset

netVars == <<up, down, clientEnd, serverEnd, reset>>

NetInit ==
  /\ up = [u \in Users |-> << >>]
  /\ down = [u \in Users |-> 0]
  /\ clientEnd = [u \in Users |-> "none"]
  /\ serverEnd = [u \in Users |-> "none"]
  /\ reset = [u \in Users |-> {}]

\* send by the client: it blocks while the connection is full.
ClientSend(u, segment) ==
  /\ IF serverEnd[u] = "gone"
     THEN /\ reset' = [reset EXCEPT ![u] = @ \cup {"client"}]
          /\ UNCHANGED up
     ELSE /\ Len(up[u]) < SocketBuffer
          /\ up' = [up EXCEPT ![u] = Append(@, segment)]
          /\ UNCHANGED reset
  /\ UNCHANGED <<down, clientEnd, serverEnd>>

\* send by the server; nobody there looks at its result.
ServerSend(u) ==
  /\ \/ /\ clientEnd[u] = "open"
        /\ down[u] < SocketBuffer
        /\ down' = [down EXCEPT ![u] = @ + 1]
        /\ UNCHANGED reset
     \/ /\ clientEnd[u] = "gone"
        /\ reset' = [reset EXCEPT ![u] = @ \cup {"server"}]
        /\ UNCHANGED down
  /\ UNCHANGED <<up, clientEnd, serverEnd>>

\* The last reference to the client's socket is dropped, with so many segments
\* left unread: if there are any, the server is told of a reset.
ClientDrops(u, unread) ==
  /\ clientEnd' = [clientEnd EXCEPT ![u] = "gone"]
  /\ reset' = [reset EXCEPT ![u] = IF unread > 0 THEN @ \cup {"server"} ELSE @]

ClientCloses(u) == ClientDrops(u, down[u])

ServerCloses(u) ==
  /\ serverEnd' = [serverEnd EXCEPT ![u] = "gone"]
  /\ reset' = [reset EXCEPT ![u] = IF up[u] # << >> THEN @ \cup {"client"} ELSE @]

\* The server process is gone, and with it every connection and the listener.
ServerGone ==
  /\ serverEnd' = [u \in Users |-> "gone"]
  /\ reset' = [u \in Users |-> IF up[u] # << >> THEN reset[u] \cup {"client"}
                                                ELSE reset[u]]

-----------------------------------------------------------------------------
\* What any client may do to its connection, whatever program it runs: connect
\* once, send segments, receive, leave at any moment (the end of a recv may be
\* the end of the connection).

AnyConnect(u) ==
  /\ clientEnd[u] = "none"
  /\ serverEnd[u] # "gone"
  /\ clientEnd' = [clientEnd EXCEPT ![u] = "open"]
  /\ UNCHANGED <<up, down, serverEnd, reset>>

AnySend(u, segment) == clientEnd[u] = "open" /\ ClientSend(u, segment)

AnyReceive(u) ==
  /\ clientEnd[u] = "open"
  /\ down[u] > 0
  /\ down' = [down EXCEPT ![u] = @ - 1]
  /\ UNCHANGED <<clientEnd, reset>> \/ ClientDrops(u, down[u] - 1)
  /\ UNCHANGED <<up, serverEnd>>

AnyLeave(u) ==
  /\ clientEnd[u] = "open"
  /\ ClientCloses(u)
  /\ UNCHANGED <<up, down, serverEnd>>

NetTypeOK(Segments) ==
  /\ up \in [Users -> Seq(Segments)]
  /\ \A u \in Users : Len(up[u]) <= SocketBuffer
  /\ down \in [Users -> 0..SocketBuffer]
  /\ clientEnd \in [Users -> {"none", "open", "gone"}]
  /\ serverEnd \in [Users -> {"none", "open", "gone"}]
  /\ reset \in [Users -> SUBSET {"client", "server"}]
=============================================================================
