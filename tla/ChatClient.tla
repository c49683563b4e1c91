----------------------------- MODULE ChatClient -----------------------------
(***************************************************************************)
(* client.c of ipc-4: the main thread reads lines and sends them, the      *)
(* thread receive_handler prints what arrives; they share the flag running *)
(* and the descriptor sockfd.                                              *)
(*                                                                         *)
(* close(sockfd) by the main thread does not end a recv that the other     *)
(* thread is blocked in, and the connection stays open until that recv     *)
(* returns; a recv called after the close fails at once.                   *)
(***************************************************************************)
EXTENDS ChatNet

CONSTANTS Lines,      \* the lines a user may type
          QuitLine,   \* the line that ends the client
          MaxLines    \* bound: lines that one user types

ASSUME ClientAssumption == QuitLine \in Lines /\ MaxLines \in Nat

VARIABLES
  cpc,      \* where the main thread of u is
  rpc,      \* where receive_handler of u is
  running,  \* the shared flag
  typed,    \* how many lines u has typed
  quit      \* how the main thread left its loop: "no", "exit", "eof", "lost"

clientVars == <<cpc, rpc, running, typed, quit>>

ClientInit ==
  /\ cpc = [u \in Users |-> "connect"]
  /\ rpc = [u \in Users |-> "none"]
  /\ running = [u \in Users |-> TRUE]
  /\ typed = [u \in Users |-> 0]
  /\ quit = [u \in Users |-> "no"]

-----------------------------------------------------------------------------
\* main

Connect(u) ==
  /\ cpc[u] = "connect"
  /\ serverEnd[u] # "gone"
  /\ clientEnd' = [clientEnd EXCEPT ![u] = "open"]
  /\ cpc' = [cpc EXCEPT ![u] = "enter"]
  /\ UNCHANGED <<up, down, serverEnd, reset, rpc, running, typed, quit>>

\* Mutant of EnterName: the name is sent before connect.
EnterUnconnected(u) ==
  /\ cpc[u] \in {"connect", "enter"}
  /\ ClientSend(u, u)
  /\ cpc' = [cpc EXCEPT ![u] = "type"]
  /\ rpc' = [rpc EXCEPT ![u] = "test"]
  /\ UNCHANGED <<running, typed, quit>>

\* The name is sent and the receiver is started.
EnterName(u) ==
  /\ cpc[u] = "enter"
  /\ ClientSend(u, u)
  /\ cpc' = [cpc EXCEPT ![u] = "type"]
  /\ rpc' = [rpc EXCEPT ![u] = "test"]
  /\ UNCHANGED <<running, typed, quit>>

\* An empty name: send is called with no bytes, and nothing is sent.
EnterEmptyName(u) ==
  /\ cpc[u] = "enter"
  /\ cpc' = [cpc EXCEPT ![u] = "type"]
  /\ rpc' = [rpc EXCEPT ![u] = "test"]
  /\ UNCHANGED <<netVars, running, typed, quit>>

\* End of input instead of a name, or connect failed: exit(1).
GiveUp(u) ==
  /\ \/ cpc[u] = "enter" /\ ClientCloses(u)
     \/ cpc[u] = "connect" /\ serverEnd[u] = "gone" /\ UNCHANGED <<clientEnd, reset>>
  /\ cpc' = [cpc EXCEPT ![u] = "ended"]
  /\ UNCHANGED <<up, down, serverEnd, rpc, running, typed, quit>>

\* Mutant of TypeLine: only /exit is accepted, and it is not sent.
QuitUnsent(u, l) ==
  /\ cpc[u] = "type"
  /\ l = QuitLine
  /\ running' = [running EXCEPT ![u] = FALSE]
  /\ quit' = [quit EXCEPT ![u] = "exit"]
  /\ cpc' = [cpc EXCEPT ![u] = "close"]
  /\ UNCHANGED <<netVars, rpc, typed>>

\* fgets returns a line; it is sent and the loop test repeated.
TypeLine(u, l) ==
  /\ cpc[u] = "type"
  /\ typed[u] < MaxLines
  /\ typed' = [typed EXCEPT ![u] = @ + 1]
  /\ ClientSend(u, l)
  /\ \/ /\ l = QuitLine
        /\ running' = [running EXCEPT ![u] = FALSE]
        /\ quit' = [quit EXCEPT ![u] = "exit"]
        /\ cpc' = [cpc EXCEPT ![u] = "close"]
     \/ /\ l # QuitLine
        /\ running[u]
        /\ UNCHANGED <<cpc, running, quit>>
     \/ /\ l # QuitLine
        /\ ~running[u]
        /\ quit' = [quit EXCEPT ![u] = "lost"]
        /\ cpc' = [cpc EXCEPT ![u] = "close"]
        /\ UNCHANGED running
  /\ UNCHANGED rpc

\* An empty line is not sent; while the client is running it changes nothing.
TypeEmpty(u) ==
  /\ cpc[u] = "type"
  /\ ~running[u]
  /\ quit' = [quit EXCEPT ![u] = "lost"]
  /\ cpc' = [cpc EXCEPT ![u] = "close"]
  /\ UNCHANGED <<netVars, rpc, running, typed>>

\* fgets returns NULL.
TypeEof(u) ==
  /\ cpc[u] = "type"
  /\ quit' = [quit EXCEPT ![u] = "eof"]
  /\ cpc' = [cpc EXCEPT ![u] = "close"]
  /\ UNCHANGED <<netVars, rpc, running, typed>>

\* A line is sent on a connection that has been reset: SIGPIPE.
ClientSigPipe(u) ==
  /\ cpc[u] = "type"
  /\ "client" \in reset[u]
  /\ ClientCloses(u)
  /\ cpc' = [cpc EXCEPT ![u] = "ended"]
  /\ rpc' = [rpc EXCEPT ![u] = "done"]
  /\ UNCHANGED <<up, down, serverEnd, running, typed, quit>>

\* running = 0; close(sockfd)
CloseSocket(u) ==
  /\ cpc[u] = "close"
  /\ running' = [running EXCEPT ![u] = FALSE]
  /\ cpc' = [cpc EXCEPT ![u] = "join"]
  /\ IF rpc[u] = "recv" THEN UNCHANGED <<clientEnd, reset>> ELSE ClientCloses(u)
  /\ UNCHANGED <<up, down, serverEnd, rpc, typed, quit>>

\* pthread_join returns, and so does main.
JoinReceiver(u) ==
  /\ cpc[u] = "join"
  /\ rpc[u] = "done"
  /\ cpc' = [cpc EXCEPT ![u] = "ended"]
  /\ UNCHANGED <<netVars, rpc, running, typed, quit>>

-----------------------------------------------------------------------------
\* receive_handler

\* The end of a recv drops the connection if the main thread closed sockfd.
DropIfClosed(u, left) ==
  IF cpc[u] = "join"
  THEN ClientDrops(u, left)
  ELSE UNCHANGED <<clientEnd, reset>>

\* while (running)
TestRunning(u) ==
  /\ rpc[u] = "test"
  /\ rpc' = [rpc EXCEPT ![u] = IF running[u] THEN "call" ELSE "done"]
  /\ UNCHANGED <<netVars, cpc, running, typed, quit>>

\* Mutant of CallRecv: nothing is received while a line is typed.
RecvBetweenLines(u) ==
  /\ rpc[u] = "call"
  /\ cpc[u] # "type"
  /\ rpc' = [rpc EXCEPT ![u] = "recv"]
  /\ UNCHANGED <<netVars, cpc, running, typed, quit>>

\* recv blocks, or fails because sockfd has been closed.
CallRecv(u) ==
  /\ rpc[u] = "call"
  /\ rpc' = [rpc EXCEPT ![u] = IF cpc[u] = "join" THEN "done" ELSE "recv"]
  /\ UNCHANGED <<netVars, cpc, running, typed, quit>>

\* Mutant of RecvData: the end of the stream is taken for data.
RecvZero(u) ==
  /\ rpc[u] = "recv"
  /\ down[u] > 0 \/ serverEnd[u] = "gone"
  /\ down' = [down EXCEPT ![u] = @ - 1]
  /\ rpc' = [rpc EXCEPT ![u] = "test"]
  /\ DropIfClosed(u, down[u] - 1)
  /\ UNCHANGED <<up, serverEnd, cpc, running, typed, quit>>

RecvData(u) ==
  /\ rpc[u] = "recv"
  /\ down[u] > 0
  /\ down' = [down EXCEPT ![u] = @ - 1]
  /\ rpc' = [rpc EXCEPT ![u] = "test"]
  /\ DropIfClosed(u, down[u] - 1)
  /\ UNCHANGED <<up, serverEnd, cpc, running, typed, quit>>

RecvEnd(u) ==
  /\ rpc[u] = "recv"
  /\ down[u] = 0
  /\ serverEnd[u] = "gone"
  /\ running' = [running EXCEPT ![u] = FALSE]
  /\ rpc' = [rpc EXCEPT ![u] = "done"]
  /\ DropIfClosed(u, 0)
  /\ UNCHANGED <<up, down, serverEnd, cpc, typed, quit>>

UserStep(u) ==
  \/ Connect(u) \/ EnterName(u) \/ EnterEmptyName(u) \/ GiveUp(u)
  \/ \E l \in Lines : TypeLine(u, l)
  \/ TypeEmpty(u) \/ TypeEof(u) \/ ClientSigPipe(u)

ClosingStep(u) == CloseSocket(u) \/ JoinReceiver(u)

ReceiverStep(u) == TestRunning(u) \/ CallRecv(u) \/ RecvData(u) \/ RecvEnd(u)
=============================================================================
