---------------------------- MODULE HttpForever ----------------------------
(***************************************************************************)
(* bonus_http4ever/httpforever.cpp: a client connects to the first address *)
(* of a host that accepts it, sends one request and saves the answer to a  *)
(* file.  Each call moves as many bytes as the kernel likes, or fails.     *)
(***************************************************************************)
EXTENDS Integers, SequencesExt

CONSTANTS
  AddressCount,  \* bound: the addresses of the host
  HttpBytes,
  RequestBytes,  \* the request, a sequence
  Answers,       \* what the server may send before it closes the connection
  StatusLine,    \* "HTTP/1.1 200 OK", one byte here
  RecvBuffer     \* the size of recvbuf

ASSUME HttpAssumption ==
  /\ AddressCount \in Nat /\ RecvBuffer \in Nat \ {0}
  /\ RequestBytes \in Seq(HttpBytes) /\ Answers \subseteq Seq(HttpBytes)

VARIABLES
  phase,
  exitCode,     \* the exit status; 128 + 13 when SIGPIPE has ended it
  untried,      \* the addresses from rp on
  sent,
  delivered,    \* what was sent to the server
  response,     \* what the server sends
  accumulated,
  recvbuf,      \* the n bytes that the last recv has returned
  wrote,
  saved         \* the contents of httpforever.html

sending == <<untried, sent, delivered>>
receiving == <<response, accumulated, recvbuf, wrote, saved>>
httpVars == <<phase, exitCode, sending, receiving>>

HttpInit ==
  /\ phase = "resolve" /\ exitCode = -1
  /\ untried \in 0..AddressCount
  /\ sent = 0 /\ delivered = << >>
  /\ response \in Answers
  /\ accumulated = << >> /\ recvbuf = << >> /\ wrote = 0 /\ saved = << >>

Proceeds(from, to) == phase = from /\ phase' = to /\ UNCHANGED exitCode
Returns(from, code) == phase = from /\ phase' = "ended" /\ exitCode' = code

\* getaddrinfo; the host has an address if it is found.
Resolve ==
  /\ (untried > 0 /\ Proceeds("resolve", "connect")) \/ Returns("resolve", 1)
  /\ UNCHANGED <<sending, receiving>>

\* socket or connect fails, or both succeed: one turn of the loop.
Connect ==
  /\ untried > 0 /\ untried' = untried - 1
  /\ Proceeds("connect", "connect") \/ Proceeds("connect", "send")
  /\ UNCHANGED <<sent, delivered, receiving>>

NotConnected == untried = 0 /\ Returns("connect", 2) /\ UNCHANGED <<sending, receiving>>

Send ==
  /\ Proceeds("send", "send")
  /\ \E n \in 1..(Len(RequestBytes) - sent) :
       /\ delivered' = delivered \o SubSeq(RequestBytes, sent + 1, sent + n)
       /\ sent' = sent + n
  /\ UNCHANGED <<untried, receiving>>

\* An error, or the signal when the server has reset the connection.
SendFails ==
  /\ sent < Len(RequestBytes)
  /\ Returns("send", 3) \/ Returns("send", 141)
  /\ UNCHANGED <<sending, receiving>>

OpenFile ==
  /\ sent = Len(RequestBytes)
  /\ Proceeds("send", "recv") \/ Returns("send", 4)
  /\ UNCHANGED <<sending, receiving>>

Recv ==
  /\ Proceeds("recv", "write")
  /\ \E n \in 1..RecvBuffer :
       /\ Len(accumulated) + n <= Len(response)
       /\ recvbuf' = SubSeq(response, Len(accumulated) + 1, Len(accumulated) + n)
  /\ wrote' = 0
  /\ UNCHANGED <<sending, response, accumulated, saved>>

RecvFails == Returns("recv", 5) /\ UNCHANGED <<sending, receiving>>

\* Mutant of Write: what a short write has left is not written.
WriteOnce ==
  /\ Proceeds("write", "write") /\ wrote < Len(recvbuf)
  /\ \E w \in 1..Len(recvbuf) : saved' = saved \o SubSeq(recvbuf, 1, w)
  /\ wrote' = Len(recvbuf)
  /\ UNCHANGED <<sending, response, accumulated, recvbuf>>

Write ==
  /\ Proceeds("write", "write")
  /\ \E w \in 1..(Len(recvbuf) - wrote) :
       /\ saved' = saved \o SubSeq(recvbuf, wrote + 1, wrote + w)
       /\ wrote' = wrote + w
  /\ UNCHANGED <<sending, response, accumulated, recvbuf>>

WriteFails ==
  wrote < Len(recvbuf) /\ Returns("write", 7) /\ UNCHANGED <<sending, receiving>>

Accumulate ==
  /\ wrote = Len(recvbuf) /\ Proceeds("write", "recv")
  /\ accumulated' = accumulated \o recvbuf
  /\ UNCHANGED <<sending, response, recvbuf, wrote, saved>>

\* recv returns 0; the status line is looked for in all that was received.
AnswerEnds ==
  /\ Len(accumulated) = Len(response)
  /\ Returns("recv", IF Contains(accumulated, StatusLine) THEN 0 ELSE 6)
  /\ UNCHANGED <<sending, receiving>>

HttpNext ==
  \/ Resolve \/ Connect \/ NotConnected \/ Send \/ SendFails \/ OpenFile
  \/ Recv \/ RecvFails \/ Write \/ WriteFails \/ Accumulate \/ AnswerEnds

HttpSpec == HttpInit /\ [][HttpNext]_httpVars
-----------------------------------------------------------------------------
HttpTypeOK ==
  /\ phase \in {"resolve", "connect", "send", "recv", "write", "ended"}
  /\ exitCode \in {-1, 0, 1, 2, 3, 4, 5, 6, 7, 141}
  /\ untried \in 0..AddressCount /\ sent \in 0..Len(RequestBytes)
  /\ wrote \in 0..Len(recvbuf)

\* The server gets the request once, whole and in order before its answer is read.
\* The file is always a beginning of the answer, however the calls cut it, and it is
\* all of it, with the status line in it, when the program says that it was saved.
\* (httpforever.cpp:56-65, 76-100, 105-106)
SavedAsSent ==
  /\ IsPrefix(delivered, RequestBytes)
  /\ phase \in {"recv", "write"} => delivered = RequestBytes
  /\ IsPrefix(saved, response)
  /\ exitCode = 0 => saved = response /\ Contains(saved, StatusLine)
=============================================================================
