---------------------------- MODULE PrimeService ----------------------------
(***************************************************************************)
(* IPC-2: the parent reads numbers n from its user, sends each to a child  *)
(* over one pipe and reads the n-th prime, or -1, from another; the child  *)
(* looks the primes up in a sieve.  Both inherit all four ends of the      *)
(* pipes and each closes two.  SIGINT and SIGTERM close whatever is open   *)
(* and exit.                                                               *)
(***************************************************************************)
EXTENDS Integers, FiniteSets, SequencesExt

CONSTANTS
  SieveSize,  \* the argument of the constructor of Eratosthenes
  Requests,   \* what the user may type
  MaxAsked    \* bound: numbers typed

ASSUME ServiceAssumption ==
  SieveSize \in Nat \ {0} /\ Requests \subseteq Int /\ MaxAsked \in Nat

VARIABLES
  doing,    \* doing[p]: where process p is
  causeOf,  \* causeOf[p]: how it has ended
  open,     \* open[p]: the ends of the pipes that p holds
  pipe,     \* what is in the pipes fd1, "request", and fd2, "reply"
  number,   \* number[p]: its variable n
  answer,   \* the variable result of the parent
  asked

conversation == <<number, answer, asked>>
serviceVars == <<doing, causeOf, open, pipe, conversation>>

Processes == {"parent", "child"}
Ends == {"request", "reply"} \X {"read", "write"}

\* The ends a process uses.
Own(p) == IF p = "parent" THEN {<<"request", "write">>, <<"reply", "read">>}
                          ELSE {<<"request", "read">>, <<"reply", "write">>}

ServiceInit ==
  /\ doing = [p \in Processes |-> IF p = "parent" THEN "start" ELSE "unborn"]
  /\ causeOf = [p \in Processes |-> "none"]
  /\ open = [p \in Processes |-> {}]
  /\ pipe = [q \in {"request", "reply"} |-> << >>]
  /\ number = [p \in Processes |-> 0] /\ answer = 0 /\ asked = 0

-----------------------------------------------------------------------------
\* Eratosthenes.cpp

CrossOut(isPrime, i) == [j \in 0..SieveSize |-> isPrime[j] /\ ~(j >= i * i /\ j % i = 0)]

\* Mutant of MustCross: i * i < n
MustCrossLess(isPrime, i) == i * i < SieveSize /\ isPrime[i]

MustCross(isPrime, i) == i * i <= SieveSize /\ isPrime[i]

Sieve ==
  FoldLeft(LAMBDA isPrime, i : IF MustCross(isPrime, i) THEN CrossOut(isPrime, i) ELSE isPrime,
           [j \in 0..SieveSize |-> j >= 2],
           [i \in 1..SieveSize |-> i + 1])

primes ==
  FoldLeft(LAMBDA list, i : IF Sieve[i] THEN Append(list, i) ELSE list, << >>,
           [i \in 1..(SieveSize - 1) |-> i + 1])

Result(n) == IF n >= 1 /\ n <= Len(primes) THEN primes[n] ELSE -1

-----------------------------------------------------------------------------
\* Both processes.

Lives(p) == doing[p] \notin {"unborn", "dead", "reaped"}
Held(end) == \E p \in Processes : end \in open[p]
Goes(p, from, to) == doing[p] = from /\ doing' = [doing EXCEPT ![p] = to]

\* A process ends, and with it its hold on the pipes.
Dies(p, why) ==
  /\ doing' = [doing EXCEPT ![p] = "dead"]
  /\ causeOf' = [causeOf EXCEPT ![p] = why]
  /\ open' = [open EXCEPT ![p] = {}]

\* sighandler, also when check raises SIGINT because a call has failed.
Signalled(p) == Lives(p) /\ Dies(p, "signal") /\ UNCHANGED <<pipe, conversation>>

\* A write to a pipe that nobody can read raises SIGPIPE, which is not handled.
Writes(p, q, value, from, to) ==
  /\ \/ /\ Held(<<q, "read">>) /\ Goes(p, from, to)
        /\ pipe' = [pipe EXCEPT ![q] = Append(@, value)]
        /\ UNCHANGED <<causeOf, open>>
     \/ doing[p] = from /\ ~Held(<<q, "read">>) /\ Dies(p, "sigpipe") /\ UNCHANGED pipe
  /\ UNCHANGED conversation

\* A read waits while the pipe is empty and somebody can write to it.
Reads(p, q, from, to) ==
  \/ Goes(p, from, to) /\ pipe[q] # << >> /\ pipe' = [pipe EXCEPT ![q] = Tail(@)]
  \/ Goes(p, from, "finish") /\ pipe[q] = << >> /\ ~Held(<<q, "write">>) /\ UNCHANGED pipe

Fork ==
  /\ doing["parent"] = "start"
  /\ doing' = [p \in Processes |-> "close"]
  /\ open' = [p \in Processes |-> Ends]
  /\ UNCHANGED <<causeOf, pipe, conversation>>

\* Mutant of CloseOthers: all ends stay open.
CloseNone(p) ==
  /\ Goes(p, "close", IF p = "parent" THEN "prompt" ELSE "read")
  /\ UNCHANGED <<causeOf, open, pipe, conversation>>

CloseOthers(p) ==
  /\ Goes(p, "close", IF p = "parent" THEN "prompt" ELSE "read")
  /\ open' = [open EXCEPT ![p] = Own(p)]
  /\ UNCHANGED <<causeOf, pipe, conversation>>

CloseOwn(p) ==
  /\ Goes(p, "finish", IF p = "parent" THEN "wait" ELSE "exit")
  /\ open' = [open EXCEPT ![p] = {}]
  /\ UNCHANGED <<causeOf, pipe, conversation>>

-----------------------------------------------------------------------------
ReadRequest ==
  /\ Reads("child", "request", "read", "reply")
  /\ number' = IF doing'["child"] = "reply"
                 THEN [number EXCEPT !["child"] = Head(pipe["request"])] ELSE number
  /\ UNCHANGED <<causeOf, open, answer, asked>>

Reply == Writes("child", "reply", Result(number["child"]), "reply", "read")

ChildExits == doing["child"] = "exit" /\ Dies("child", "exit") /\ UNCHANGED <<pipe, conversation>>

\* cin leaves 0 in n when what was typed is no number.  When input has ended it assigns
\* nothing, and n, which is not initialised, is anything.
TypeNumber ==
  /\ \E n \in Requests \cup {0} :
       /\ Goes("parent", "prompt", IF n = 0 THEN "finish" ELSE "send")
       /\ n # 0 => asked < MaxAsked
       /\ asked' = IF n = 0 THEN asked ELSE asked + 1
       /\ number' = [number EXCEPT !["parent"] = n]
  /\ UNCHANGED <<causeOf, open, pipe, answer>>

SendRequest == Writes("parent", "request", number["parent"], "send", "receive")

\* Mutant of Receive: for a number out of range the parent does not wait.
ReceiveValid ==
  /\ IF number["parent"] < 1
       THEN Goes("parent", "receive", "print") /\ answer' = -1 /\ UNCHANGED pipe
       ELSE /\ Reads("parent", "reply", "receive", "print")
            /\ answer' = IF doing'["parent"] = "print" THEN Head(pipe["reply"]) ELSE answer
  /\ UNCHANGED <<causeOf, open, number, asked>>

Receive ==
  /\ Reads("parent", "reply", "receive", "print")
  /\ answer' = IF doing'["parent"] = "print" THEN Head(pipe["reply"]) ELSE answer
  /\ UNCHANGED <<causeOf, open, number, asked>>

PrintAnswer == Goes("parent", "print", "prompt") /\ UNCHANGED <<causeOf, open, pipe, conversation>>

Wait ==
  /\ doing["parent"] = "wait" /\ doing["child"] = "dead"
  /\ doing' = [p \in Processes |-> IF p = "parent" THEN "dead" ELSE "reaped"]
  /\ causeOf' = [causeOf EXCEPT !["parent"] = "exit"]
  /\ UNCHANGED <<open, pipe, conversation>>

ChildStep == CloseOthers("child") \/ ReadRequest \/ Reply \/ CloseOwn("child") \/ ChildExits
ParentStep ==
  \/ Fork \/ CloseOthers("parent") \/ SendRequest \/ Receive \/ PrintAnswer
  \/ CloseOwn("parent") \/ Wait

ServiceNext == ChildStep \/ ParentStep \/ TypeNumber \/ \E p \in Processes : Signalled(p)

ServiceSpec == ServiceInit /\ [][ServiceNext]_serviceVars
-----------------------------------------------------------------------------
Doings == {"unborn", "start", "close", "prompt", "send", "receive", "print", "read", "reply",
           "finish", "wait", "exit", "dead", "reaped"}

ServiceTypeOK ==
  /\ doing \in [Processes -> Doings]
  /\ causeOf \in [Processes -> {"none", "exit", "signal", "sigpipe"}]
  /\ open \in [Processes -> SUBSET Ends]
  /\ pipe \in [{"request", "reply"} -> Seq(Int)]
  /\ number \in [Processes -> Int] /\ answer \in Int /\ asked \in 0..MaxAsked

IsPrime(m) == m >= 2 /\ \A d \in 2..(m - 1) : m % d # 0
Below(m) == {i \in 2..m : IsPrime(i)}

\* What the parent prints belongs to the number that was typed last: it is the n-th
\* prime, or -1 if there are not so many up to the size of the sieve.
\* (IPC-2/main.cpp:54-60, 82-95, Eratosthenes.cpp:3-17)
AnswersArePrimes ==
  doing["parent"] = "print" =>
    LET n == number["parent"] IN
    IF n \in 1..Cardinality(Below(SieveSize))
      THEN answer \in Below(SieveSize) /\ Cardinality(Below(answer)) = n
      ELSE answer = -1

\* A process is ended by SIGPIPE only if a signal has ended the other: nobody leaves
\* while the other one still has something to send to it.  (IPC-2/main.cpp:60, 82)
BrokenBySignalOnly ==
  \A p, q \in Processes : causeOf[p] = "sigpipe" /\ q # p => causeOf[q] = "signal"

\* Nobody waits for ever: the parent hears from the child or of its end, and both
\* processes are gone some time after the parent has stopped asking, however that
\* came about.  (IPC-2/main.cpp:45-48, 55, 71-74, 87, 98-102)
NobodyHangs ==
  /\ doing["parent"] = "receive" ~> doing["parent"] # "receive"
  /\ doing["parent"] \in {"finish", "dead"} ~> ~Lives("parent") /\ ~Lives("child")
=============================================================================
