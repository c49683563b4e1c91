-------------------------- MODULE InteractiveShell --------------------------
(***************************************************************************)
(* The shell of ps_2 and the processes it starts.  A line is a sequence of *)
(* tokens; executeCommandWithOperators walks over them, executeProcess     *)
(* forks one command and waits for it unless it goes to the background,    *)
(* executePipeline makes the pipes, forks every stage, closes the pipes    *)
(* and calls wait once per stage.                                          *)
(*                                                                         *)
(* A forked process holds every descriptor that the shell holds, until it  *)
(* closes them before execvp.  The programs are any filters: they pass on  *)
(* what they read, and end when their input has ended or earlier.  What    *)
(* redirections and arguments say is left out.                             *)
(***************************************************************************)
EXTENDS Integers, Sequences, FiniteSets

CONSTANTS
  Lines,     \* the lines that may be typed, as sequences of tokens
  MaxPids,   \* bound: processes, zombies included
  MaxPipes,  \* bound: pipes that exist at the same time
  Items      \* bound: what a program without input has to write

ASSUME BoundsAssumption ==
  MaxPids \in Nat \ {0} /\ MaxPipes \in Nat \ {0} /\ Items \in Nat

Pids == 1..MaxPids
Pipes == 1..MaxPipes
Shell == 0
None == 0                      \* a standard stream that is no pipe
Redirections == {"<", ">", ">>"}

VARIABLES
  pc,                \* where the shell is
  tokens,            \* the tokens of the line that are still to be looked at
  cmds, args,        \* how many pipeCommands; whether currentArgs is not empty
  n, background, op, \* the call that is running: its commands, and what follows it
  i,                 \* its loop counter
  mine,              \* pipefds
  child,             \* the pid that waitpid waits for
  st, good,          \* st[p]: "free", "forked", "running", "zombie"; p exits with 0
  stdin, stdout,     \* the pipes of process p
  fds,               \* fds[p]: the pipefds that p closes before execvp
  left,              \* left[p]: what p has still to write
  readers, writers,  \* the processes that hold an end of a pipe
  full,              \* full[q]: there is something in pipe q
  own, strangers     \* history: processes of the pipeline that were not reaped yet;
                     \* other processes that were reaped in its waits

call == <<n, background, op>>
procs == <<st, good, stdin, stdout, fds, left>>
pipes == <<readers, writers, full>>
history == <<own, strangers>>
vars == <<pc, tokens, cmds, args, call, i, mine, child, procs, pipes, history>>

Init ==
  /\ pc = "prompt" /\ tokens = << >> /\ cmds = 0 /\ args = FALSE
  /\ n = 0 /\ background = FALSE /\ op = "end" /\ i = 0 /\ mine = << >> /\ child = 0
  /\ st = [p \in Pids |-> "free"] /\ good = [p \in Pids |-> FALSE]
  /\ stdin = [p \in Pids |-> None] /\ stdout = [p \in Pids |-> None]
  /\ fds = [p \in Pids |-> {}] /\ left = [p \in Pids |-> 0]
  /\ readers = [q \in Pipes |-> {}] /\ writers = [q \in Pipes |-> {}]
  /\ full = [q \in Pipes |-> FALSE]
  /\ own = {} /\ strangers = 0

Least(S) == CHOOSE x \in S : \A y \in S : x <= y
FreePids == {p \in Pids : st[p] = "free"}
FreePipes == {q \in Pipes : readers[q] = {} /\ writers[q] = {}}

-----------------------------------------------------------------------------
\* run, executeCommandWithOperators

\* A line is typed; input that has ended looks like an empty line, for ever.
TypeLine ==
  /\ pc = "prompt"
  /\ tokens' \in Lines
  /\ pc' = "scan"
  /\ UNCHANGED <<cmds, args, call, i, mine, child, procs, pipes, history>>

\* exit ends the shell, and with it its hold on pipes that were left open.
TypeExit ==
  /\ pc = "prompt"
  /\ pc' = "ended"
  /\ readers' = [q \in Pipes |-> readers[q] \ {Shell}]
  /\ writers' = [q \in Pipes |-> writers[q] \ {Shell}]
  /\ UNCHANGED <<tokens, cmds, args, call, i, mine, child, procs, full, history>>

Collected == cmds + (IF args THEN 1 ELSE 0)

\* executeProcess or executePipeline is called with what has been collected.
CallWith(bg, next) ==
  /\ n' = Collected /\ background' = bg /\ op' = next
  /\ i' = 0
  /\ cmds' = 0 /\ args' = FALSE
  /\ pc' = IF Collected > 1 THEN "pipe" ELSE "forkOne"

Skip(k) ==
  /\ tokens' = SubSeq(tokens, k + 1, Len(tokens))
  /\ UNCHANGED <<pc, call, i>>

ScanToken ==
  /\ pc = "scan" /\ tokens # << >>
  /\ LET token == Head(tokens) IN
     \/ /\ token \in {"&&", "||"} /\ Collected > 0
        /\ CallWith(FALSE, token)
        /\ tokens' = Tail(tokens)
     \/ /\ token \in {"&&", "||"} /\ Collected = 0
        /\ Skip(1) /\ UNCHANGED <<cmds, args>>
     \/ /\ token \in Redirections
        /\ Skip(IF Len(tokens) > 1 THEN 2 ELSE 1) /\ UNCHANGED <<cmds, args>>
     \/ /\ token = "|"
        /\ Skip(1) /\ cmds' = Collected /\ args' = FALSE
     \/ /\ token = "&" /\ Len(tokens) = 1 /\ Collected > 0
        /\ CallWith(TRUE, "end")
        /\ tokens' = << >>
     \/ /\ token = "&" => Len(tokens) > 1 \/ Collected = 0
        /\ token \notin {"&&", "||", "|"} \cup Redirections
        /\ Skip(1) /\ args' = ~(token = "&" /\ Len(tokens) = 1) /\ UNCHANGED cmds
  /\ UNCHANGED <<mine, child, procs, pipes, history>>

ScanEnd ==
  /\ pc = "scan" /\ tokens = << >>
  /\ IF Collected > 0 THEN CallWith(FALSE, "end")
                      ELSE pc' = "prompt" /\ UNCHANGED <<cmds, args, call, i>>
  /\ UNCHANGED <<tokens, mine, child, procs, pipes, history>>

\* The call returns: the operator after it decides whether the line goes on.
Returns(ok) ==
  /\ pc' = IF (op = "&&" /\ ok) \/ (op = "||" /\ ~ok) THEN "scan" ELSE "prompt"
  /\ tokens' = IF pc' = "scan" THEN tokens ELSE << >>
  /\ n' = 0 /\ background' = FALSE /\ op' = "end"
  /\ i' = 0 /\ mine' = << >> /\ child' = 0
  /\ own' = {} /\ strangers' = 0
  /\ UNCHANGED <<cmds, args>>

-----------------------------------------------------------------------------
\* executeProcess

\* fork: the new process p holds what the shell holds.
Fork(p, in, out, close) ==
  /\ st' = [st EXCEPT ![p] = "forked"]
  /\ stdin' = [stdin EXCEPT ![p] = in]
  /\ stdout' = [stdout EXCEPT ![p] = out]
  /\ fds' = [fds EXCEPT ![p] = close]
  /\ left' = [left EXCEPT ![p] = IF in = None THEN Items ELSE 0]
  /\ readers' = [q \in Pipes |-> IF Shell \in readers[q] THEN readers[q] \cup {p} ELSE readers[q]]
  /\ writers' = [q \in Pipes |-> IF Shell \in writers[q] THEN writers[q] \cup {p} ELSE writers[q]]
  /\ UNCHANGED <<good, full>>

ForkOne ==
  /\ pc = "forkOne" /\ FreePids # {}
  /\ Fork(Least(FreePids), None, None, {})
  /\ IF background
     THEN Returns(TRUE)
     ELSE /\ pc' = "waitOne" /\ child' = Least(FreePids)
          /\ UNCHANGED <<tokens, cmds, args, call, i, mine, history>>

\* fork may fail at any time, and fails when there are no pids left.
ForkOneFails ==
  /\ pc = "forkOne"
  /\ Returns(FALSE)
  /\ UNCHANGED <<procs, pipes>>

\* What wait and waitpid leave of p.
Reaped(p) ==
  /\ st' = [st EXCEPT ![p] = "free"]
  /\ good' = [good EXCEPT ![p] = FALSE]
  /\ UNCHANGED <<stdin, stdout, fds, left>>

WaitOne ==
  /\ pc = "waitOne" /\ st[child] = "zombie"
  /\ Reaped(child)
  /\ Returns(good[child])
  /\ UNCHANGED pipes

-----------------------------------------------------------------------------
\* executePipeline

MakePipe ==
  /\ pc = "pipe" /\ Len(mine) < n - 1 /\ FreePipes # {}
  /\ LET q == Least(FreePipes) IN
     /\ readers' = [readers EXCEPT ![q] = {Shell}]
     /\ writers' = [writers EXCEPT ![q] = {Shell}]
     /\ full' = [full EXCEPT ![q] = FALSE]
     /\ mine' = Append(mine, q)
  /\ pc' = IF Len(mine) + 1 = n - 1 THEN "fork" ELSE "pipe"
  /\ UNCHANGED <<tokens, cmds, args, call, i, child, procs, history>>

\* pipe may fail at any time, and fails when too many are open; those made before
\* stay open.
MakePipeFails ==
  /\ pc = "pipe" /\ Len(mine) < n - 1
  /\ Returns(FALSE)
  /\ UNCHANGED <<procs, pipes>>

Mine == {mine[k] : k \in 1..Len(mine)}

ForkStage ==
  /\ pc = "fork" /\ i < n /\ FreePids # {}
  /\ Fork(Least(FreePids), IF i > 0 THEN mine[i] ELSE None,
          IF i < n - 1 THEN mine[i + 1] ELSE None, Mine)
  /\ own' = own \cup {Least(FreePids)}
  /\ i' = i + 1
  /\ UNCHANGED <<pc, tokens, cmds, args, call, mine, child, strangers>>

\* The stages that run already are left alone, and the pipes stay open.
ForkStageFails ==
  /\ pc = "fork" /\ i < n
  /\ Returns(FALSE)
  /\ UNCHANGED <<procs, pipes>>

\* Mutant of ClosePipes: the write ends stay open in the shell.
CloseReadEnds ==
  /\ pc = "fork" /\ i = n
  /\ readers' = [q \in Pipes |-> IF q \in Mine THEN readers[q] \ {Shell} ELSE readers[q]]
  /\ pc' = "reap" /\ i' = 0
  /\ UNCHANGED <<tokens, cmds, args, call, mine, child, procs, writers, full, history>>

ClosePipes ==
  /\ pc = "fork" /\ i = n
  /\ readers' = [q \in Pipes |-> IF q \in Mine THEN readers[q] \ {Shell} ELSE readers[q]]
  /\ writers' = [q \in Pipes |-> IF q \in Mine THEN writers[q] \ {Shell} ELSE writers[q]]
  /\ pc' = "reap" /\ i' = 0
  /\ UNCHANGED <<tokens, cmds, args, call, mine, child, procs, full, history>>

\* wait, whichever child it returns; without children it fails at once.
ReapAny ==
  \/ \E p \in Pids :
       /\ st[p] = "zombie"
       /\ Reaped(p)
       /\ own' = own \ {p}
       /\ strangers' = strangers + (IF p \in own THEN 0 ELSE 1)
  \/ FreePids = Pids /\ UNCHANGED <<procs, history>>

\* Mutants of Reap: one wait too many, one too few.
ReapExtra ==
  /\ pc = "reap" /\ i <= n
  /\ ReapAny
  /\ i' = i + 1
  /\ UNCHANGED <<pc, tokens, cmds, args, call, mine, child, pipes>>

ReapFewer ==
  /\ pc = "reap" /\ i < n
  /\ IF i = 0 THEN UNCHANGED <<procs, history>> ELSE ReapAny
  /\ i' = i + 1
  /\ UNCHANGED <<pc, tokens, cmds, args, call, mine, child, pipes>>

Reap ==
  /\ pc = "reap" /\ i < n
  /\ ReapAny
  /\ i' = i + 1
  /\ UNCHANGED <<pc, tokens, cmds, args, call, mine, child, pipes>>

\* The pipeline counts as successful, however its stages ended.
PipelineReturns ==
  /\ pc = "reap" /\ i = n
  /\ Returns(TRUE)
  /\ UNCHANGED <<procs, pipes>>

-----------------------------------------------------------------------------
\* The processes.

shellVars == <<pc, tokens, cmds, args, call, i, mine, child, history>>

\* Mutant of Exec: all of pipefds is closed before dup2.
ExecClosed(p) ==
  /\ st[p] = "forked"
  /\ readers' = [q \in Pipes |-> IF q \in fds[p] THEN readers[q] \ {p} ELSE readers[q]]
  /\ writers' = [q \in Pipes |-> IF q \in fds[p] THEN writers[q] \ {p} ELSE writers[q]]
  /\ fds' = [fds EXCEPT ![p] = {}]
  /\ st' = [st EXCEPT ![p] = "running"]
  /\ UNCHANGED <<shellVars, good, stdin, stdout, left, full>>

\* dup2 of the own ends, close of all of pipefds, execvp.
Exec(p) ==
  /\ st[p] = "forked"
  /\ readers' = [q \in Pipes |-> IF q \in fds[p] \ {stdin[p]} THEN readers[q] \ {p} ELSE readers[q]]
  /\ writers' = [q \in Pipes |-> IF q \in fds[p] \ {stdout[p]} THEN writers[q] \ {p} ELSE writers[q]]
  /\ fds' = [fds EXCEPT ![p] = {}]
  /\ st' = [st EXCEPT ![p] = "running"]
  /\ UNCHANGED <<shellVars, good, stdin, stdout, left, full>>

ReadItem(p) ==
  /\ st[p] = "running" /\ left[p] = 0 /\ stdin[p] # None
  /\ full[stdin[p]]
  /\ full' = [full EXCEPT ![stdin[p]] = FALSE]
  /\ left' = [left EXCEPT ![p] = 1]
  /\ UNCHANGED <<shellVars, st, good, stdin, stdout, fds, readers, writers>>

WriteItem(p) ==
  /\ st[p] = "running" /\ left[p] > 0
  /\ \/ stdout[p] = None /\ UNCHANGED full
     \/ /\ stdout[p] # None /\ readers[stdout[p]] # {} /\ ~full[stdout[p]]
        /\ full' = [full EXCEPT ![stdout[p]] = TRUE]
  /\ left' = [left EXCEPT ![p] = @ - 1]
  /\ UNCHANGED <<shellVars, st, good, stdin, stdout, fds, readers, writers>>

\* The process ends, and with it its hold on the pipes.
Dies(p, ok) ==
  /\ st' = [st EXCEPT ![p] = "zombie"]
  /\ good' = [good EXCEPT ![p] = ok]
  /\ stdin' = [stdin EXCEPT ![p] = None] /\ stdout' = [stdout EXCEPT ![p] = None]
  /\ fds' = [fds EXCEPT ![p] = {}] /\ left' = [left EXCEPT ![p] = 0]
  /\ readers' = [q \in Pipes |-> readers[q] \ {p}]
  /\ writers' = [q \in Pipes |-> writers[q] \ {p}]
  /\ UNCHANGED <<shellVars, full>>

InputEnded(p) ==
  IF stdin[p] = None THEN TRUE ELSE ~full[stdin[p]] /\ writers[stdin[p]] = {}

\* A program ends when its work is done, or before; execvp or a redirection fails.
ExitDone(p) ==
  st[p] = "running" /\ left[p] = 0 /\ InputEnded(p) /\ \E ok \in BOOLEAN : Dies(p, ok)
ExitEarly(p) == st[p] \in {"forked", "running"} /\ Dies(p, FALSE)

\* SIGPIPE
BrokenPipe(p) ==
  /\ st[p] = "running" /\ left[p] > 0
  /\ stdout[p] # None /\ readers[stdout[p]] = {}
  /\ Dies(p, FALSE)

ShellStep ==
  \/ ScanToken \/ ScanEnd
  \/ ForkOne \/ ForkOneFails \/ WaitOne
  \/ MakePipe \/ MakePipeFails \/ ForkStage \/ ForkStageFails \/ ClosePipes
  \/ Reap \/ PipelineReturns

ProcessStep(p) == Exec(p) \/ ReadItem(p) \/ WriteItem(p) \/ ExitDone(p) \/ BrokenPipe(p)

Next == TypeLine \/ TypeExit \/ ShellStep \/ \E p \in Pids : ProcessStep(p) \/ ExitEarly(p)

Spec == Init /\ [][Next]_vars

\* The shell and its programs are scheduled; nobody need ever type a line.
FairSpec == Spec /\ WF_vars(ShellStep) /\ \A p \in Pids : WF_vars(ProcessStep(p))
-----------------------------------------------------------------------------
\* Every variable has its type, and the loop counter stays within the call.
TypeOK ==
  /\ pc \in {"prompt", "scan", "forkOne", "waitOne", "pipe", "fork", "reap", "ended"}
  /\ cmds \in Nat /\ args \in BOOLEAN /\ n \in Nat /\ i \in 0..n
  /\ background \in BOOLEAN /\ op \in {"&&", "||", "end"}
  /\ mine \in Seq(Pipes) /\ child \in Pids \cup {0}
  /\ st \in [Pids -> {"free", "forked", "running", "zombie"}]
  /\ good \in [Pids -> BOOLEAN]
  /\ stdin \in [Pids -> Pipes \cup {None}] /\ stdout \in [Pids -> Pipes \cup {None}]
  /\ readers \in [Pipes -> SUBSET (Pids \cup {Shell})]
  /\ writers \in [Pipes -> SUBSET (Pids \cup {Shell})]
  /\ full \in [Pipes -> BOOLEAN]
  /\ own \subseteq Pids

\* A pipeline returns while some of its stages are still running only if as many
\* other children, of background commands or of pipelines that failed, were reaped
\* in their place.  (InteractiveShell.cpp:332-335)
StagesEnded ==
  pc = "reap" /\ i = n => Cardinality({p \in own : st[p] # "zombie"}) <= strangers

\* No stage sees the end of its input while the stage before it is still running,
\* and no stage writes to a pipe that the stage behind it has not yet opened.
\* (InteractiveShell.cpp:297-313)
NoEarlyEnd ==
  \A p \in Pids : \A q \in Pipes :
    /\ st[p] = "running" /\ stdin[p] = q /\ writers[q] = {}
         => \A r \in Pids : stdout[r] # q
    /\ st[p] = "running" /\ stdout[p] = q /\ readers[q] = {}
         => \A r \in Pids : stdin[r] # q

\* The shell comes back to its prompt, whatever was in the line: no pipeline
\* waits for the end of a pipe that the shell or a sibling holds open.
\* (InteractiveShell.cpp:311-313, 328-335)
PromptReturns == pc = "scan" ~> pc = "prompt"
=============================================================================
