----------------------- MODULE InteractiveShellProofs -----------------------
(***************************************************************************)
(* Machine-checked proofs about InteractiveShell, for all lines, any       *)
(* number of processes and pipes, and programs that fail at any time.      *)
(***************************************************************************)
EXTENDS InteractiveShell, FiniteSetTheorems, WellFoundedInduction, TLAPS

\* The types of the shell, and of the processes and pipes.
ShellTypes ==
  /\ pc \in {"prompt", "scan", "forkOne", "waitOne", "pipe", "fork", "reap", "ended"}
  /\ cmds \in Nat /\ args \in BOOLEAN /\ n \in Nat /\ i \in 0..n
  /\ background \in BOOLEAN /\ op \in {"&&", "||", "end"}
  /\ mine \in Seq(Pipes) /\ child \in Pids \cup {0}
  /\ own \subseteq Pids /\ strangers \in Nat
ProcTypes ==
  /\ st \in [Pids -> {"free", "forked", "running", "zombie"}]
  /\ good \in [Pids -> BOOLEAN]
  /\ stdin \in [Pids -> Pipes \cup {None}] /\ stdout \in [Pids -> Pipes \cup {None}]
  /\ readers \in [Pipes -> SUBSET (Pids \cup {Shell})]
  /\ writers \in [Pipes -> SUBSET (Pids \cup {Shell})]
  /\ full \in [Pipes -> BOOLEAN]

\* A pipeline has a pipe less than it has commands, and none outlives its call.
InCall ==
  /\ pc \in {"prompt", "scan", "forkOne", "waitOne", "ended"} => mine = << >>
  /\ pc = "pipe" => Len(mine) < n - 1
  /\ pc = "fork" => Len(mine) = n - 1
  /\ pc \notin {"fork", "reap"} => own = {} /\ strangers = 0 /\ i = 0

\* While it makes a pipeline the shell holds both ends of all its pipes.
ShellHolds ==
  pc \in {"pipe", "fork"} =>
    \A k \in 1..Len(mine) : Shell \in readers[mine[k]] /\ Shell \in writers[mine[k]]

\* A process holds the ends of the pipes that it reads from and writes to.
HoldsEnds ==
  \A p \in Pids :
    /\ stdin[p] # None => p \in readers[stdin[p]]
    /\ stdout[p] # None => p \in writers[stdout[p]]

\* Of the stages that were started and not reaped there are at most as many as there
\* are calls of wait to come and calls that returned somebody else.
OwnCounted ==
  /\ \A p \in own : st[p] # "free"
  /\ pc = "fork" => Cardinality(own) <= i /\ strangers = 0
  /\ pc = "reap" => Cardinality(own) <= (n - i) + strangers

ShellInv == ShellTypes /\ ProcTypes /\ InCall /\ ShellHolds /\ HoldsEnds /\ OwnCounted

-----------------------------------------------------------------------------
\* A set of numbers that is not empty has a least one, and Least picks it.
LEMMA LeastIsOne ==
  ASSUME NEW S \in SUBSET Nat, S # {}
  PROVE  Least(S) \in S
<1>1. PICK x \in S : \A y \in S : <<y, x>> \notin OpToRel(<, Nat)
  BY WFMin, NatLessThanWellFounded, Zenon
<1>2. \A y \in S : ~(y < x)
  BY <1>1, Zenon DEF OpToRel
<1>3. \A y \in S : x <= y
  BY <1>2
<1>. QED
  BY <1>3 DEF Least

LEMMA LeastFree ==
  /\ FreePids # {} => Least(FreePids) \in Pids /\ st[Least(FreePids)] = "free"
  /\ FreePipes # {} =>
       /\ Least(FreePipes) \in Pipes
       /\ readers[Least(FreePipes)] = {} /\ writers[Least(FreePipes)] = {}
<1>1. FreePids \in SUBSET Nat /\ FreePipes \in SUBSET Nat
  BY BoundsAssumption DEF FreePids, FreePipes, Pids, Pipes
<1>2. FreePids # {} => Least(FreePids) \in FreePids
  BY <1>1, LeastIsOne
<1>3. FreePipes # {} => Least(FreePipes) \in FreePipes
  BY <1>1, LeastIsOne
<1> QED BY <1>2, <1>3 DEF FreePids, FreePipes

LEMMA ShellIsNobody ==
  /\ Shell \notin Pids /\ None \notin Pipes
  /\ \A S \in SUBSET Pids : IsFiniteSet(S) /\ Cardinality(S) \in Nat
<1>1. Shell \notin Pids /\ None \notin Pipes
  BY DEF Shell, None, Pids, Pipes
<1>2. IsFiniteSet(Pids)
  BY FS_Interval, BoundsAssumption DEF Pids
<1>3. \A S \in SUBSET Pids : IsFiniteSet(S)
  BY <1>2, FS_Subset
<1>4. \A S \in SUBSET Pids : Cardinality(S) \in Nat
  BY <1>3, FS_CardinalityType
<1> QED BY <1>1, <1>3, <1>4

-----------------------------------------------------------------------------
\* What a call leaves behind when it returns.
LEMMA ReturnsLeaves ==
  ASSUME ShellInv, NEW ok, Returns(ok)
  PROVE  ShellTypes' /\ InCall' /\ ShellHolds' /\ OwnCounted'
<1>1. /\ pc' \in {"scan", "prompt"} /\ n' = 0 /\ background' = FALSE /\ op' = "end"
      /\ i' = 0 /\ mine' = << >> /\ child' = 0 /\ own' = {} /\ strangers' = 0
      /\ cmds' = cmds /\ args' = args
  BY DEF Returns
<1>2. << >> \in Seq(Pipes)
  OBVIOUS
<1>3. ShellTypes'
  <2>1. background' \in BOOLEAN
    BY <1>1
  <2>2. args' \in BOOLEAN /\ cmds' \in Nat
    BY <1>1 DEF ShellInv, ShellTypes
  <2>3. i' \in 0..n' /\ n' \in Nat /\ op' \in {"&&", "||", "end"}
    BY <1>1
  <2>4. mine' \in Seq(Pipes) /\ child' \in Pids \cup {0} /\ own' \subseteq Pids /\ strangers' \in Nat
    BY <1>1, <1>2
  <2>5. pc' \in {"prompt", "scan", "forkOne", "waitOne", "pipe", "fork", "reap", "ended"}
    BY <1>1
  <2> QED BY <2>1, <2>2, <2>3, <2>4, <2>5 DEF ShellTypes
<1>4. InCall' /\ ShellHolds' /\ OwnCounted'
  BY <1>1 DEF InCall, ShellHolds, OwnCounted
<1> QED BY <1>3, <1>4

LEMMA ScanningKeeps ==
  ASSUME ShellInv, TypeLine \/ ScanToken \/ ScanEnd
  PROVE  ShellInv'
<1> USE DEF ShellInv
<1>1. UNCHANGED <<mine, child, procs, pipes, history>> /\ pc \in {"prompt", "scan"}
  BY DEF TypeLine, ScanToken, ScanEnd
<1>2. Collected \in Nat
  BY DEF Collected, ShellTypes
<1>3. \/ UNCHANGED call /\ i' = i /\ pc' \in {"scan", "prompt"} /\ cmds' \in {cmds, Collected}
         /\ args' \in BOOLEAN
      \/ /\ n' = Collected /\ background' \in BOOLEAN /\ op' \in {"&&", "||", "end"}
         /\ i' = 0 /\ cmds' = 0 /\ args' = FALSE
         /\ pc' = IF Collected > 1 THEN "pipe" ELSE "forkOne"
  <2>1. CASE TypeLine
    BY <2>1 DEF TypeLine, ShellTypes
  <2>2. CASE ScanEnd
    BY <2>2 DEF ScanEnd, CallWith, ShellTypes
  <2>3. CASE ScanToken
    BY <2>3 DEF ScanToken, CallWith, Skip, ShellTypes
  <2> QED BY <2>1, <2>2, <2>3
<1>4. ShellTypes'
  <2>1. mine' \in Seq(Pipes) /\ child' \in Pids \cup {0} /\ own' \subseteq Pids /\ strangers' \in Nat
    BY <1>1 DEF ShellTypes, history
  <2>2. /\ n' \in Nat /\ i' \in 0..n' /\ background' \in BOOLEAN /\ op' \in {"&&", "||", "end"}
        /\ cmds' \in Nat /\ args' \in BOOLEAN
    <3>1. n \in Nat /\ i \in 0..n /\ background \in BOOLEAN /\ op \in {"&&", "||", "end"} /\ cmds \in Nat
      BY DEF ShellTypes
    <3>2. n' \in Nat /\ i' \in 0..n' /\ cmds' \in Nat
      BY <1>2, <1>3, <3>1 DEF call
    <3>3. args' \in BOOLEAN
      BY <1>3, Zenon
    <3>4. background' \in BOOLEAN /\ op' \in {"&&", "||", "end"}
      BY <1>3, <3>1, Zenon DEF call
    <3> QED BY <3>2, <3>3, <3>4
  <2>3. pc' \in {"prompt", "scan", "forkOne", "pipe"}
    BY <1>3
  <2> QED BY <2>1, <2>2, <2>3 DEF ShellTypes
<1>5. ProcTypes' /\ HoldsEnds'
  BY <1>1 DEF ProcTypes, HoldsEnds, procs, pipes
<1>6. InCall'
  <2>1. mine = << >> /\ own' = {} /\ strangers' = 0 /\ i = 0 /\ mine' = mine
    BY <1>1 DEF InCall, history
  <2>2. i' = 0 /\ pc' \in {"prompt", "scan", "forkOne", "pipe"}
    BY <1>3, <2>1
  <2>3. pc' = "pipe" => Len(mine') < n' - 1
    BY <1>2, <1>3, <2>1
  <2> QED BY <2>1, <2>2, <2>3 DEF InCall
<1>7. mine' = << >> /\ own' = {}
  BY <1>1 DEF InCall, history
<1>8. ShellHolds'
  BY <1>7 DEF ShellHolds
<1>9. OwnCounted'
  BY <1>3, <1>7 DEF OwnCounted
<1> QED BY <1>4, <1>5, <1>6, <1>8, <1>9

LEMMA ExitKeeps ==
  ASSUME ShellInv, TypeExit
  PROVE  ShellInv'
<1> USE DEF ShellInv
<1>1. /\ UNCHANGED <<cmds, args, n, background, op, i, mine, child, own, strangers>>
      /\ UNCHANGED <<st, good, stdin, stdout, full>>
      /\ pc = "prompt" /\ pc' = "ended"
      /\ readers' = [q \in Pipes |-> readers[q] \ {Shell}]
      /\ writers' = [q \in Pipes |-> writers[q] \ {Shell}]
  BY DEF TypeExit, call, procs, history
<1>2. ShellTypes'
  BY <1>1 DEF ShellTypes
<1>3. ProcTypes'
  BY <1>1 DEF ProcTypes
<1>4. HoldsEnds'
  BY <1>1, ShellIsNobody DEF HoldsEnds, ProcTypes
<1>5. InCall' /\ ShellHolds' /\ OwnCounted'
  BY <1>1 DEF InCall, ShellHolds, OwnCounted
<1> QED BY <1>2, <1>3, <1>4, <1>5

\* A forked process gets a hold of the pipes it is to use, if the shell has them.
LEMMA ForkKeeps ==
  ASSUME ShellInv, NEW p \in Pids,
         NEW in \in Pipes \cup {None}, NEW out \in Pipes \cup {None}, NEW close,
         in # None => Shell \in readers[in],
         out # None => Shell \in writers[out],
         Fork(p, in, out, close)
  PROVE  /\ ProcTypes' /\ HoldsEnds'
         /\ \A q \in Pipes : /\ Shell \in readers[q] => Shell \in readers'[q]
                             /\ Shell \in writers[q] => Shell \in writers'[q]
         /\ st' = [st EXCEPT ![p] = "forked"]
<1> USE DEF ShellInv
<1>1. /\ st' = [st EXCEPT ![p] = "forked"]
      /\ stdin' = [stdin EXCEPT ![p] = in]
      /\ stdout' = [stdout EXCEPT ![p] = out]
      /\ good' = good /\ full' = full
  BY DEF Fork
<1>2. /\ readers' = [q \in Pipes |-> IF Shell \in readers[q] THEN readers[q] \cup {p} ELSE readers[q]]
      /\ writers' = [q \in Pipes |-> IF Shell \in writers[q] THEN writers[q] \cup {p} ELSE writers[q]]
  BY DEF Fork
<1>3. readers' \in [Pipes -> SUBSET (Pids \cup {Shell})]
  BY <1>2 DEF ProcTypes
<1>4. writers' \in [Pipes -> SUBSET (Pids \cup {Shell})]
  BY <1>2 DEF ProcTypes
<1>5. ProcTypes'
  BY <1>1, <1>3, <1>4 DEF ProcTypes
<1>6. HoldsEnds'
  <2> SUFFICES ASSUME NEW r \in Pids
               PROVE  /\ stdin'[r] # None => r \in readers'[stdin'[r]]
                      /\ stdout'[r] # None => r \in writers'[stdout'[r]]
    BY DEF HoldsEnds
  <2>1. CASE r = p
    BY <2>1, <1>1, <1>2 DEF ProcTypes
  <2>2. CASE r # p
    <3>1. stdin'[r] = stdin[r] /\ stdout'[r] = stdout[r]
      BY <2>2, <1>1 DEF ProcTypes
    <3>2. stdin[r] \in Pipes \cup {None} /\ stdout[r] \in Pipes \cup {None}
      BY DEF ProcTypes
    <3> QED BY <3>1, <3>2, <1>2 DEF HoldsEnds
  <2> QED BY <2>1, <2>2
<1> QED BY <1>1, <1>2, <1>5, <1>6

\* A process that was reaped has ended before.
LEMMA ReapedKeeps ==
  ASSUME ShellInv, NEW p, Reaped(p), UNCHANGED pipes
  PROVE  ProcTypes' /\ HoldsEnds'
<1>1. /\ st' = [st EXCEPT ![p] = "free"] /\ good' = [good EXCEPT ![p] = FALSE]
      /\ UNCHANGED <<stdin, stdout, readers, writers, full>>
  BY DEF Reaped, pipes
<1>2. st' \in [Pids -> {"free", "forked", "running", "zombie"}] /\ good' \in [Pids -> BOOLEAN]
  BY <1>1 DEF ShellInv, ProcTypes
<1>3. HoldsEnds'
  BY <1>1 DEF ShellInv, HoldsEnds
<1> QED BY <1>1, <1>2, <1>3 DEF ShellInv, ProcTypes

LEMMA ReturningKeeps ==
  ASSUME ShellInv,
         ForkOneFails \/ WaitOne \/ MakePipeFails \/ ForkStageFails \/ PipelineReturns
  PROVE  ShellInv'
<1>1. CASE ForkOneFails \/ MakePipeFails \/ ForkStageFails \/ PipelineReturns
  <2>1. Returns(FALSE) \/ Returns(TRUE)
    BY <1>1 DEF ForkOneFails, MakePipeFails, ForkStageFails, PipelineReturns
  <2>2. UNCHANGED <<procs, pipes>>
    BY <1>1 DEF ForkOneFails, MakePipeFails, ForkStageFails, PipelineReturns
  <2>3. ProcTypes' /\ HoldsEnds'
    BY <2>2 DEF ShellInv, ProcTypes, HoldsEnds, procs, pipes
  <2> QED BY <2>1, <2>3, ReturnsLeaves DEF ShellInv
<1>2. CASE WaitOne
  BY <1>2, ReturnsLeaves, ReapedKeeps DEF WaitOne, ShellInv
<1> QED BY <1>1, <1>2

LEMMA ForkOneKeeps ==
  ASSUME ShellInv, ForkOne
  PROVE  ShellInv'
<1> DEFINE p == Least(FreePids)
<1>1. /\ pc = "forkOne" /\ Fork(p, None, None, {}) /\ FreePids # {}
      /\ \/ Returns(TRUE)
         \/ /\ pc' = "waitOne" /\ child' = p
            /\ UNCHANGED <<cmds, args, n, background, op, i, mine, own, strangers>>
  BY DEF ForkOne, call, history
<1>2. p \in Pids
  BY <1>1, LeastFree
<1> HIDE DEF p
<1>3. ProcTypes' /\ HoldsEnds'
  BY <1>1, <1>2, ForkKeeps
<1>4. CASE Returns(TRUE)
  BY <1>3, <1>4, ReturnsLeaves DEF ShellInv
<1>5. CASE /\ pc' = "waitOne" /\ child' = p
           /\ UNCHANGED <<cmds, args, n, background, op, i, mine, own, strangers>>
  <2>1. ShellTypes'
    BY <1>2, <1>5 DEF ShellInv, ShellTypes
  <2>2. InCall' /\ ShellHolds'
    BY <1>1, <1>5 DEF ShellInv, InCall, ShellHolds
  <2>3. own' = {}
    BY <1>1, <1>5 DEF ShellInv, InCall
  <2>4. OwnCounted'
    BY <1>5, <2>3 DEF OwnCounted
  <2> QED BY <1>3, <2>1, <2>2, <2>4 DEF ShellInv
<1> QED BY <1>1, <1>4, <1>5

\* A new pipe is nobody else's: no process reads from it or writes to it.
LEMMA MakePipeKeeps ==
  ASSUME ShellInv, MakePipe
  PROVE  ShellInv'
<1> USE DEF ShellInv
<1> DEFINE q == Least(FreePipes)
<1>1. /\ pc = "pipe" /\ Len(mine) < n - 1 /\ FreePipes # {}
      /\ readers' = [readers EXCEPT ![q] = {Shell}]
      /\ writers' = [writers EXCEPT ![q] = {Shell}]
      /\ full' = [full EXCEPT ![q] = FALSE]
      /\ mine' = Append(mine, q)
      /\ pc' = IF Len(mine) + 1 = n - 1 THEN "fork" ELSE "pipe"
      /\ UNCHANGED <<cmds, args, n, background, op, i, child, own, strangers>>
      /\ UNCHANGED <<st, good, stdin, stdout>>
  BY DEF MakePipe, call, procs, history
<1>2. q \in Pipes /\ readers[q] = {} /\ writers[q] = {}
  BY <1>1, LeastFree
<1> HIDE DEF q
<1>3. /\ mine \in Seq(Pipes) /\ mine' \in Seq(Pipes) /\ Len(mine') = Len(mine) + 1
      /\ \A k \in 1..Len(mine) : mine'[k] = mine[k]
      /\ mine'[Len(mine) + 1] = q
  <2>1. mine \in Seq(Pipes)
    BY DEF ShellTypes
  <2> QED BY <1>1, <1>2, <2>1
<1>4. ShellTypes'
  BY <1>1, <1>3 DEF ShellTypes
<1>5. ProcTypes'
  <2>1. readers' \in [Pipes -> SUBSET (Pids \cup {Shell})]
    BY <1>1, <1>2 DEF ProcTypes
  <2>2. writers' \in [Pipes -> SUBSET (Pids \cup {Shell})]
    BY <1>1, <1>2 DEF ProcTypes
  <2>3. full' \in [Pipes -> BOOLEAN]
    BY <1>1, <1>2 DEF ProcTypes
  <2> QED BY <1>1, <2>1, <2>2, <2>3 DEF ProcTypes
<1>6. HoldsEnds'
  <2> SUFFICES ASSUME NEW r \in Pids
               PROVE  /\ stdin[r] # None => r \in readers'[stdin[r]]
                      /\ stdout[r] # None => r \in writers'[stdout[r]]
    BY <1>1 DEF HoldsEnds
  <2>1. stdin[r] \in Pipes \cup {None} /\ stdout[r] \in Pipes \cup {None}
    BY DEF ProcTypes
  <2>2. stdin[r] # None => r \in readers[stdin[r]] /\ stdin[r] # q
    BY <1>2 DEF HoldsEnds
  <2>3. stdout[r] # None => r \in writers[stdout[r]] /\ stdout[r] # q
    BY <1>2 DEF HoldsEnds
  <2> QED BY <1>1, <2>1, <2>2, <2>3 DEF ProcTypes
<1>7. ShellHolds'
  <2> SUFFICES ASSUME NEW k \in 1..(Len(mine) + 1)
               PROVE  Shell \in readers'[mine'[k]] /\ Shell \in writers'[mine'[k]]
    BY <1>3 DEF ShellHolds
  <2>1. mine'[k] \in Pipes
    BY <1>3
  <2>2. mine'[k] # q => Shell \in readers[mine'[k]] /\ Shell \in writers[mine'[k]]
    <3>1. k # Len(mine) + 1 => k \in 1..Len(mine)
      BY <1>3
    <3> QED BY <3>1, <1>1, <1>3 DEF ShellHolds
  <2> QED BY <2>1, <2>2, <1>1 DEF ProcTypes
<1>8. InCall'
  <2>1. n \in Nat /\ Len(mine) \in Nat /\ Len(mine') = Len(mine) + 1
    BY <1>3 DEF ShellTypes
  <2>2. pc' = "pipe" => Len(mine') < n - 1
    BY <1>1, <2>1
  <2>3. pc' = "fork" => Len(mine') = n - 1
    BY <1>1, <2>1
  <2>4. pc' \in {"pipe", "fork"} /\ own' = {} /\ strangers' = 0 /\ i' = 0
    BY <1>1 DEF InCall
  <2> QED BY <1>1, <2>2, <2>3, <2>4 DEF InCall
<1>9. OwnCounted'
  <2>1. own' = {} /\ strangers' = 0 /\ i' = 0 /\ pc' \in {"pipe", "fork"}
    BY <1>1 DEF InCall
  <2> QED BY <2>1, FS_EmptySet DEF OwnCounted
<1> QED BY <1>4, <1>5, <1>6, <1>7, <1>8, <1>9

LEMMA ForkStageKeeps ==
  ASSUME ShellInv, ForkStage
  PROVE  ShellInv'
<1> USE DEF ShellInv
<1> DEFINE p == Least(FreePids)
           in == IF i > 0 THEN mine[i] ELSE None
           out == IF i < n - 1 THEN mine[i + 1] ELSE None
<1>1. /\ pc = "fork" /\ pc' = "fork" /\ i < n /\ FreePids # {}
      /\ Fork(p, in, out, Mine)
      /\ own' = own \cup {p} /\ i' = i + 1
      /\ UNCHANGED <<cmds, args, n, background, op, mine, child, strangers>>
  BY DEF ForkStage, call
<1>2. p \in Pids /\ st[p] = "free"
  BY <1>1, LeastFree
<1>3. /\ n \in Nat /\ i \in 0..n /\ mine \in Seq(Pipes) /\ Len(mine) = n - 1
      /\ \A k \in 1..Len(mine) : Shell \in readers[mine[k]] /\ Shell \in writers[mine[k]]
  BY <1>1 DEF ShellTypes, InCall, ShellHolds
<1>4. /\ in \in Pipes \cup {None} /\ (in # None => Shell \in readers[in])
  <2>1. i > 0 => i \in 1..Len(mine)
    BY <1>1, <1>3
  <2>2. i > 0 => mine[i] \in Pipes
    BY <2>1, <1>3
  <2> QED BY <2>1, <2>2, <1>3
<1>5. /\ out \in Pipes \cup {None} /\ (out # None => Shell \in writers[out])
  <2>1. i < n - 1 => i + 1 \in 1..Len(mine)
    BY <1>1, <1>3
  <2>2. i < n - 1 => mine[i + 1] \in Pipes
    BY <2>1, <1>3
  <2> QED BY <2>1, <2>2, <1>3
<1> HIDE DEF p, in, out
<1>6. /\ ProcTypes' /\ HoldsEnds'
      /\ \A q \in Pipes : /\ Shell \in readers[q] => Shell \in readers'[q]
                          /\ Shell \in writers[q] => Shell \in writers'[q]
      /\ st' = [st EXCEPT ![p] = "forked"]
  BY <1>1, <1>2, <1>4, <1>5, ForkKeeps
<1>7. ShellTypes'
  <2>1. i' \in 0..n'
    BY <1>1, <1>3
  <2> QED BY <1>1, <1>2, <2>1 DEF ShellTypes
<1>8. InCall'
  BY <1>1 DEF InCall
<1>9. ShellHolds'
  <2>1. \A k \in 1..Len(mine) : mine[k] \in Pipes
    BY <1>3
  <2> QED BY <1>1, <1>3, <1>6, <2>1 DEF ShellHolds
<1>10. OwnCounted'
  <2>1. IsFiniteSet(own) /\ Cardinality(own) \in Nat
    BY ShellIsNobody DEF ShellTypes
  <2>2. Cardinality(own') <= Cardinality(own) + 1
    <3>1. Cardinality(own \cup {p}) = IF p \in own THEN Cardinality(own) ELSE Cardinality(own) + 1
      BY <2>1, FS_AddElement
    <3> QED BY <3>1, <2>1, <1>1
  <2>3. Cardinality(own) <= i /\ strangers = 0
    BY <1>1 DEF OwnCounted
  <2>4. Cardinality(own') \in Nat
    BY <1>7, ShellIsNobody DEF ShellTypes
  <2>5. Cardinality(own') <= i'
    BY <1>1, <1>3, <2>1, <2>2, <2>3, <2>4
  <2>6. \A r \in own' : st'[r] # "free"
    BY <1>1, <1>2, <1>6 DEF OwnCounted, ShellTypes, ProcTypes
  <2> QED BY <1>1, <2>3, <2>5, <2>6 DEF OwnCounted
<1> QED BY <1>6, <1>7, <1>8, <1>9, <1>10

LEMMA ClosePipesKeeps ==
  ASSUME ShellInv, ClosePipes
  PROVE  ShellInv'
<1> USE DEF ShellInv
<1>1. /\ pc = "fork" /\ i = n /\ pc' = "reap" /\ i' = 0
      /\ readers' = [q \in Pipes |-> IF q \in Mine THEN readers[q] \ {Shell} ELSE readers[q]]
      /\ writers' = [q \in Pipes |-> IF q \in Mine THEN writers[q] \ {Shell} ELSE writers[q]]
      /\ UNCHANGED <<cmds, args, n, background, op, mine, child, own, strangers>>
      /\ UNCHANGED <<st, good, stdin, stdout, full>>
  BY DEF ClosePipes, call, procs, history
<1>2. ShellTypes'
  BY <1>1 DEF ShellTypes
<1>3. ProcTypes'
  BY <1>1 DEF ProcTypes
<1>4. HoldsEnds'
  <2> SUFFICES ASSUME NEW r \in Pids
               PROVE  /\ stdin[r] # None => r \in readers'[stdin[r]]
                      /\ stdout[r] # None => r \in writers'[stdout[r]]
    BY <1>1 DEF HoldsEnds
  <2>1. stdin[r] \in Pipes \cup {None} /\ stdout[r] \in Pipes \cup {None} /\ r # Shell
    BY ShellIsNobody DEF ProcTypes
  <2> QED BY <1>1, <2>1 DEF HoldsEnds
<1>5. InCall' /\ ShellHolds'
  BY <1>1 DEF InCall, ShellHolds
<1>6. OwnCounted'
  <2>1. Cardinality(own) \in Nat /\ n \in Nat /\ strangers = 0 /\ Cardinality(own) <= i
    BY <1>1, ShellIsNobody DEF ShellTypes, OwnCounted
  <2>2. Cardinality(own') <= (n' - i') + strangers'
    BY <1>1, <2>1
  <2> QED BY <1>1, <2>2 DEF OwnCounted
<1> QED BY <1>2, <1>3, <1>4, <1>5, <1>6

\* A call of wait reaps a stage, or a stranger, or there is nobody left to reap.
LEMMA ReapKeeps ==
  ASSUME ShellInv, Reap
  PROVE  ShellInv'
<1> USE DEF ShellInv
<1>1. /\ pc = "reap" /\ pc' = "reap" /\ i < n /\ i' = i + 1 /\ ReapAny
      /\ UNCHANGED <<cmds, args, n, background, op, mine, child, pipes>>
  BY DEF Reap, call
<1>2. /\ n \in Nat /\ i \in 0..n /\ i' \in 0..n /\ strangers \in Nat
      /\ IsFiniteSet(own) /\ Cardinality(own) \in Nat
      /\ Cardinality(own) <= (n - i) + strangers
  <2>1. n \in Nat /\ i \in 0..n /\ strangers \in Nat
    BY DEF ShellTypes
  <2>2. IsFiniteSet(own) /\ Cardinality(own) \in Nat
    BY ShellIsNobody DEF ShellTypes
  <2> QED BY <1>1, <2>1, <2>2 DEF OwnCounted
<1>3. CASE FreePids = Pids /\ UNCHANGED <<procs, history>>
  <2>1. own = {} /\ own' = own /\ strangers' = strangers
    BY <1>3 DEF FreePids, OwnCounted, ShellTypes, history
  <2>2. Cardinality(own') <= (n' - i') + strangers'
    BY <1>1, <1>2, <2>1, FS_EmptySet
  <2>3. ProcTypes' /\ HoldsEnds'
    BY <1>1, <1>3 DEF ProcTypes, HoldsEnds, procs, pipes
  <2>4. ShellTypes' /\ InCall' /\ ShellHolds'
    BY <1>1, <1>2, <2>1 DEF ShellTypes, InCall, ShellHolds
  <2>5. OwnCounted'
    BY <1>1, <2>1, <2>2 DEF OwnCounted
  <2> QED BY <2>3, <2>4, <2>5
<1>4. ASSUME NEW p \in Pids, Reaped(p), own' = own \ {p},
             strangers' = strangers + (IF p \in own THEN 0 ELSE 1)
      PROVE  ShellInv'
  <2>1. ProcTypes' /\ HoldsEnds'
    BY <1>1, <1>4, ReapedKeeps
  <2>2. strangers' \in Nat /\ own' \subseteq Pids
    BY <1>2, <1>4 DEF ShellTypes
  <2>3. ShellTypes' /\ InCall' /\ ShellHolds'
    BY <1>1, <1>2, <2>2 DEF ShellTypes, InCall, ShellHolds
  <2>4. Cardinality(own') = IF p \in own THEN Cardinality(own) - 1 ELSE Cardinality(own)
    BY <1>2, <1>4, FS_RemoveElement
  <2>5. Cardinality(own') <= (n' - i') + strangers'
    BY <1>1, <1>2, <1>4, <2>4
  <2>6. \A r \in own' : st'[r] # "free"
    BY <1>4 DEF Reaped, OwnCounted, ShellTypes, ProcTypes
  <2>7. OwnCounted'
    BY <1>1, <2>5, <2>6 DEF OwnCounted
  <2> QED BY <2>1, <2>3, <2>7
<1> QED BY <1>1, <1>3, <1>4 DEF ReapAny

-----------------------------------------------------------------------------
\* The steps of the processes.  They leave the shell alone, and its hold on its pipes.
LEMMA ProcessKeepsShell ==
  ASSUME ShellInv, NEW p \in Pids, UNCHANGED shellVars,
         st' = st \/ (\E s \in {"running", "zombie"} : st' = [st EXCEPT ![p] = s]),
         \A q \in Pipes : /\ Shell \in readers[q] => Shell \in readers'[q]
                          /\ Shell \in writers[q] => Shell \in writers'[q]
  PROVE  ShellTypes' /\ InCall' /\ ShellHolds' /\ OwnCounted'
<1> USE DEF ShellInv
<1>1. UNCHANGED <<pc, cmds, args, n, background, op, i, mine, child, own, strangers>>
  BY DEF shellVars, call, history
<1>2. ShellTypes' /\ InCall'
  BY <1>1 DEF ShellTypes, InCall
<1>3. ShellHolds'
  <2>1. mine \in Seq(Pipes)
    BY DEF ShellTypes
  <2>2. \A k \in 1..Len(mine) : mine[k] \in Pipes
    BY <2>1
  <2> QED BY <1>1, <2>2 DEF ShellHolds
<1>4. \A r \in own : st'[r] # "free"
  <2> TAKE r \in own
  <2>1. r \in Pids /\ st[r] # "free"
    BY DEF OwnCounted, ShellTypes
  <2> QED BY <2>1 DEF ProcTypes
<1>5. OwnCounted'
  BY <1>1, <1>4 DEF OwnCounted
<1> QED BY <1>2, <1>3, <1>5

\* dup2 first and close after it: the ends in use stay open.
LEMMA ExecKeeps ==
  ASSUME ShellInv, NEW p \in Pids, Exec(p)
  PROVE  ShellInv'
<1> USE DEF ShellInv
<1>1. /\ readers' = [q \in Pipes |-> IF q \in fds[p] \ {stdin[p]} THEN readers[q] \ {p} ELSE readers[q]]
      /\ writers' = [q \in Pipes |-> IF q \in fds[p] \ {stdout[p]} THEN writers[q] \ {p} ELSE writers[q]]
      /\ st' = [st EXCEPT ![p] = "running"]
      /\ UNCHANGED <<good, stdin, stdout, full>> /\ UNCHANGED shellVars
  BY DEF Exec, shellVars
<1>2. ProcTypes'
  <2>1. st' \in [Pids -> {"free", "forked", "running", "zombie"}]
    BY <1>1 DEF ProcTypes
  <2>2. readers' \in [Pipes -> SUBSET (Pids \cup {Shell})]
    BY <1>1 DEF ProcTypes
  <2>3. writers' \in [Pipes -> SUBSET (Pids \cup {Shell})]
    BY <1>1 DEF ProcTypes
  <2> QED BY <1>1, <2>1, <2>2, <2>3 DEF ProcTypes
<1>3. HoldsEnds'
  <2> SUFFICES ASSUME NEW r \in Pids
               PROVE  /\ stdin[r] # None => r \in readers'[stdin[r]]
                      /\ stdout[r] # None => r \in writers'[stdout[r]]
    BY <1>1 DEF HoldsEnds
  <2>1. stdin[r] \in Pipes \cup {None} /\ stdout[r] \in Pipes \cup {None}
    BY DEF ProcTypes
  <2> QED BY <1>1, <2>1 DEF HoldsEnds
<1>4. \A q \in Pipes : /\ Shell \in readers[q] => Shell \in readers'[q]
                       /\ Shell \in writers[q] => Shell \in writers'[q]
  BY <1>1, ShellIsNobody
<1>5. \E s \in {"running", "zombie"} : st' = [st EXCEPT ![p] = s]
  BY <1>1
<1> QED BY <1>1, <1>2, <1>3, <1>4, <1>5, ProcessKeepsShell

LEMMA ItemKeeps ==
  ASSUME ShellInv, NEW p \in Pids, ReadItem(p) \/ WriteItem(p)
  PROVE  ShellInv'
<1> USE DEF ShellInv
<1>1. UNCHANGED <<st, good, stdin, stdout, readers, writers>> /\ UNCHANGED shellVars
  BY DEF ReadItem, WriteItem, shellVars
<1>2. full' = full \/ (\E q \in Pipes \cup {None} : \E b \in BOOLEAN : full' = [full EXCEPT ![q] = b])
  <2>1. CASE ReadItem(p)
    <3>1. full' = [full EXCEPT ![stdin[p]] = FALSE] /\ stdin[p] \in Pipes \cup {None}
      BY <2>1 DEF ReadItem, ProcTypes
    <3> QED BY <3>1, Zenon
  <2>2. CASE WriteItem(p)
    <3>1. full' = full \/ full' = [full EXCEPT ![stdout[p]] = TRUE]
      BY <2>2 DEF WriteItem
    <3>2. stdout[p] \in Pipes \cup {None}
      BY DEF ProcTypes
    <3> QED BY <3>1, <3>2, Zenon
  <2> QED BY <2>1, <2>2
<1>3. full' \in [Pipes -> BOOLEAN]
  BY <1>2 DEF ProcTypes
<1>4. ProcTypes' /\ HoldsEnds'
  BY <1>1, <1>3 DEF ProcTypes, HoldsEnds
<1>5. st' = st /\ \A q \in Pipes : /\ Shell \in readers[q] => Shell \in readers'[q]
                                   /\ Shell \in writers[q] => Shell \in writers'[q]
  BY <1>1
<1> QED BY <1>1, <1>4, <1>5, ProcessKeepsShell

\* A process that ends lets go of the streams together with its ends of the pipes.
LEMMA DiesKeeps ==
  ASSUME ShellInv, NEW p \in Pids, NEW ok \in BOOLEAN, Dies(p, ok)
  PROVE  ShellInv'
<1> USE DEF ShellInv
<1>1. /\ st' = [st EXCEPT ![p] = "zombie"]
      /\ good' = [good EXCEPT ![p] = ok]
      /\ stdin' = [stdin EXCEPT ![p] = None] /\ stdout' = [stdout EXCEPT ![p] = None]
      /\ readers' = [q \in Pipes |-> readers[q] \ {p}]
      /\ writers' = [q \in Pipes |-> writers[q] \ {p}]
      /\ full' = full /\ UNCHANGED shellVars
  BY DEF Dies, shellVars
<1>2. ProcTypes'
  <2>1. st' \in [Pids -> {"free", "forked", "running", "zombie"}]
    BY <1>1 DEF ProcTypes
  <2>2. good' \in [Pids -> BOOLEAN]
    BY <1>1 DEF ProcTypes
  <2>3. stdin' \in [Pids -> Pipes \cup {None}] /\ stdout' \in [Pids -> Pipes \cup {None}]
    BY <1>1 DEF ProcTypes
  <2>4. readers' \in [Pipes -> SUBSET (Pids \cup {Shell})]
    BY <1>1 DEF ProcTypes
  <2>5. writers' \in [Pipes -> SUBSET (Pids \cup {Shell})]
    BY <1>1 DEF ProcTypes
  <2> QED BY <1>1, <2>1, <2>2, <2>3, <2>4, <2>5 DEF ProcTypes
<1>3. HoldsEnds'
  <2> SUFFICES ASSUME NEW r \in Pids
               PROVE  /\ stdin'[r] # None => r \in readers'[stdin'[r]]
                      /\ stdout'[r] # None => r \in writers'[stdout'[r]]
    BY DEF HoldsEnds
  <2>1. stdin[r] \in Pipes \cup {None} /\ stdout[r] \in Pipes \cup {None}
    BY DEF ProcTypes
  <2>2. CASE r = p
    BY <1>1, <2>2 DEF ProcTypes
  <2>3. CASE r # p
    BY <1>1, <2>1, <2>3 DEF ProcTypes, HoldsEnds
  <2> QED BY <2>2, <2>3
<1>4. \A q \in Pipes : /\ Shell \in readers[q] => Shell \in readers'[q]
                       /\ Shell \in writers[q] => Shell \in writers'[q]
  BY <1>1, ShellIsNobody
<1>5. \E s \in {"running", "zombie"} : st' = [st EXCEPT ![p] = s]
  BY <1>1
<1> QED BY <1>1, <1>2, <1>3, <1>4, <1>5, ProcessKeepsShell

-----------------------------------------------------------------------------
LEMMA ShellInit ==
  Init => ShellInv
<1> SUFFICES ASSUME Init PROVE ShellInv
  OBVIOUS
<1>1. ShellTypes
  <2>1. mine \in Seq(Pipes)
    BY DEF Init
  <2>2. args \in BOOLEAN /\ background \in BOOLEAN
    BY DEF Init
  <2> QED BY <2>1, <2>2 DEF Init, ShellTypes
<1>2. ProcTypes
  BY DEF Init, ProcTypes
<1>3. InCall /\ ShellHolds /\ HoldsEnds
  BY DEF Init, InCall, ShellHolds, HoldsEnds
<1>4. OwnCounted
  BY DEF Init, OwnCounted
<1> QED BY <1>1, <1>2, <1>3, <1>4 DEF ShellInv

LEMMA ShellNext ==
  ShellInv /\ [Next]_vars => ShellInv'
<1> SUFFICES ASSUME ShellInv, [Next]_vars PROVE ShellInv'
  OBVIOUS
<1>1. CASE TypeLine \/ ScanToken \/ ScanEnd
  BY <1>1, ScanningKeeps
<1>2. CASE TypeExit
  BY <1>2, ExitKeeps
<1>3. CASE ForkOneFails \/ WaitOne \/ MakePipeFails \/ ForkStageFails \/ PipelineReturns
  BY <1>3, ReturningKeeps
<1>4. CASE ForkOne
  BY <1>4, ForkOneKeeps
<1>5. CASE MakePipe
  BY <1>5, MakePipeKeeps
<1>6. CASE ForkStage
  BY <1>6, ForkStageKeeps
<1>7. CASE ClosePipes
  BY <1>7, ClosePipesKeeps
<1>8. CASE Reap
  BY <1>8, ReapKeeps
<1>9. ASSUME NEW p \in Pids, ProcessStep(p) \/ ExitEarly(p)
      PROVE  ShellInv'
  <2>1. CASE Exec(p)
    BY <2>1, ExecKeeps
  <2>2. CASE ReadItem(p) \/ WriteItem(p)
    BY <2>2, ItemKeeps
  <2>3. CASE ExitDone(p) \/ ExitEarly(p) \/ BrokenPipe(p)
    <3>1. \E ok \in BOOLEAN : Dies(p, ok)
      BY <2>3, Zenon DEF ExitDone, ExitEarly, BrokenPipe
    <3> QED BY <3>1, DiesKeeps
  <2> QED BY <1>9, <2>1, <2>2, <2>3 DEF ProcessStep
<1>10. CASE UNCHANGED vars
  <2>1. UNCHANGED <<pc, cmds, args, n, background, op, i, mine, child, own, strangers>>
    BY <1>10 DEF vars, call, history
  <2>2. UNCHANGED <<st, good, stdin, stdout, readers, writers, full>>
    BY <1>10 DEF vars, procs, pipes
  <2>3. ShellTypes'
    BY <2>1 DEF ShellInv, ShellTypes
  <2>4. ProcTypes' /\ HoldsEnds'
    BY <2>2 DEF ShellInv, ProcTypes, HoldsEnds
  <2>5. InCall' /\ ShellHolds' /\ OwnCounted'
    BY <2>1, <2>2 DEF ShellInv, InCall, ShellHolds, OwnCounted
  <2> QED BY <2>3, <2>4, <2>5 DEF ShellInv
<1> QED
  BY <1>1, <1>2, <1>3, <1>4, <1>5, <1>6, <1>7, <1>8, <1>9, <1>10 DEF Next, ShellStep

\* The inductive invariant: the shell holds the pipes that it is still handing out, a
\* process holds the ends it uses, and stages and calls of wait are counted together.
\* (InteractiveShell.cpp:274-335)
THEOREM ShellInvariant == Spec => []ShellInv
  BY ShellInit, ShellNext, PTL DEF Spec

\* Every variable keeps its type, and no loop of executePipeline leaves its bounds.
\* (InteractiveShell.cpp:264-335)
THEOREM ShellTypeCorrect == Spec => []TypeOK
<1>1. ShellInv => TypeOK
  BY DEF ShellInv, ShellTypes, ProcTypes, TypeOK
<1> QED BY <1>1, ShellInvariant, PTL

\* A pipeline returns before one of its stages has ended only if wait returned as many
\* other children instead.  (InteractiveShell.cpp:332-335)
THEOREM WaitsForItsStages == Spec => []StagesEnded
<1>1. ShellInv => StagesEnded
  <2> SUFFICES ASSUME ShellInv, pc = "reap", i = n
               PROVE  Cardinality({p \in own : st[p] # "zombie"}) <= strangers
    BY DEF StagesEnded
  <2> DEFINE running == {p \in own : st[p] # "zombie"}
  <2>1. IsFiniteSet(own) /\ Cardinality(own) \in Nat /\ n \in Nat /\ strangers \in Nat
    BY ShellIsNobody DEF ShellInv, ShellTypes
  <2>2. Cardinality(running) \in Nat /\ Cardinality(running) <= Cardinality(own)
    <3>1. running \subseteq own
      OBVIOUS
    <3> HIDE DEF running
    <3>2. IsFiniteSet(running) /\ Cardinality(running) <= Cardinality(own)
      BY <2>1, <3>1, FS_Subset
    <3> QED BY <3>2, FS_CardinalityType
  <2>3. Cardinality(own) <= strangers
    BY <2>1 DEF ShellInv, OwnCounted
  <2> QED BY <2>1, <2>2, <2>3
<1> QED BY <1>1, ShellInvariant, PTL

\* No stage meets the end of its input while the stage before it runs, nor a broken pipe
\* because the stage behind it has not begun: whoever uses a pipe holds an end of it
\* from fork on.  (InteractiveShell.cpp:297-313)
THEOREM NoStageIsCutOff == Spec => []NoEarlyEnd
<1>1. ShellInv => NoEarlyEnd
  BY ShellIsNobody DEF ShellInv, HoldsEnds, NoEarlyEnd
<1> QED BY <1>1, ShellInvariant, PTL
=============================================================================
