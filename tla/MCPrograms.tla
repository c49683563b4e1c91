----------------------------- MODULE MCPrograms -----------------------------
(***************************************************************************)
(* Instances for TLC of the exercises that stand alone.  They share        *)
(* nothing: a behaviour is one of the program that its first state picks,  *)
(* and the variables of the others stay as they are.                       *)
(***************************************************************************)
EXTENDS ComputeSum, CopyWithHoles, ExternalSort, HttpForever, PrimeService

VARIABLE program

MCUnset == -1

\* A copy buffer of two cells, and files of one to four.
MCSources == SeqOf({Hole, 0, 1}, 4)
MCReplacements == {<< >>, <<1>>, <<Hole, 1, 1>>, <<0, Hole, 1, 1, 1>>}

\* The line <<1, 3>> is longer than a block of three bytes.
MCLines == {<<0, 0>>, <<1, 1>>, <<1, 3>>, <<2, 1>>}
MCInputs == SeqOf(MCLines, 4)

\* There are nine primes up to 25.
MCRequests == {-1, 1, 9, 10}

MCRequestBytes == <<1, 2, 3>>
MCAnswers == SeqOf({0, 1}, 4)

Programs == {"sum", "copy", "sort", "http", "primes"}

allVars == <<program, vars, copyVars, sortVars, httpVars, serviceVars>>

ProgramsInit ==
  /\ program \in Programs
  /\ Init /\ (program = "sum" \/ (numCount = 1 /\ threadCount = 1))
  /\ CopyInit /\ (program = "copy" \/ (source = << >> /\ oneFile))
  /\ SortInit /\ (program = "sort" \/ (input = << >> /\ terminated))
  /\ HttpInit /\ (program = "http" \/ (response = << >> /\ untried = 0))
  /\ ServiceInit

Sum(action) ==
  program = "sum" /\ action
  /\ UNCHANGED <<program, copyVars, sortVars, httpVars, serviceVars>>
Copy(action) ==
  program = "copy" /\ action
  /\ UNCHANGED <<program, vars, sortVars, httpVars, serviceVars>>
Sort(action) ==
  program = "sort" /\ action
  /\ UNCHANGED <<program, vars, copyVars, httpVars, serviceVars>>
Http(action) ==
  program = "http" /\ action
  /\ UNCHANGED <<program, vars, copyVars, sortVars, serviceVars>>
Primes(action) ==
  program = "primes" /\ action
  /\ UNCHANGED <<program, vars, copyVars, sortVars, httpVars>>

ProgramsNext ==
  Sum(Next) \/ Copy(CopyNext) \/ Sort(SortNext) \/ Http(HttpNext) \/ Primes(ServiceNext)

\* The scheduler runs every process and every thread; a program that only waits for
\* the disk goes on.
ProgramsSpec ==
  /\ ProgramsInit /\ [][ProgramsNext]_allVars
  /\ WF_allVars(Sum(MainStep)) /\ \A i \in Chunks : WF_allVars(Sum(ThreadStep(i)))
  /\ WF_allVars(Copy(CopyStep)) /\ WF_allVars(Sort(SortNext))
  /\ WF_allVars(Primes(ChildStep)) /\ WF_allVars(Primes(ParentStep))

\* The variables of every program have their types.
ProgramsTypeOK == TypeOK /\ CopyTypeOK /\ SortTypeOK /\ HttpTypeOK /\ ServiceTypeOK

\* The programs that nobody has to answer end.  (computesum.c:86-96, 113-124,
\* copyWithHoles.cpp:45-90, external_sort.cpp:52, 134-177)
ProgramsEnd ==
  /\ program = "sum" => Finishes
  /\ program = "copy" => CopyEnds
  /\ program = "sort" => SortEnds
=============================================================================
