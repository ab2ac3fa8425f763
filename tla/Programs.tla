------------------------------ MODULE Programs ------------------------------
(***************************************************************************)
(* The programs of the utilities lab that meet other processes: those made *)
(* of several ones, and find, whose directories others change.  Which one  *)
(* runs is chosen at the beginning; two have in common what pipes are.     *)
(***************************************************************************)
EXTENDS Integers, Find

CONSTANTS END, MAX, Makeable, PipeBytes  \* find has its own

VARIABLES
  program,
  made, pipe, rd, wr, pc, i, c, sl, cur, forked, printed, garbage, \* primes
  pipe2, rd2, wr2, at, said                                        \* pingpong

Sieve == INSTANCE Primes WITH Capacity <- PipeBytes \div 2

Ball == INSTANCE Pingpong WITH
  Capacity <- PipeBytes, pipe <- pipe2, rd <- rd2, wr <- wr2

ASSUME ProgramsAssumption == Sieve!PrimesAssumption /\ FindAssumption

sieveVars == <<made, pipe, rd, wr, pc, i, c, sl, cur, forked, printed, garbage>>
ballVars  == <<pipe2, rd2, wr2, at, said>>
vars == <<program, sieveVars, ballVars, findVars>>

Init ==
  /\ program \in {"primes", "pingpong", "find"}
  /\ Sieve!Init /\ Ball!Init /\ FindInit

\* A step of one of the processes of the program that runs.
SieveStep(p) ==
  program = "primes" /\ Sieve!Step(p) /\ UNCHANGED <<program, ballVars, findVars>>
BallStep(q) ==
  program = "pingpong" /\ Ball!Step(q) /\ UNCHANGED <<program, sieveVars, findVars>>
FindRuns ==
  program = "find" /\ FindStep /\ UNCHANGED <<program, sieveVars, ballVars>>
OthersRun ==
  program = "find" /\ Others /\ UNCHANGED <<program, sieveVars, ballVars>>

Next ==
  \/ \E p \in Sieve!Procs : SieveStep(p)
  \/ \E q \in Ball!Procs : BallStep(q)
  \/ FindRuns \/ OthersRun

\* The scheduler runs every process that can run.
Fairness ==
  /\ \A p \in Sieve!Procs : WF_vars(SieveStep(p))
  /\ \A q \in Ball!Procs : WF_vars(BallStep(q))
  /\ WF_vars(FindRuns)

Spec == Init /\ [][Next]_vars /\ Fairness

-----------------------------------------------------------------------------
\* Properties

\* Of the numbers that come through the pipes, only primes are printed.
PrimesOnly == Sieve!PrimesOnly

\* A buffer nothing was read into is printed after all primes, or after fork() or
\* pipe() has failed.
GarbageLast == Sieve!GarbageLast

\* All of them are, if there are processes and pipes enough.
EachPrime == Sieve!EachPrime

\* Every program ends: primes and find always, pingpong if it has a child, and
\* then "received pong" has come after "received ping".
Ends ==
  <>CASE program = "primes"   -> Sieve!PrimesOver
      [] program = "pingpong" -> Ball!PingpongOver
      [] program = "find"     -> FindOver
=============================================================================
