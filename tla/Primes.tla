------------------------------- MODULE Primes -------------------------------
(***************************************************************************)
(* The prime sieve of the utilities lab: a process feeds numbers into a    *)
(* pipe, and a chain of filter processes, each a child of the first one,   *)
(* reads from one pipe and writes to the next.                             *)
(*                                                                         *)
(* There are more pipes than a process may have open files, and nobody     *)
(* looks at what pipe() returns.  The descriptors of a pipe that was not   *)
(* made are what the stack holds, 0 on a fresh one: the console, which     *)
(* every filter closes with the ends it has no use for before it reads or  *)
(* writes.  What they do with such a pipe fails.                           *)
(***************************************************************************)
EXTENDS Integers, Sequences, FiniteSets

CONSTANTS
  END,      \* the last number, 35 in the code
  MAX,      \* the bound on END the code is written for, 35
  Makeable, \* how many pipes there may be descriptors for; not fewer than one
  Capacity  \* numbers a pipe holds: 512 bytes, two for each

START == 2

\* Mutant of Last: too few filters.
LastNinth == END \div 9

\* The last filter: filter() stops where c + 1 > end / 3.
Last == END \div 3

Filters == 0 .. Last
Main    == -1              \* the process that feeds and forks
Procs   == {Main} \cup Filters
Pipes   == 0 .. END
Numbers == START .. END

VARIABLES
  made,       \* how many pipes pipe() has made
  pipe, rd, wr,
  pc,
  i, c,       \* main: the next number, the current call of filter()
  sl, cur,    \* a filter's prime, and the number it has read
  forked,     \* the filters that run or ran: fork() fails for others
  printed,    \* how often each number was printed
  garbage     \* history: the filters that printed a buffer nothing was read into

\* print_primes() returns at once when END is beyond MAX.
PrimesAssumption ==
  /\ END \in Nat /\ END >= START
  /\ MAX \in Nat /\ END <= MAX
  /\ Makeable \subseteq 0 .. END + 1

vars == <<made, pipe, rd, wr, pc, i, c, sl, cur, forked, printed, garbage>>

INSTANCE Pipes

\* print_primes() has made what pipes it could.
Init ==
  /\ made \in Makeable
  /\ PipesInit(Main, 0 .. made - 1)
  /\ pc      = [p \in Procs |-> IF p = Main THEN "feed" ELSE "none"]
  /\ i       = START + 1
  /\ c       = 0
  /\ sl      = [f \in Filters |-> 0]
  /\ cur     = [f \in Filters |-> 0]
  /\ forked  = {}
  /\ printed = [n \in Numbers |-> IF n = START THEN 1 ELSE 0]
  /\ garbage = {}

Goto(p, l) == pc' = [pc EXCEPT ![p] = l]

-----------------------------------------------------------------------------
\* The first process

\* The odd numbers go into pipe 0, whose write end is then closed.
Feed ==
  /\ pc[Main] = "feed"
  /\ IF i <= END
     THEN /\ IF i % START = 0 THEN UNCHANGED pipe ELSE Write(0, i)
          /\ i' = i + 1
          /\ UNCHANGED <<wr, pc>>
     ELSE /\ CloseWrite(Main, {0})
          /\ Goto(Main, "fork")
          /\ UNCHANGED <<pipe, i>>
  /\ UNCHANGED <<rd, c, sl, cur, forked, printed, garbage>>

\* filter() forks its process; when fork() fails there is none, and the first
\* process goes on all the same.
Fork ==
  /\ pc[Main] = "fork"
  /\ \/ /\ Inherit(Main, c)
        /\ pc' = [pc EXCEPT ![Main] = "close", ![c] = "start"]
        /\ forked' = forked \cup {c}
     \/ /\ Goto(Main, "close")
        /\ UNCHANGED <<rd, wr, forked>>
  /\ UNCHANGED <<pipe, i, c, sl, cur, printed, garbage>>

\* The write end of pipe c is closed, and the next filter is applied.
CloseFed ==
  /\ pc[Main] = "close"
  /\ CloseWrite(Main, {c})
  /\ IF c + 1 <= Last
     THEN c' = c + 1 /\ Goto(Main, "fork")
     ELSE UNCHANGED c /\ Goto(Main, "unwind")
  /\ UNCHANGED <<pipe, rd, i, sl, cur, forked, printed, garbage>>

\* The calls of filter() return, from the last to the first.
Unwind ==
  /\ pc[Main] = "unwind"
  /\ CloseRead(Main, {c})
  /\ IF c > 0 THEN c' = c - 1 /\ UNCHANGED pc
              ELSE UNCHANGED c /\ Goto(Main, "wait")
  /\ UNCHANGED <<pipe, wr, i, sl, cur, forked, printed, garbage>>

\* END + 1 calls of wait() return once no child is left; then the other ends
\* are closed.
WaitAll ==
  /\ pc[Main] = "wait"
  /\ \A f \in forked : pc[f] = "exited"
  /\ CloseRead(Main, Pipes)
  /\ CloseWrite(Main, Pipes)
  /\ Goto(Main, "exited")
  /\ UNCHANGED <<pipe, i, c, sl, cur, forked, printed, garbage>>

-----------------------------------------------------------------------------
\* A filter

\* Mutant of CloseUnused: the write end of the next pipe is closed as well.
CloseNext(f) ==
  /\ pc[f] = "start"
  /\ CloseRead(f, Pipes \ {f})
  /\ CloseWrite(f, Pipes)
  /\ Goto(f, "first")
  /\ UNCHANGED <<pipe, i, c, sl, cur, forked, printed, garbage>>

\* Mutant of CloseUnused: the write end of its own pipe stays open.
CloseOthers(f) ==
  /\ pc[f] = "start"
  /\ CloseRead(f, Pipes \ {f})
  /\ CloseWrite(f, Pipes \ {f, f + 1})
  /\ Goto(f, "first")
  /\ UNCHANGED <<pipe, i, c, sl, cur, forked, printed, garbage>>

\* Filter f reads from pipe f and writes to pipe f + 1.
CloseUnused(f) ==
  /\ pc[f] = "start"
  /\ CloseRead(f, Pipes \ {f})
  /\ CloseWrite(f, Pipes \ {f + 1})
  /\ Goto(f, "first")
  /\ UNCHANGED <<pipe, i, c, sl, cur, forked, printed, garbage>>

\* The first number is the filter's prime.  When there is none, the buffer
\* holds what was on the stack, and may be printed if it reads as a number.
FirstRead(f) ==
  /\ pc[f] = "first"
  /\ \/ /\ \E n \in Numbers :
             /\ Read(f, n)
             /\ sl' = [sl EXCEPT ![f] = n]
             /\ printed' = [printed EXCEPT ![n] = @ + 1]
        /\ UNCHANGED garbage
     \/ /\ ReadEnd(f)
        /\ garbage' \in {garbage, garbage \cup {f}}
        /\ UNCHANGED <<pipe, sl, printed>>
  /\ Goto(f, "read")
  /\ UNCHANGED <<rd, wr, i, c, cur, forked>>

\* Mutant of Passes: multiples are passed on as well.
PassesAll(f, n) == sl[f] > 0

\* The number n goes on to the next filter.
Passes(f, n) == sl[f] > 0 /\ n % sl[f] # 0

\* The next number is read; at the end of the pipe the filter exits, which
\* closes what it has open.
NextRead(f) ==
  /\ pc[f] = "read"
  /\ \/ /\ \E n \in Numbers :
             /\ Read(f, n)
             /\ IF Passes(f, n)
                THEN cur' = [cur EXCEPT ![f] = n] /\ Goto(f, "write")
                ELSE UNCHANGED <<cur, pc>>
        /\ UNCHANGED <<rd, wr>>
     \/ /\ ReadEnd(f)
        /\ CloseRead(f, Pipes)
        /\ CloseWrite(f, Pipes)
        /\ Goto(f, "exited")
        /\ UNCHANGED <<pipe, cur>>
  /\ UNCHANGED <<i, c, sl, forked, printed, garbage>>

\* The number is passed on, and printed as well if the filter's prime is so
\* large that nothing composite is left.
PassOn(f) ==
  /\ pc[f] = "write"
  /\ Write(f + 1, cur[f])
  /\ printed' = [printed EXCEPT ![cur[f]] = IF sl[f] >= MAX \div 2 THEN @ + 1 ELSE @]
  /\ cur' = [cur EXCEPT ![f] = 0]
  /\ Goto(f, "read")
  /\ UNCHANGED <<rd, wr, i, c, sl, forked, garbage>>

-----------------------------------------------------------------------------
MainStep  == Feed \/ Fork \/ CloseFed \/ Unwind \/ WaitAll
Filter(f) == CloseUnused(f) \/ FirstRead(f) \/ NextRead(f) \/ PassOn(f)

Step(p) ==
  /\ \/ p = Main /\ MainStep
     \/ p \in Filters /\ Filter(p)
  /\ UNCHANGED made

Next == \E p \in Procs : Step(p)

-----------------------------------------------------------------------------
\* Properties

IsPrime(n) == \A d \in 2 .. n - 1 : n % d # 0
PrimesTo(n) == {k \in 2 .. n : IsPrime(k)}

\* No composite number that came through a pipe is printed, although a filter
\* starts to print what it passes on when only its own prime says that nothing
\* composite is left.  What a filter prints that has read nothing is no such
\* number: GarbageLast is about that.
PrimesOnly == \A n \in Numbers : printed[n] > 0 => IsPrime(n)

\* From the filter of the first prime that is at least MAX / 2 on, nothing more
\* is filtered: so many pipes are enough.
Enough == Cardinality({n \in PrimesTo(MAX \div 2 - 1) : n # START}) + 1

\* When the program is over each prime has been printed, if every fork() has
\* succeeded and the pipes were enough: the six that 16 open files leave room
\* for are, when the bound is 35.
EachPrime ==
  pc[Main] = "exited" /\ forked = Filters /\ made >= Enough
    => \A n \in PrimesTo(END) : printed[n] > 0

\* A filter prints a buffer that nothing was read into, which can be anything,
\* only when all primes have been printed: it does so at the end of its pipe, and
\* that comes when the filters before have nothing more to pass on.  It comes
\* earlier only if one of them could not be forked or a pipe was not made.
GarbageLast ==
  \A f \in garbage :
    0 .. f \subseteq forked /\ f < made => \A n \in PrimesTo(END) : printed[n] > 0

\* The program ends: every process sees the end of its pipe, in whatever order
\* the ends are inherited and closed, and also when fork() or pipe() fails.
PrimesOver == \A p \in forked \cup {Main} : pc[p] = "exited"
=============================================================================
