-------------------------------- MODULE Alarm --------------------------------
(***************************************************************************)
(* Alarms: sigalarm(n, handler) makes the timer interrupt of usertrap()    *)
(* call a user function at every n-th tick the process is interrupted at,  *)
(* and sigreturn() brings the process back to where it was interrupted.    *)
(*                                                                         *)
(* A process's registers are in p->trapframe while it is in the kernel and *)
(* in the CPU while it runs; `trapframe' is both.  Of the registers there  *)
(* are epc, which tells the main program from the handler, and a0, which   *)
(* every system call overwrites.  User code may do anything with a0, and   *)
(* may make any system call anywhere, sigreturn() outside of a handler and *)
(* fork() inside of one included; it reaches the handler only through the  *)
(* kernel, and leaves it only through sigreturn() or exit().               *)
(***************************************************************************)
EXTENDS Integers, Sequences

CONSTANTS
  Slots,     \* slots of the process table
  Intervals, \* the ticks user programs pass to sigalarm()
  IntMax     \* the largest int, 2^31 - 1 in the code

ASSUME AlarmAssumption ==
  /\ Intervals \subseteq Int
  /\ IntMax \in Nat

VARIABLES
  mode,        \* "unused", "user", or inside a system call
  trapframe, trapframesv, ticks, ainterv, hfl,    \* struct proc
  interrupted, \* history: the contexts of the handler calls not yet returned
  asked        \* history: what the slot's process has last passed to sigalarm()

procVars == <<trapframe, trapframesv, ticks, ainterv, hfl>>
vars == <<mode, procVars, interrupted, asked>>

Junk    == [epc |-> "junk", a0 |-> 0]       \* a page as kalloc() returns it
Context == [epc : {"main", "handler"}, a0 : {0, 1}] \cup {Junk}
Ints    == -IntMax - 1 .. IntMax

Init ==
  /\ mode        = [p \in Slots |-> "unused"]
  /\ trapframe   = [p \in Slots |-> Junk]
  /\ trapframesv = [p \in Slots |-> Junk]
  /\ ticks       = [p \in Slots |-> 0]
  /\ ainterv     = [p \in Slots |-> 0]
  /\ hfl         = [p \in Slots |-> 0]
  /\ interrupted = [p \in Slots |-> <<>>]
  /\ asked       = [p \in Slots |-> 0]

-----------------------------------------------------------------------------
\* Process creation and end

\* Mutant of AllocProc: hfl is not reset.
AllocProcKeepsFlag(p, frames) ==
  /\ mode[p] = "unused"
  /\ mode'        = [mode EXCEPT ![p] = "user"]
  /\ trapframe'   = frames
  /\ trapframesv' = [trapframesv EXCEPT ![p] = Junk]
  /\ ticks'       = [ticks EXCEPT ![p] = 0]
  /\ ainterv'     = [ainterv EXCEPT ![p] = 0]
  /\ interrupted' = [interrupted EXCEPT ![p] = <<>>]
  /\ asked'       = [asked EXCEPT ![p] = 0]
  /\ UNCHANGED hfl

\* Mutant of AllocProc: ainterv is not reset.
AllocProcKeepsInterval(p, frames) ==
  /\ mode[p] = "unused"
  /\ mode'        = [mode EXCEPT ![p] = "user"]
  /\ trapframe'   = frames
  /\ trapframesv' = [trapframesv EXCEPT ![p] = Junk]
  /\ ticks'       = [ticks EXCEPT ![p] = 0]
  /\ hfl'         = [hfl EXCEPT ![p] = 0]
  /\ interrupted' = [interrupted EXCEPT ![p] = <<>>]
  /\ asked'       = [asked EXCEPT ![p] = 0]
  /\ UNCHANGED ainterv

\* allocproc() for p, which leaves the registers of the processes at frames: p
\* has no alarm, and nothing is in its new trapframesv page.
AllocProc(p, frames) ==
  /\ mode[p] = "unused"
  /\ mode'        = [mode EXCEPT ![p] = "user"]
  /\ trapframe'   = frames
  /\ trapframesv' = [trapframesv EXCEPT ![p] = Junk]
  /\ ticks'       = [ticks EXCEPT ![p] = 0]
  /\ ainterv'     = [ainterv EXCEPT ![p] = 0]
  /\ hfl'         = [hfl EXCEPT ![p] = 0]
  /\ interrupted' = [interrupted EXCEPT ![p] = <<>>]
  /\ asked'       = [asked EXCEPT ![p] = 0]

\* A process outside of this model forks p.
Start(p) ==
  AllocProc(p, [trapframe EXCEPT ![p] = [epc |-> "main", a0 |-> 0]])

\* p forks q, which returns 0 where p is.  In p it returns the pid, say 1.
Fork(p, q) ==
  /\ mode[p] = "user"
  /\ trapframe[p].epc # "junk"
  /\ p # q
  /\ AllocProc(q, [trapframe EXCEPT ![p].a0 = 1,
                                    ![q] = [trapframe[p] EXCEPT !.a0 = 0]])

\* p exits and is waited for; freeproc() leaves the fields of the alarm as
\* they are.  A process without registers to speak of faults and is killed.
Exit(p) ==
  /\ mode[p] = "user"
  /\ mode' = [mode EXCEPT ![p] = "unused"]
  /\ trapframe'   = [trapframe EXCEPT ![p] = Junk]
  /\ trapframesv' = [trapframesv EXCEPT ![p] = Junk]
  /\ interrupted' = [interrupted EXCEPT ![p] = <<>>]
  /\ asked'       = [asked EXCEPT ![p] = 0]
  /\ UNCHANGED <<ticks, ainterv, hfl>>

-----------------------------------------------------------------------------
\* User code and system calls

\* User code computes, or a system call without a part in alarms returns.
Compute(p) ==
  /\ mode[p] = "user"
  /\ trapframe[p].epc # "junk"
  /\ \E v \in {0, 1} : trapframe' = [trapframe EXCEPT ![p].a0 = v]
  /\ UNCHANGED <<mode, trapframesv, ticks, ainterv, hfl, interrupted, asked>>

\* sys_sigalarm() returns 0; it resets neither the count of ticks nor hfl.
Sigalarm(p, n) ==
  /\ mode[p] = "user"
  /\ trapframe[p].epc # "junk"
  /\ ainterv'   = [ainterv EXCEPT ![p] = n]
  /\ asked'     = [asked EXCEPT ![p] = n]
  /\ trapframe' = [trapframe EXCEPT ![p].a0 = 0]
  /\ UNCHANGED <<mode, trapframesv, ticks, hfl, interrupted>>

\* Mutant of SigreturnClear: the flag is left to the kernel.
SigreturnKeepsFlag(p) ==
  /\ mode[p] = "user"
  /\ trapframe[p].epc # "junk"
  /\ mode' = [mode EXCEPT ![p] = "sigreturn"]
  /\ UNCHANGED <<procVars, interrupted, asked>>

\* sys_sigreturn() first takes back the flag.
SigreturnClear(p) ==
  /\ mode[p] = "user"
  /\ trapframe[p].epc # "junk"
  /\ mode' = [mode EXCEPT ![p] = "sigreturn"]
  /\ hfl'  = [hfl EXCEPT ![p] = 0]
  /\ UNCHANGED <<trapframe, trapframesv, ticks, ainterv, interrupted, asked>>

\* The history after sigreturn(): the latest handler call is over.
Resumed(p) ==
  interrupted' = [interrupted EXCEPT ![p] =
                    IF @ = <<>> THEN @ ELSE SubSeq(@, 1, Len(@) - 1)]

\* Mutant of SigreturnRestore: the system call returns 0.
SigreturnZero(p) ==
  /\ mode[p] = "sigreturn"
  /\ mode' = [mode EXCEPT ![p] = "user"]
  /\ trapframe' = [trapframe EXCEPT ![p] = [trapframesv[p] EXCEPT !.a0 = 0]]
  /\ Resumed(p)
  /\ UNCHANGED <<trapframesv, ticks, ainterv, hfl, asked>>

\* Then it restores the registers, and returns the saved a0, which syscall()
\* stores in a0.
SigreturnRestore(p) ==
  /\ mode[p] = "sigreturn"
  /\ mode' = [mode EXCEPT ![p] = "user"]
  /\ trapframe' = [trapframe EXCEPT ![p] = trapframesv[p]]
  /\ Resumed(p)
  /\ UNCHANGED <<trapframesv, ticks, ainterv, hfl, asked>>

-----------------------------------------------------------------------------
\* The timer interrupt

\* Mutant of Increment: an int without a bound.
IncrementUnbounded(t) == t + 1

\* The int after t.
Increment(t) == IF t = IntMax THEN -IntMax - 1 ELSE t + 1

Magnitude(n) == IF n < 0 THEN -n ELSE n

\* t % n == 0.  Undefined in C for n = 0: the remainder instruction of RISC-V
\* then gives t.
Divides(n, t) == IF n = 0 THEN t = 0 ELSE t % Magnitude(n) = 0

\* Mutant of Due: a handler that runs can be interrupted by a call of itself.
DueAgain(p, t) == t # 0 /\ Divides(ainterv[p], t)

\* The tick t is one for the handler, and it is not running.
Due(p, t) == t # 0 /\ Divides(ainterv[p], t) /\ hfl[p] = 0

\* usertrap() on a timer interrupt.  Timer interrupts while p is inside of a
\* system call go to kerneltrap(), which does not count them.
Timer(p) ==
  LET t == Increment(ticks[p]) IN
  /\ mode[p] = "user"
  /\ ticks' = [ticks EXCEPT ![p] = t]
  /\ IF Due(p, t)
     THEN /\ hfl' = [hfl EXCEPT ![p] = 1]
          /\ trapframesv' = [trapframesv EXCEPT ![p] = trapframe[p]]
          /\ trapframe'   = [trapframe EXCEPT ![p].epc = "handler"]
          /\ interrupted' = [interrupted EXCEPT ![p] = Append(@, trapframe[p])]
     ELSE UNCHANGED <<hfl, trapframesv, trapframe, interrupted>>
  /\ UNCHANGED <<mode, ainterv, asked>>

-----------------------------------------------------------------------------
SystemCall(p) ==
  \/ \E n \in Intervals : Sigalarm(p, n)
  \/ SigreturnClear(p)
  \/ \E q \in Slots : Fork(p, q)

Next ==
  \E p \in Slots :
    \/ Start(p) \/ Exit(p) \/ Compute(p) \/ SystemCall(p)
    \/ SigreturnRestore(p) \/ Timer(p)

Spec == Init /\ [][Next]_vars

\* Timer interrupts keep coming while a process runs in user mode, and
\* system calls return: the scheduler and the timer see to both.  The
\* programs see to it that a handler returns.
HandlerReturns(p) == trapframe[p].epc = "handler" /\ SigreturnClear(p)

Fairness ==
  \A p \in Slots :
    /\ SF_vars(Timer(p))
    /\ WF_vars(SigreturnRestore(p))
    /\ SF_vars(HandlerReturns(p))

FairSpec == Spec /\ Fairness

-----------------------------------------------------------------------------
\* Properties

\* Every variable keeps its type.
TypeOK ==
  /\ mode \in [Slots -> {"unused", "user", "sigreturn"}]
  /\ trapframe \in [Slots -> Context]
  /\ trapframesv \in [Slots -> Context]
  /\ ticks \in [Slots -> Ints]
  /\ ainterv \in [Slots -> Intervals \cup {0}]
  /\ hfl \in [Slots -> {0, 1}]
  /\ interrupted \in [Slots -> Seq(Context)]
  /\ asked \in [Slots -> Intervals \cup {0}]

\* "Handler flag to prevent repeating calls": a handler is never called while
\* a call of it has not returned, and as long as one has not, the registers
\* it interrupted are what trapframesv holds, whatever the handler does.
HandlerOnce ==
  \A p \in Slots :
    /\ Len(interrupted[p]) <= 1
    /\ interrupted[p] # <<>> => trapframesv[p] = interrupted[p][1]
    /\ hfl[p] = 1 /\ mode[p] # "unused" => interrupted[p] # <<>>

\* sigreturn() from a handler brings back every register of the interrupted
\* program, a0 included.
Transparent ==
  [][\A p \in Slots :
       mode[p] = "sigreturn" /\ mode'[p] = "user" /\ interrupted[p] # <<>>
         => trapframe'[p] = interrupted[p][Len(interrupted[p])]]_vars

\* A process is sent to a handler only if it has asked for that itself and has not
\* taken it back: an alarm that its parent has, or that its slot's last process
\* had, is not its own, and a division by the interval 0, which usertrap() does at
\* every tick of a process without an alarm, calls nobody.
NotUnasked ==
  [][\A p \in Slots :
       Len(interrupted'[p]) > Len(interrupted[p]) => asked[p] # 0]_vars

\* As long as an alarm stays set its handler is called again and again, in a
\* process whose slot another process left inside of a handler, too, and
\* across the overflow of ticks.
AlarmRings ==
  \A p \in Slots, n \in Intervals \ {0} :
    <>[](mode[p] # "unused" /\ ainterv[p] = n)
      => []<>(interrupted[p] = <<>>) /\ []<>(interrupted[p] # <<>>)
=============================================================================
