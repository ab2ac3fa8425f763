---------------------------- MODULE SyscallProofs ----------------------------
(***************************************************************************)
(* Proofs about system calls.  Syscalls implements Clock, so that what is  *)
(* proved of Clock - a sleep is long enough, a tick wakes everybody - holds *)
(* of it; then the console, whose lines stay whole; then tracing, for      *)
(* which all three are needed: a call prints its line between the handler  *)
(* and the return, and nobody changes the mask meanwhile.                  *)
(***************************************************************************)
EXTENDS Syscalls, TLAPS

-----------------------------------------------------------------------------
\* uint

\* What fits into a uint is not changed by it.
LEMMA ModSmall ==
  ASSUME NEW m \in Nat \ {0}, NEW x \in 0 .. m - 1 PROVE x % m = x
  OBVIOUS

\* A difference of uints that is negative comes round once.
LEMMA ModNegative ==
  ASSUME NEW m \in Nat \ {0}, NEW x \in Int, - m <= x, x < 0
  PROVE  x % m = x + m
  OBVIOUS

\* One more than the largest uint is zero.
LEMMA ModWhole == ASSUME NEW m \in Nat \ {0} PROVE m % m = 0
  OBVIOUS

\* The count goes round: one tick more is one more in a difference of uints,
\* unless it comes round to the start.
LEMMA OneTickMore ==
  ASSUME NEW m \in Nat \ {0}, NEW t \in 0 .. m - 1, NEW t0 \in 0 .. m - 1,
         ((t - t0) % m) + 1 < m
  PROVE  (((t + 1) % m) - t0) % m = ((t - t0) % m) + 1
<1>1. CASE t >= t0
  <2>1. (t - t0) % m = t - t0
    BY <1>1, ModSmall
  <2>2. CASE t + 1 < m
    <3>1. (t + 1) % m = t + 1
      BY <2>2, ModSmall
    <3>2. t + 1 - t0 \in 0 .. m - 1
      BY <1>1, <2>1
    <3> QED
      BY <2>1, <3>1, <3>2, ModSmall
  <2>3. CASE t + 1 = m
    <3>1. (t + 1) % m = 0
      BY <2>3, ModWhole
    <3>2. t0 # 0 /\ (- t0) % m = m - t0
      BY <2>1, <2>3, ModNegative
    <3> QED
      BY <2>1, <2>3, <3>1, <3>2
  <2> QED
    BY <2>2, <2>3
<1>2. CASE t < t0
  <2>1. (t - t0) % m = t - t0 + m
    BY <1>2, ModNegative
  <2>2. t + 1 < t0 /\ (t + 1) % m = t + 1
    BY <1>2, <2>1, ModSmall
  <2>3. (t + 1 - t0) % m = t + 1 - t0 + m
    BY <2>2, ModNegative
  <2> QED
    BY <2>1, <2>2, <2>3
<1> QED
  BY <1>1, <1>2

-----------------------------------------------------------------------------
\* The clock

\* tickslock is with clockintr() during wakeup(), or with a process between
\* its test of ticks and its sleep.
TicksLock ==
  /\ tickslock = Clock <=> scan \in Slots
  /\ \A p \in Slots : tickslock = p <=> pc[p] \in {"check", "sleep"}

\* Nobody is asleep whom wakeup() has passed.
Passed == tickslock = Clock => \A p \in Slots : p < scan => pc[p] # "asleep"

\* The uint difference is the time that has passed, until that is too much
\* for a uint.
Measured ==
  \A p \in Slots : InSleep(p) =>
    /\ n[p] < TickValues
    /\ elapsed[p] < TickValues => (ticks - ticks0[p]) % TickValues = elapsed[p]

ClockInv == ClockTypeOK /\ TicksLock /\ Passed /\ Measured

\* In the beginning nobody sleeps, and nobody holds tickslock.
LEMMA ClockInit == ASSUME ClockAssumption, Init PROVE ClockInv
<1>1. ClockTypeOK
  BY DEF ClockAssumption, Init, ClockTypeOK, Slots, Labels, Calls, Nobody, NoSlot
<1>2. TicksLock /\ Passed /\ Measured
  BY DEF Init, TicksLock, Passed, Measured, InSleep, Slots, Clock, Nobody, NoSlot
<1> QED
  BY <1>1, <1>2 DEF ClockInv

\* wakeup()'s loop stays in the table.
LEMMA NextToScan ==
  ASSUME ClockAssumption, scan \in Slots, scan # NPROC - 1
  PROVE  scan + 1 \in Slots
  BY DEF ClockAssumption, Slots

\* Every step keeps the types,
LEMMA ClockTypeStep ==
  ASSUME ClockAssumption, ClockTypeOK, Next PROVE ClockTypeOK'
<1> USE DEF ClockAssumption, ClockTypeOK, sleepVars, Goto, Labels, Calls
<1>1. CASE ClockTick
  <2>1. (ticks + 1) % TickValues \in 0 .. TickValues - 1
    OBVIOUS
  <2>2. 0 \in Slots
    BY DEF Slots
  <2>3. elapsed' \in [Slots -> 0 .. TickValues]
    BY <1>1 DEF ClockTick
  <2> QED
    BY <1>1, <2>1, <2>2, <2>3 DEF ClockTick
<1>2. CASE ClockWake
  <2>1. scan' \in Slots \cup {NoSlot}
    BY <1>2, NextToScan DEF ClockWake
  <2> QED
    BY <1>2, <2>1 DEF ClockWake
<1>3. ASSUME NEW p \in Slots, SleepStep(p) PROVE ClockTypeOK'
  BY <1>3 DEF SleepStep, SleepStart, SleepKilled, Sleep, Reacquire, LoopTest,
     Returns, Locals
<1>4. ASSUME NEW p \in Slots, NEW q \in Slots, Kill(p, q) \/ Fork(p, q)
      PROVE  ClockTypeOK'
  <2>1. CASE Kill(p, q)
    <3>1. pc[q] \in Labels
      OBVIOUS
    <3>2. pc' \in [Slots -> Labels]
      BY <2>1, <3>1 DEF Kill
    <3> QED
      BY <2>1, <3>2 DEF Kill
  <2>2. CASE Fork(p, q)
    BY <2>2 DEF Fork
  <2> QED
    BY <1>4, <2>1, <2>2
<1>5. ASSUME NEW p \in Slots, NEW k \in OtherCalls \cup {"fork", "kill"},
             NEW v \in {-1, 0}, Other(p, k, v)
      PROVE  ClockTypeOK'
  BY <1>5 DEF Other, Returns, Locals
<1>6. ASSUME NEW p \in Slots,
             Trap(p) \/ Return(p) \/ Start(p) \/ SysExit(p) \/ Uptime(p)
      PROVE  ClockTypeOK'
  <2>1. CASE Trap(p)
    BY <2>1 DEF Trap, Exit
  <2>2. CASE Start(p) \/ SysExit(p)
    BY <2>2 DEF Start, SysExit, Exit
  <2>3. CASE Uptime(p)
    BY <2>3 DEF Uptime, Returns, Locals
  <2>4. CASE Return(p)
    <3>1. killed' \in [Slots -> BOOLEAN] /\ pc' \in [Slots -> Labels]
      BY <2>4 DEF Return, Exit
    <3>2. call' \in [Slots -> Calls] /\ ret' \in [Slots -> Int]
      BY <2>4 DEF Return
    <3>3. UNCHANGED <<ticks, tickslock, scan, sleepVars>>
      BY <2>4 DEF Return
    <3> QED
      BY <3>1, <3>2, <3>3
  <2> QED
    BY <1>6, <2>1, <2>2, <2>3, <2>4
<1> QED
  BY <1>1, <1>2, <1>3, <1>4, <1>5, <1>6 DEF Next, ClockStep, ProcStep, Fails

\* the agreement of tickslock with where clockintr() and the processes are,
LEMMA TicksLockStep ==
  ASSUME ClockAssumption, ClockTypeOK, TicksLock, Next PROVE TicksLock'
<1> USE DEF ClockTypeOK, TicksLock, sleepVars, Goto
<1>1. Clock \notin Slots /\ Nobody \notin Slots /\ Clock # Nobody /\ NoSlot \notin Slots
        /\ 0 \in Slots
  BY DEF ClockAssumption, Clock, Nobody, NoSlot, Slots
<1>2. CASE ClockTick
  BY <1>1, <1>2 DEF ClockTick
<1>3. CASE ClockWake
  <2>1. \A p \in Slots : pc'[p] \in {"check", "sleep"} <=> pc[p] \in {"check", "sleep"}
    BY <1>3 DEF ClockWake, Wakes
  <2> QED
    BY <1>1, <1>3, <2>1, NextToScan DEF ClockWake
<1>4. ASSUME NEW p \in Slots, SleepStep(p) PROVE TicksLock'
  BY <1>1, <1>4 DEF SleepStep, SleepStart, SleepKilled, Sleep, Reacquire,
     LoopTest, Returns, Locals
<1>5. ASSUME NEW p \in Slots, NEW q \in Slots, Kill(p, q) \/ Fork(p, q)
      PROVE  TicksLock'
  BY <1>5 DEF Kill, Fork
<1>6. ASSUME NEW p \in Slots, NEW k \in OtherCalls \cup {"fork", "kill"},
             NEW v \in {-1, 0}, Other(p, k, v)
      PROVE  TicksLock'
  BY <1>6 DEF Other, Returns
<1>7. ASSUME NEW p \in Slots,
             Trap(p) \/ Return(p) \/ Start(p) \/ SysExit(p) \/ Uptime(p)
      PROVE  TicksLock'
  BY <1>7 DEF Trap, Return, Start, SysExit, Uptime, Exit, Returns
<1> QED
  BY <1>2, <1>3, <1>4, <1>5, <1>6, <1>7 DEF Next, ClockStep, ProcStep, Fails

\* While clockintr() has tickslock nobody falls asleep.
LEMMA PassedStep ==
  ASSUME ClockAssumption, ClockTypeOK, TicksLock, Passed, Next PROVE Passed'
<1> USE DEF ClockTypeOK, Passed, sleepVars, Goto
<1>1. Clock \notin Slots /\ \A p \in Slots : p \in Int /\ 0 <= p
  BY DEF Clock, Slots
<1>2. CASE ClockTick
  BY <1>1, <1>2 DEF ClockTick
<1>3. CASE ClockWake
  <2>1. tickslock = Clock /\ \A p \in Slots : p <= scan => pc'[p] # "asleep"
    BY <1>1, <1>3 DEF ClockWake, Wakes, TicksLock
  <2> QED
    BY <1>1, <1>3, <2>1 DEF ClockWake, Nobody, Clock
<1>4. ASSUME NEW p \in Slots, SleepStep(p) PROVE Passed'
  BY <1>1, <1>4 DEF SleepStep, SleepStart, SleepKilled, Sleep, Reacquire,
     LoopTest, Returns, Locals, TicksLock, Nobody, Clock
<1>5. ASSUME NEW p \in Slots, NEW q \in Slots, Kill(p, q) \/ Fork(p, q)
      PROVE  Passed'
  BY <1>5 DEF Kill, Fork
<1>6. ASSUME NEW p \in Slots, NEW k \in OtherCalls \cup {"fork", "kill"},
             NEW v \in {-1, 0}, Other(p, k, v)
      PROVE  Passed'
  BY <1>6 DEF Other, Returns
<1>7. ASSUME NEW p \in Slots,
             Trap(p) \/ Return(p) \/ Start(p) \/ SysExit(p) \/ Uptime(p)
      PROVE  Passed'
  BY <1>7 DEF Trap, Return, Start, SysExit, Uptime, Exit, Returns
<1> QED
  BY <1>2, <1>3, <1>4, <1>5, <1>6, <1>7 DEF Next, ClockStep, ProcStep, Fails

\* and the time a process has slept, by its own arithmetic.
LEMMA MeasuredStep ==
  ASSUME ClockAssumption, ClockTypeOK, Measured, Next PROVE Measured'
<1> USE DEF ClockTypeOK, Measured, InSleep, sleepVars, Goto
<1>1. CASE ClockTick
  <2> SUFFICES ASSUME NEW p \in Slots, InSleep(p), elapsed'[p] < TickValues
               PROVE  (ticks' - ticks0[p]) % TickValues = elapsed'[p]
    BY <1>1 DEF ClockTick
  <2>1. elapsed[p] < TickValues /\ elapsed'[p] = elapsed[p] + 1
    BY <1>1 DEF ClockTick, ClockAssumption
  <2>2. ((ticks - ticks0[p]) % TickValues) + 1 = elapsed'[p]
    BY <2>1
  <2>3. ticks0[p] \in 0 .. TickValues - 1 /\ TickValues \in Nat \ {0}
    BY DEF ClockAssumption
  <2> QED
    BY <1>1, <2>2, <2>3, OneTickMore DEF ClockTick
<1>2. CASE ClockWake
  BY <1>2 DEF ClockWake, Wakes
<1>3. ASSUME NEW p \in Slots, SleepStep(p) PROVE Measured'
  <2>1. (ticks - ticks) % TickValues = 0
    BY ModSmall DEF ClockAssumption
  <2>2. ASSUME NEW d \in Durations, SleepStart(p, d) PROVE Measured'
    BY <2>1, <2>2 DEF SleepStart, LoopTest, Returns, Locals, ClockAssumption
  <2>3. CASE SleepKilled(p) \/ Sleep(p)
    BY <2>3 DEF SleepKilled, Sleep, Returns, Locals
  <2>4. CASE Reacquire(p)
    BY <2>4 DEF Reacquire, LoopTest, Returns, Locals
  <2> QED
    BY <1>3, <2>2, <2>3, <2>4 DEF SleepStep
<1>4. ASSUME NEW p \in Slots, NEW q \in Slots, Kill(p, q) \/ Fork(p, q)
      PROVE  Measured'
  BY <1>4 DEF Kill, Fork
<1>5. ASSUME NEW p \in Slots, NEW k \in OtherCalls \cup {"fork", "kill"},
             NEW v \in {-1, 0}, Other(p, k, v)
      PROVE  Measured'
  BY <1>5 DEF Other, Returns, Locals
<1>6. ASSUME NEW p \in Slots,
             Trap(p) \/ Return(p) \/ Start(p) \/ SysExit(p) \/ Uptime(p)
      PROVE  Measured'
  BY <1>6 DEF Trap, Return, Start, SysExit, Uptime, Exit, Returns, Locals
<1> QED
  BY <1>1, <1>2, <1>3, <1>4, <1>5, <1>6 DEF Next, ClockStep, ProcStep, Fails

\* The clock's variables have their types, and its lock and its times are
\* right.
THEOREM ClockInvariant == ClockSpec => []ClockInv
<1>1. ClockInv /\ [Next]_clockVars => ClockInv'
  <2>1. ClockInv /\ Next => ClockInv'
    BY ClockAssumption, ClockTypeStep, TicksLockStep, PassedStep, MeasuredStep
       DEF ClockInv
  <2>2. ClockInv /\ UNCHANGED clockVars => ClockInv'
    BY DEF clockVars, sleepVars, ClockInv, ClockTypeOK, TicksLock, Passed,
           Measured, InSleep
  <2> QED
    BY <2>1, <2>2
<1> QED
  BY <1>1, ClockInit, ClockAssumption, PTL DEF ClockSpec

\* A sleep that ends by itself, and not by kill(), was long enough, whatever
\* a uint holds.
THEOREM ClockSleepsEnough == ClockSpec => SleptEnough
<1>1. ClockInv /\ [Next]_clockVars =>
        [\A p \in Slots :
           /\ InSleep(p) /\ pc'[p] = "return" /\ ret'[p] = 0 => elapsed[p] >= n[p]
           /\ \A d \in Durations :
                SleepStart(p, d) /\ pc'[p] = "return" => d <= 0]_clockVars
  <2> USE DEF ClockInv, ClockTypeOK, sleepVars, Goto
  <2> SUFFICES ASSUME ClockInv, Next, NEW p \in Slots
               PROVE  /\ InSleep(p) /\ pc'[p] = "return" /\ ret'[p] = 0
                            => elapsed[p] >= n[p]
                      /\ \A d \in Durations :
                           SleepStart(p, d) /\ pc'[p] = "return" => d <= 0
    OBVIOUS
  <2>1. ASSUME NEW d \in Durations, SleepStart(p, d), pc'[p] = "return"
        PROVE  d <= 0
    <3>1. (ticks - ticks) % TickValues = 0
      BY ModSmall, ClockAssumption DEF ClockAssumption
    <3> QED
      BY <2>1, <3>1, ClockAssumption
         DEF SleepStart, LoopTest, Enough, ClockAssumption
  <2>2. ASSUME InSleep(p), pc'[p] = "return", ret'[p] = 0
        PROVE  elapsed[p] >= n[p]
    <3>1. Reacquire(p)
      <4>1. ~ ClockStep
        BY <2>2 DEF ClockStep, ClockTick, ClockWake, InSleep
      <4>2. PICK q \in Slots : ProcStep(q)
        BY <4>1 DEF Next
      <4>3. q = p
        BY <2>2, <4>2 DEF ProcStep, Trap, Return, Start, SysExit, Exit, Uptime,
           SleepStep, SleepStart, SleepKilled, Sleep, Reacquire, LoopTest,
           Kill, Fork, Other, Fails, Returns, InSleep
      <4> QED
        BY <2>2, <4>2, <4>3 DEF ProcStep, Trap, Return, Start, SysExit, Exit,
           Uptime, SleepStep, SleepStart, SleepKilled, Sleep, Kill, Fork,
           Other, Fails, Returns, InSleep
    <3>2. (ticks - ticks0[p]) % TickValues >= n[p]
      BY <2>2, <3>1 DEF Reacquire, LoopTest, Enough, InSleep
    <3>3. CASE elapsed[p] < TickValues
      BY <2>2, <3>2, <3>3 DEF Measured
    <3>4. CASE elapsed[p] = TickValues
      BY <2>2, <3>4, ClockAssumption DEF Measured, ClockAssumption
    <3> QED
      BY <3>3, <3>4, ClockAssumption DEF ClockAssumption
  <2> QED
    BY <2>1, <2>2
<1> QED
  BY <1>1, ClockInvariant, PTL DEF ClockSpec, SleptEnough

\* When clockintr() gives up tickslock nobody is asleep: it has woken all, and
\* nobody can have gone to sleep, or been overlooked, meanwhile.
THEOREM ClockWakesAll == ClockSpec => TickWakes
<1>1. ClockInv /\ [Next]_clockVars =>
        [tickslock = Clock /\ tickslock' # Clock
           => \A p \in Slots : pc'[p] # "asleep"]_clockVars
  <2> USE DEF ClockInv, ClockTypeOK, sleepVars, Goto
  <2> SUFFICES ASSUME ClockInv, Next, tickslock = Clock, tickslock' # Clock
               PROVE  \A p \in Slots : pc'[p] # "asleep"
    OBVIOUS
  <2>1. Clock # Nobody /\ Clock \notin Slots
    BY DEF Clock, Nobody, Slots
  <2>2. ClockStep
    <3> SUFFICES ASSUME NEW p \in Slots, ProcStep(p) PROVE FALSE
      BY DEF Next
    <3>1. pc[p] \notin {"check", "sleep"}
      BY <2>1 DEF TicksLock
    <3> QED
      BY <2>1, <3>1 DEF ProcStep, Trap, Return, Start, SysExit, Exit, Uptime,
         SleepStep, SleepStart, SleepKilled, Sleep, Reacquire, LoopTest, Kill,
         Fork, Other, Fails, Returns
  <2>3. ClockWake /\ scan = NPROC - 1
    BY <2>1, <2>2 DEF ClockStep, ClockTick, ClockWake
  <2>4. \A p \in Slots : p = scan \/ p < scan
    BY <2>3 DEF Slots, ClockAssumption
  <2> QED
    BY <2>3, <2>4 DEF ClockWake, Wakes, Passed
<1> QED
  BY <1>1, ClockInvariant, PTL DEF ClockSpec, TickWakes

-----------------------------------------------------------------------------
\* The console

\* A thread in printf() has pr.lock, or has yet to get it, or found pr.locking
\* unset because a thread has panicked.
LinesInv ==
  /\ locking <=> panicking = {}
  /\ \A t \in Slots :
       /\ at[t] = "acquire" => locked[t]
       /\ at[t] = "print" => IF locked[t] THEN prlock = t ELSE panicking # {}
       /\ at[t] \in {"panic", "halted"} => t \in panicking

ConsoleInv ==
  Console!ConsoleTypeOK /\ LinesInv /\ Console!PanicNotBlocked

\* What happens in printf.c.
ConsoleStep(t) == \/ Console!PrintfStart(t) \/ Console!Step(t)
                  \/ Console!Panic(t) \/ Console!PanicNullFmt(t)

\* In the beginning nobody prints.
LEMMA ConsoleInit == ASSUME SyscallAssumption, Console!Init PROVE ConsoleInv
<1>1. Console!ConsoleTypeOK
  <2>1. 0 \in 0 .. LineLength
    BY DEF SyscallAssumption
  <2> QED
    BY <2>1 DEF Console!Init, Console!ConsoleTypeOK
<1>2. LinesInv /\ Console!PanicNotBlocked
  BY DEF Console!Init, LinesInv, Console!PanicNotBlocked
<1> QED
  BY <1>1, <1>2 DEF ConsoleInv

\* The steps of printf() and panic() keep the types.
LEMMA ConsoleTypeStep ==
  ASSUME SyscallAssumption, Console!ConsoleTypeOK, NEW t \in Slots, ConsoleStep(t)
  PROVE  Console!ConsoleTypeOK'
<1> USE DEF Console!ConsoleTypeOK, Console!Goto, SyscallAssumption
<1>1. CASE Console!PrintfStart(t) \/ Console!PanicPrint(t)
  BY <1>1 DEF Console!PrintfStart, Console!PanicPrint, Console!Begin
<1>2. CASE Console!Panic(t) \/ Console!PanicNullFmt(t)
  BY <1>2 DEF Console!Panic, Console!PanicNullFmt
<1>3. CASE Console!PrintfAcquire(t) \/ Console!PrintChar(t)
  BY <1>3 DEF Console!PrintfAcquire, Console!PrintChar
<1>4. CASE Console!PrintfEnd(t) \/ Console!PanicEnd(t)
  BY <1>4 DEF Console!PrintfEnd, Console!PanicEnd
<1> QED
  BY <1>1, <1>2, <1>3, <1>4 DEF ConsoleStep, Console!Step

\* A character is printed by who holds pr.lock, or after pr.locking was cleared.
LEMMA LinesStep ==
  ASSUME ConsoleInv, NEW t \in Slots, ConsoleStep(t)
  PROVE  LinesInv' /\ Console!PanicNotBlocked'
<1> USE DEF ConsoleInv, Console!ConsoleTypeOK, LinesInv, Console!PanicNotBlocked,
        Console!Goto
<1>1. Nobody \notin Slots
  BY DEF Nobody, Slots
<1>2. CASE Console!PrintfStart(t) \/ Console!PanicPrint(t)
  BY <1>2 DEF Console!PrintfStart, Console!PanicPrint, Console!Begin
<1>3. CASE Console!Panic(t) \/ Console!PanicNullFmt(t)
  BY <1>3 DEF Console!Panic, Console!PanicNullFmt
<1>4. CASE Console!PrintfAcquire(t)
  BY <1>1, <1>4 DEF Console!PrintfAcquire
<1>5. CASE Console!PrintChar(t)
  BY <1>5 DEF Console!PrintChar
<1>6. CASE Console!PrintfEnd(t) \/ Console!PanicEnd(t)
  BY <1>6 DEF Console!PrintfEnd, Console!PanicEnd
<1> QED
  BY <1>2, <1>3, <1>4, <1>5, <1>6 DEF ConsoleStep, Console!Step

-----------------------------------------------------------------------------
\* syscall()

\* A step of a system call is a step of the clock's, or leaves it alone,
LEMMA ClockSteps ==
  ASSUME SyscallAssumption, SyscallNext PROVE Next \/ UNCHANGED clockVars
<1>1. CASE Interrupt
  BY <1>1 DEF Interrupt, Next
<1>2. ASSUME NEW p \in Slots, Enter(p) \/ ReturnQuietly(p) \/ Handler(p)
      PROVE  Next
  BY <1>2 DEF Enter, ReturnQuietly, Handler, Next, ProcStep
<1>3. ASSUME NEW p \in Slots, NEW m \in Masks, Trace(p, m) \/ StartTraced(p, m)
      PROVE  Next
  BY <1>3 DEF Trace, StartTraced, Next, ProcStep, SyscallAssumption
<1>4. ASSUME NEW p \in Slots, NEW q \in Slots, ForkTraced(p, q) PROVE Next
  BY <1>4 DEF ForkTraced, Next, ProcStep
<1>5. ASSUME NEW p \in Slots, Unknown(p) PROVE Next
  BY <1>5 DEF Unknown, Next, ProcStep, SyscallAssumption
<1>6. ASSUME NEW p \in Slots, PrintLine(p) \/ Printing(p) \/ PanicIn(p)
      PROVE  UNCHANGED clockVars
  BY <1>6 DEF PrintLine, Printing, PanicIn
<1> QED
  BY <1>1, <1>2, <1>3, <1>4, <1>5, <1>6 DEF SyscallNext, Syscall

\* and likewise of the console.
LEMMA ConsoleSteps ==
  ASSUME SyscallNext
  PROVE  (\E t \in Slots : ConsoleStep(t)) \/ UNCHANGED consoleVars
<1>1. ASSUME NEW p \in Slots, PrintLine(p) \/ Printing(p) \/ PanicIn(p)
      PROVE  ConsoleStep(p)
  BY <1>1 DEF PrintLine, Printing, PanicIn, ConsoleStep
<1> QED
  BY <1>1 DEF SyscallNext, Syscall, Interrupt, Enter, ReturnQuietly, Handler,
     Trace, StartTraced, ForkTraced, Unknown

\* System calls do to the clock what Clock says.
THEOREM ImplementsClock == SyscallSpec => ClockSpec
<1>1. SyscallInit => Init
  BY DEF SyscallInit
<1>2. [SyscallNext]_vars => [Next]_clockVars
  BY ClockSteps, SyscallAssumption DEF vars
<1> QED
  BY <1>1, <1>2, PTL DEF SyscallSpec, ClockSpec

\* sys_sleep() returns 0 only after the ticks it was asked for, with tracing too.
THEOREM SleepsEnough == SyscallSpec => SleptEnough
  BY ImplementsClock, ClockSleepsEnough

\* A tick leaves nobody asleep behind, with tracing too.
THEOREM TicksWakeAll == SyscallSpec => TickWakes
  BY ImplementsClock, ClockWakesAll

\* pr.lock, pr.locking and where each line has got to agree in every state.
THEOREM ConsoleInvariant == SyscallSpec => []ConsoleInv
<1>1. SyscallInit => ConsoleInv
  BY ConsoleInit, SyscallAssumption DEF SyscallInit
<1>2. ConsoleInv /\ [SyscallNext]_vars => ConsoleInv'
  <2>1. CASE SyscallNext
    BY <2>1, ConsoleSteps, ConsoleTypeStep, LinesStep, SyscallAssumption
       DEF ConsoleInv, consoleVars, Console!ConsoleTypeOK, LinesInv,
           Console!PanicNotBlocked
  <2>2. ConsoleInv /\ UNCHANGED vars => ConsoleInv'
    BY DEF vars, consoleVars, ConsoleInv, Console!ConsoleTypeOK, LinesInv,
           Console!PanicNotBlocked
  <2> QED
    BY <2>1, <2>2
<1> QED
  BY <1>1, <1>2, PTL DEF SyscallSpec

\* A thread that panics does not wait for pr.lock.
THEOREM PanicsAreHeard == SyscallSpec => []PanicNotBlocked
<1>1. ConsoleInv => PanicNotBlocked
  BY DEF ConsoleInv, PanicNotBlocked
<1> QED
  BY <1>1, ConsoleInvariant, PTL

\* Lines are not mixed until somebody panics, and those begun before never.
THEOREM LinesStayWhole == SyscallSpec => []LinesWhole
<1>1. ConsoleInv => LinesWhole
  BY DEF ConsoleInv, LinesInv, LinesWhole, Console!LinesWhole, Console!InLine
<1> QED
  BY <1>1, ConsoleInvariant, PTL

-----------------------------------------------------------------------------
\* Tracing

\* The mask of a process is what its last trace() asked for.  A line is being
\* printed, or has been, for a call that has one and has not returned yet.
TraceInv ==
  /\ mask = wanted
  /\ \A p \in Slots :
       /\ said[p] => pc[p] = "return" /\ HasLine(p) /\ Quiet(p)
       /\ ~ Quiet(p) /\ p \notin panicking => pc[p] = "return" /\ HasLine(p)

TraceTypeOK ==
  /\ mask \in [Slots -> SUBSET Calls]
  /\ said \in [Slots -> BOOLEAN]
  /\ wanted \in [Slots -> SUBSET Calls]

\* Every step keeps the types of the masks and of what is traced.
LEMMA TraceTypeStep ==
  ASSUME SyscallAssumption, TraceTypeOK, SyscallNext PROVE TraceTypeOK'
<1> USE DEF TraceTypeOK, traceVars
<1>1. CASE Interrupt
  BY <1>1 DEF Interrupt
<1>2. ASSUME NEW p \in Slots, Enter(p) \/ Handler(p) \/ Unknown(p) \/ PrintLine(p)
                               \/ PanicIn(p)
      PROVE  TraceTypeOK'
  BY <1>2 DEF Enter, Handler, Unknown, PrintLine, PanicIn
<1>3. ASSUME NEW p \in Slots, NEW m \in Masks, Trace(p, m) \/ StartTraced(p, m)
      PROVE  TraceTypeOK'
  BY <1>3 DEF Trace, StartTraced, SyscallAssumption
<1>4. ASSUME NEW p \in Slots, NEW q \in Slots, ForkTraced(p, q) PROVE TraceTypeOK'
  BY <1>4 DEF ForkTraced
<1>5. ASSUME NEW p \in Slots, Printing(p) PROVE TraceTypeOK'
  BY <1>5 DEF Printing, Quiet
<1>6. ASSUME NEW p \in Slots, ReturnQuietly(p) PROVE TraceTypeOK'
  BY <1>6 DEF ReturnQuietly
<1> QED
  BY <1>1, <1>2, <1>3, <1>4, <1>5, <1>6 DEF SyscallNext, Syscall

\* A mask is what its process, or who forked it, asked for last, and the line
\* of a call is printed between its handler and its return.
LEMMA TraceStep ==
  ASSUME ClockInv, ConsoleInv, TraceTypeOK, TraceInv, SyscallNext
  PROVE  TraceInv'
<1> USE DEF ClockInv, ClockTypeOK, ConsoleInv, Console!ConsoleTypeOK, TraceTypeOK,
        TraceInv, HasLine, Quiet, consoleVars, clockVars, traceVars, Goto,
        Console!Goto
<1>1. CASE Interrupt
  BY <1>1 DEF Interrupt, ClockStep, ClockTick, ClockWake, Wakes
<1>2. ASSUME NEW p \in Slots, Enter(p) PROVE TraceInv'
  BY <1>2 DEF Enter, Trap, Exit
<1>3. ASSUME NEW p \in Slots, Handler(p) PROVE TraceInv'
  <2>1. CASE SleepStep(p)
    BY <1>3, <2>1 DEF Handler, SleepStep, SleepStart, SleepKilled, Sleep,
       Reacquire, LoopTest, Returns
  <2>2. ASSUME NEW q \in Slots, Kill(p, q) PROVE TraceInv'
    BY <1>3, <2>2 DEF Handler, Kill
  <2>3. CASE Uptime(p) \/ Fails(p) \/ SysExit(p)
    BY <1>3, <2>3 DEF Handler, Uptime, Fails, Other, Returns, SysExit, Exit
  <2> QED
    BY <1>3, <2>1, <2>2, <2>3 DEF Handler
<1>4. ASSUME NEW p \in Slots, Unknown(p) PROVE TraceInv'
  BY <1>4 DEF Unknown, Other, Returns
<1>5. ASSUME NEW p \in Slots, PrintLine(p) PROVE TraceInv'
  BY <1>5 DEF PrintLine, Console!PrintfStart, Console!Begin
<1>6. ASSUME NEW p \in Slots, NEW m \in Masks, Trace(p, m) \/ StartTraced(p, m)
      PROVE  TraceInv'
  BY <1>6 DEF Trace, Other, Returns, StartTraced, Start
<1>7. ASSUME NEW p \in Slots, NEW q \in Slots, ForkTraced(p, q) PROVE TraceInv'
  BY <1>7 DEF ForkTraced, Fork
<1>8. ASSUME NEW p \in Slots, Printing(p) PROVE TraceInv'
  <2>1. Console!Step(p) /\ said' = [said EXCEPT ![p] = Quiet(p)']
          /\ UNCHANGED <<clockVars, mask, wanted>>
    BY <1>8 DEF Printing
  <2>2. CASE Console!PrintfAcquire(p) \/ Console!PrintChar(p)
    BY <2>1, <2>2 DEF Console!PrintfAcquire, Console!PrintChar
  <2>3. CASE Console!PrintfEnd(p)
    BY <2>1, <2>3 DEF Console!PrintfEnd
  <2>4. CASE Console!PanicPrint(p) \/ Console!PanicEnd(p)
    BY <2>1, <2>4 DEF Console!PanicPrint, Console!Begin, Console!PanicEnd, LinesInv
  <2> QED
    BY <2>1, <2>2, <2>3, <2>4 DEF Console!Step
<1>9. ASSUME NEW p \in Slots, ReturnQuietly(p) PROVE TraceInv'
  BY <1>9 DEF ReturnQuietly, Return, Exit
<1>10. ASSUME NEW p \in Slots, PanicIn(p) PROVE TraceInv'
  BY <1>10 DEF PanicIn, Console!Panic, Console!PanicNullFmt
<1> QED
  BY <1>1, <1>2, <1>3, <1>4, <1>5, <1>6, <1>7, <1>8, <1>9, <1>10
     DEF SyscallNext, Syscall

\* The clock, the console and tracing keep their invariants together.
THEOREM SyscallInvariant ==
  SyscallSpec => [](ClockInv /\ ConsoleInv /\ TraceTypeOK /\ TraceInv)
<1>1. SyscallInit => TraceTypeOK /\ TraceInv
  BY DEF SyscallInit, Console!Init, TraceTypeOK, TraceInv, Quiet, Calls
<1>2. ClockInv /\ ConsoleInv /\ TraceTypeOK /\ TraceInv /\ [SyscallNext]_vars
        => (TraceTypeOK /\ TraceInv)'
  <2>1. ClockInv /\ ConsoleInv /\ TraceTypeOK /\ TraceInv /\ SyscallNext
          => (TraceTypeOK /\ TraceInv)'
    BY TraceTypeStep, TraceStep, SyscallAssumption
  <2>2. TraceTypeOK /\ TraceInv /\ UNCHANGED vars => (TraceTypeOK /\ TraceInv)'
    BY DEF vars, clockVars, consoleVars, traceVars, TraceTypeOK, TraceInv,
           HasLine, Quiet
  <2> QED
    BY <2>1, <2>2
<1>3. SyscallSpec => []ClockInv
  BY ImplementsClock, ClockInvariant
<1> QED
  BY <1>1, <1>2, <1>3, ConsoleInvariant, PTL DEF SyscallSpec

\* Every variable keeps its type.
THEOREM SyscallTypes == SyscallSpec => []TypeOK
<1>1. ClockInv /\ ConsoleInv /\ TraceTypeOK => TypeOK
  BY DEF ClockInv, ConsoleInv, TraceTypeOK, TypeOK
<1> QED
  BY <1>1, SyscallInvariant, PTL

\* A call that returns has printed its line exactly when the process, or the
\* ancestor that it has its mask from, asked trace() for that call.
THEOREM TracesExactly == SyscallSpec => TracedExactly
<1>1. ClockInv /\ ConsoleInv /\ TraceTypeOK /\ TraceInv /\ [SyscallNext]_vars =>
        [\A p \in Slots :
           pc[p] = "return" /\ pc'[p] # "return"
             => (said[p] <=> call[p] \in wanted[p] \cup {"unknown"})]_vars
  <2> SUFFICES ASSUME ClockInv, TraceTypeOK, TraceInv, SyscallNext,
                      NEW p \in Slots, pc[p] = "return", pc'[p] # "return"
               PROVE  said[p] <=> call[p] \in wanted[p] \cup {"unknown"}
    OBVIOUS
  <2>1. ReturnQuietly(p)
    <3> USE DEF ClockInv, ClockTypeOK, Goto, clockVars
    <3>1. ~ Interrupt
      BY DEF Interrupt, ClockStep, ClockTick, ClockWake, Wakes
    <3>2. ASSUME NEW q \in Slots,
                 Enter(q) \/ Syscall(q) \/ Printing(q) \/ PanicIn(q)
          PROVE  FALSE
      <4>1. CASE Enter(q) \/ Printing(q) \/ PanicIn(q)
        BY <4>1 DEF Enter, Trap, Exit, Printing, PanicIn
      <4>2. CASE Handler(q)
        BY <4>2 DEF Handler, SleepStep, SleepStart, SleepKilled, Sleep, Reacquire,
           LoopTest, Returns, Kill, Uptime, Fails, Other, SysExit, Exit
      <4>3. CASE Unknown(q) \/ PrintLine(q)
        BY <4>3 DEF Unknown, Other, Returns, PrintLine
      <4>4. ASSUME NEW m \in Masks, Trace(q, m) \/ StartTraced(q, m) PROVE FALSE
        BY <4>4 DEF Trace, Other, Returns, StartTraced, Start
      <4>5. ASSUME NEW s \in Slots, ForkTraced(q, s) PROVE FALSE
        BY <4>5 DEF ForkTraced, Fork
      <4> QED
        BY <3>2, <4>1, <4>2, <4>3, <4>4, <4>5 DEF Syscall
    <3>3. PICK q \in Slots : ReturnQuietly(q)
      BY <3>1, <3>2 DEF SyscallNext
    <3>4. q = p
      BY <3>3 DEF ReturnQuietly, Return, Exit
    <3> QED
      BY <3>3, <3>4
  <2> QED
    BY <2>1 DEF ReturnQuietly, HasLine, TraceInv
<1> QED
  BY <1>1, SyscallInvariant, PTL DEF SyscallSpec, TracedExactly
=============================================================================
