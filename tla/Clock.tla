------------------------------- MODULE Clock -------------------------------
(***************************************************************************)
(* The clock: clockintr() counts ticks and wakes whoever sleeps for them,  *)
(* sys_sleep() sleeps until enough of them have passed or the process is   *)
(* killed, sys_uptime() reads the count.                                   *)
(*                                                                         *)
(* A step is a critical section.  tickslock is a variable because it is    *)
(* held from one step to the next: by clockintr() over wakeup(), and by    *)
(* sys_sleep() over killed(), up to the point where sleep() has p->lock.   *)
(* clockintr() runs on one CPU, at any time it can take tickslock; the     *)
(* process it interrupts is not asleep, so that wakeup()'s exception for   *)
(* it excludes nobody.  A process that has exited leaves its slot to a     *)
(* new one: what happens in between is the matter of ProcTable.            *)
(***************************************************************************)
EXTENDS Integers

CONSTANTS
  NPROC,      \* slots of the process table
  TickValues, \* values of a uint, 2^32 in the code
  Durations,  \* the arguments of sleep()
  OtherCalls  \* the system calls without a part in this

ASSUME ClockAssumption ==
  /\ NPROC \in Nat \ {0}
  /\ TickValues \in Nat \ {0}
  /\ Durations \subseteq Int
  /\ \A d \in Durations : d < TickValues

Slots   == 0 .. NPROC - 1
Clock   == -1             \* clockintr(), as a holder of tickslock
Nobody  == -2
NoSlot  == -1

VARIABLES
  ticks, tickslock,
  scan,      \* clockintr(): the slot wakeup() is at
  killed,    \* struct proc
  pc,        \* where a process is
  call, ret, \* the system call it is in, and what that returns: -1, or 0 for
             \* any result that is no error
  n, ticks0, \* sys_sleep()
  elapsed    \* history: the ticks since ticks0 was read, up to TickValues

sleepVars == <<n, ticks0, elapsed>>
clockVars == <<ticks, tickslock, scan, killed, pc, call, ret, sleepVars>>

Calls == {"none", "sleep", "uptime", "kill", "fork"} \cup OtherCalls

Init ==
  /\ ticks     = 0
  /\ tickslock = Nobody
  /\ scan      = NoSlot
  /\ killed    = [p \in Slots |-> FALSE]
  /\ pc        = [p \in Slots |-> IF p = 0 THEN "user" ELSE "unused"]
  /\ call      = [p \in Slots |-> "none"]
  /\ ret       = [p \in Slots |-> 0]
  /\ n         = [p \in Slots |-> 0]
  /\ ticks0    = [p \in Slots |-> 0]
  /\ elapsed   = [p \in Slots |-> 0]

Goto(p, l) == pc' = [pc EXCEPT ![p] = l]

\* p is in the loop of sys_sleep().
InSleep(p) == pc[p] \in {"check", "sleep", "asleep", "awake"}

\* The locals of sys_sleep().
Locals(p, d, t0, e) ==
  /\ n'       = [n EXCEPT ![p] = d]
  /\ ticks0'  = [ticks0 EXCEPT ![p] = t0]
  /\ elapsed' = [elapsed EXCEPT ![p] = e]

\* The handler returns v to syscall(): its locals are gone.
Returns(p, v) ==
  /\ Goto(p, "return")
  /\ ret' = [ret EXCEPT ![p] = v]
  /\ Locals(p, 0, 0, 0)

-----------------------------------------------------------------------------
\* The timer interrupt

\* clockintr(): one tick more, and wakeup() starts at the first slot.
ClockTick ==
  /\ tickslock = Nobody
  /\ tickslock' = Clock
  /\ ticks'   = (ticks + 1) % TickValues
  /\ elapsed' = [p \in Slots |-> IF InSleep(p) /\ elapsed[p] < TickValues
                                 THEN elapsed[p] + 1 ELSE elapsed[p]]
  /\ scan' = 0
  /\ UNCHANGED <<killed, pc, call, ret, n, ticks0>>

\* Mutant of Wakes: only those are woken whose time has come.
WakesDue(p) == pc[p] = "asleep" /\ (ticks - ticks0[p]) % TickValues >= n[p]

\* wakeup(&ticks) wakes p.
Wakes(p) == pc[p] = "asleep"

\* wakeup() is done with a slot, under its lock; after the last one
\* clockintr() gives up tickslock.
ClockWake ==
  /\ scan \in Slots
  /\ IF Wakes(scan) THEN Goto(scan, "awake") ELSE UNCHANGED pc
  /\ IF scan = NPROC - 1
     THEN scan' = NoSlot /\ tickslock' = Nobody
     ELSE scan' = scan + 1 /\ UNCHANGED tickslock
  /\ UNCHANGED <<ticks, killed, call, ret, sleepVars>>

-----------------------------------------------------------------------------
\* sys_sleep()

\* Mutant of Enough: the comparison without the subtraction.
EnoughAbsolute(t0, d) == ticks >= (t0 + d) % TickValues

\* ! (ticks - ticks0 < n), in uint.
Enough(t0, d) == (ticks - t0) % TickValues >= d

\* The loop's condition, just after tickslock has been acquired: either the
\* loop is left and the lock released at once, or it is kept for killed().
LoopTest(p, d, t0, e) ==
  IF Enough(t0, d)
  THEN Returns(p, 0) /\ UNCHANGED tickslock
  ELSE tickslock' = p /\ Goto(p, "check") /\ Locals(p, d, t0, e) /\ UNCHANGED ret

\* sys_sleep() takes the lock and reads ticks.
SleepStart(p, d) ==
  /\ pc[p] = "call"
  /\ tickslock = Nobody
  /\ call' = [call EXCEPT ![p] = "sleep"]
  /\ LoopTest(p, IF d < 0 THEN 0 ELSE d, ticks, 0)
  /\ UNCHANGED <<ticks, scan, killed>>

\* killed() takes p->lock and releases it: kill() may still come after.
SleepKilled(p) ==
  /\ pc[p] = "check"
  /\ IF killed[p]
     THEN Returns(p, -1) /\ tickslock' = Nobody
     ELSE Goto(p, "sleep") /\ UNCHANGED <<tickslock, ret, sleepVars>>
  /\ UNCHANGED <<ticks, scan, killed, call>>

\* sleep(): p->lock is acquired, tickslock released, and p is switched out.
Sleep(p) ==
  /\ pc[p] = "sleep"
  /\ Goto(p, "asleep")
  /\ tickslock' = Nobody
  /\ UNCHANGED <<ticks, scan, killed, call, ret, sleepVars>>

\* Mutant of Reacquire: ticks0 is read again on every turn of the loop.
ReacquireAnew(p) ==
  /\ pc[p] = "awake"
  /\ tickslock = Nobody
  /\ LoopTest(p, n[p], ticks, 0)
  /\ UNCHANGED <<ticks, scan, killed, call>>

\* The scheduler runs p again, sleep() reacquires tickslock.
Reacquire(p) ==
  /\ pc[p] = "awake"
  /\ tickslock = Nobody
  /\ LoopTest(p, n[p], ticks0[p], elapsed[p])
  /\ UNCHANGED <<ticks, scan, killed, call>>

-----------------------------------------------------------------------------
\* Other system calls

\* sys_uptime().
Uptime(p) ==
  /\ pc[p] = "call"
  /\ tickslock = Nobody
  /\ call' = [call EXCEPT ![p] = "uptime"]
  /\ Returns(p, 0)
  /\ UNCHANGED <<ticks, tickslock, scan, killed>>

\* kill(): the section in which it finds q, perhaps p itself.  kill(0) finds a
\* free slot, and the process that is forked there has been killed already.
Kill(p, q) ==
  /\ pc[p] = "call"
  /\ killed' = [killed EXCEPT ![q] = TRUE]
  /\ pc' = [pc EXCEPT ![p] = "return", ![q] = IF @ = "asleep" THEN "awake" ELSE
                                              IF p = q THEN "return" ELSE @]
  /\ call' = [call EXCEPT ![p] = "kill"]
  /\ ret' = [ret EXCEPT ![p] = 0]
  /\ UNCHANGED <<ticks, tickslock, scan, sleepVars>>

\* fork() makes q; allocproc() leaves its killed as it is.
Fork(p, q) ==
  /\ pc[p] = "call"
  /\ pc[q] = "unused"
  /\ pc'   = [pc EXCEPT ![p] = "return", ![q] = "user"]
  /\ call' = [call EXCEPT ![p] = "fork"]
  /\ ret'  = [ret EXCEPT ![p] = 0]
  /\ UNCHANGED <<ticks, tickslock, scan, killed, sleepVars>>

\* Another call, a fork() that fails, or a kill() that finds no process.
Other(p, c, v) ==
  /\ pc[p] = "call"
  /\ call' = [call EXCEPT ![p] = c]
  /\ Returns(p, v)
  /\ UNCHANGED <<ticks, tickslock, scan, killed>>

-----------------------------------------------------------------------------
\* usertrap()

\* The slot of p, which has exited, is free.
Exit(p) ==
  /\ Goto(p, "unused")
  /\ killed' = [killed EXCEPT ![p] = FALSE]

\* usertrap() lets p into a system call unless it has been killed.
Trap(p) ==
  /\ pc[p] = "user"
  /\ IF killed[p] THEN Exit(p) ELSE Goto(p, "call") /\ UNCHANGED killed
  /\ UNCHANGED <<ticks, tickslock, scan, call, ret, sleepVars>>

\* syscall() has returned, and p goes back unless it has been killed.
Return(p) ==
  /\ pc[p] = "return"
  /\ IF killed[p] THEN Exit(p) ELSE Goto(p, "user") /\ UNCHANGED killed
  /\ call' = [call EXCEPT ![p] = "none"]
  /\ ret'  = [ret EXCEPT ![p] = 0]
  /\ UNCHANGED <<ticks, tickslock, scan, sleepVars>>

\* exit() does not return to syscall().
SysExit(p) ==
  /\ pc[p] = "call"
  /\ Exit(p)
  /\ UNCHANGED <<ticks, tickslock, scan, call, ret, sleepVars>>

\* A process outside of this model forks p.
Start(p) ==
  /\ pc[p] = "unused"
  /\ Goto(p, "user")
  /\ UNCHANGED <<ticks, tickslock, scan, killed, call, ret, sleepVars>>

Fails(p) == \E c \in {"fork", "kill"} : Other(p, c, -1)

-----------------------------------------------------------------------------
ClockStep == ClockTick \/ ClockWake

SleepStep(p) ==
  \/ \E d \in Durations : SleepStart(p, d)
  \/ SleepKilled(p) \/ Sleep(p) \/ Reacquire(p)

ProcStep(p) ==
  \/ Trap(p) \/ Return(p) \/ Start(p) \/ SysExit(p)
  \/ SleepStep(p) \/ Uptime(p)
  \/ \E q \in Slots : Kill(p, q) \/ Fork(p, q)
  \/ \E c \in OtherCalls, v \in {-1, 0} : Other(p, c, v)
  \/ Fails(p)

Next == ClockStep \/ \E p \in Slots : ProcStep(p)

ClockSpec == Init /\ [][Next]_clockVars

-----------------------------------------------------------------------------
\* Properties

Labels == {"unused", "user", "call", "check", "sleep", "asleep", "awake", "return"}

\* Every variable keeps its type.
ClockTypeOK ==
  /\ ticks \in 0 .. TickValues - 1
  /\ tickslock \in Slots \cup {Clock, Nobody}
  /\ scan \in Slots \cup {NoSlot}
  /\ killed \in [Slots -> BOOLEAN]
  /\ pc \in [Slots -> Labels]
  /\ call \in [Slots -> Calls]
  /\ ret \in [Slots -> Int]
  /\ n \in [Slots -> Nat]
  /\ ticks0 \in [Slots -> 0 .. TickValues - 1]
  /\ elapsed \in [Slots -> 0 .. TickValues]

\* sleep(n) returns 0 only when n ticks have passed since it was called,
\* wherever in between the count of ticks has started again from 0.
SleptEnough ==
  [][\A p \in Slots :
       /\ InSleep(p) /\ pc'[p] = "return" /\ ret'[p] = 0 => elapsed[p] >= n[p]
       /\ \A d \in Durations :
            SleepStart(p, d) /\ pc'[p] = "return" => d <= 0]_clockVars

\* A tick wakes everybody who sleeps for one: no process tests ticks and
\* falls asleep behind the back of clockintr(), and none sleeps on that was
\* killed between killed() and sleep(), where kill() does not find it asleep.
TickWakes ==
  [][tickslock = Clock /\ tickslock' # Clock
       => \A p \in Slots : pc'[p] # "asleep"]_clockVars

\* The processor reaches a process that is awake before the count of ticks
\* has gone all round: within 2^32 ticks.
Prompt == \A p \in Slots : pc[p] = "awake" => elapsed[p] < TickValues
=============================================================================
