------------------------------ MODULE ProcTable ------------------------------
(***************************************************************************)
(* The process table of the kernel: fork, exit, wait, kill, sleep, wakeup, *)
(* yield and the per-CPU scheduler, with the locks they take.              *)
(*                                                                         *)
(* One step is one critical section: it begins by acquiring at most one    *)
(* spinlock and changes only what that lock (or a lock already held)       *)
(* protects.  p->lock is a variable because it stays held across swtch(),  *)
(* from the thread that acquires it to the thread that releases it;        *)
(* wait_lock is one because it is held across other critical sections.     *)
(* pid_lock and the allocator's lock never are, and do not appear.         *)
(***************************************************************************)
EXTENDS Integers

CONSTANTS
  NPROC,      \* slots of the process table
  Cpus,       \* the harts
  NoCpu,      \* holder of a free spinlock
  KillPids,   \* the pids user programs pass to kill()
  MaxPid,     \* bound on the model: no fork() starts once nextpid is past it
  TimerLabels \* bound on the model: where in the kernel timer interrupts come

\* Where interrupts are on and no lock is held: a timer interrupt there
\* makes kerneltrap() yield.
Interruptible == {"fork", "forkParent", "forkReady", "exit", "wait", "kill",
                  "trapret", "panic"}

ASSUME ProcAssumption ==
  /\ NPROC \in Nat \ {0}
  /\ NoCpu \notin Cpus
  /\ KillPids \subseteq Int
  /\ TimerLabels \subseteq Interruptible
  /\ MaxPid \in Nat

VARIABLES
  \* struct proc, by slot
  state, pid, parent, chan, killed, xstate,
  nextpid,
  \* spinlocks: the CPU that holds each (struct spinlock's cpu)
  plock, waitLock,
  \* struct cpu's proc, by CPU
  cpuProc,
  \* the kernel thread of each slot: where it is, where it goes on after
  \* swtch() returns to it, loop counters, and the argument of its call
  pc, ret, i, j, arg

tableVars  == <<state, pid, parent, chan, killed, xstate, nextpid>>
lockVars   == <<plock, waitLock>>
threadVars == <<pc, ret, i, j, arg>>
vars == <<tableVars, lockVars, cpuProc, threadVars>>

Slots    == 0 .. NPROC - 1
Null     == -1             \* the null struct proc pointer, and chan 0
initproc == 0
States   == {"UNUSED", "USED", "SLEEPING", "RUNNABLE", "RUNNING", "ZOMBIE"}
Statuses == {0, -1}        \* exit(0), and exit(-1) of a killed process

Labels == {"dead", "user", "yield", "trapret", "swtch", "resume", "panic",
           "fork", "forkParent", "forkReady",
           "exit", "reparent", "wakeInit", "wakeParent", "zombie",
           "wait", "scan", "waitKilled", "sleep", "kill"}

-----------------------------------------------------------------------------
\* procinit() and userinit(): slot 0 holds the first process, RUNNABLE, its
\* context set to forkret.
Init ==
  /\ state    = [p \in Slots |-> IF p = initproc THEN "RUNNABLE" ELSE "UNUSED"]
  /\ pid      = [p \in Slots |-> IF p = initproc THEN 1 ELSE 0]
  /\ parent   = [p \in Slots |-> Null]
  /\ chan     = [p \in Slots |-> Null]
  /\ killed   = [p \in Slots |-> FALSE]
  /\ xstate   = [p \in Slots |-> 0]
  /\ nextpid  = 2
  /\ plock    = [p \in Slots |-> NoCpu]
  /\ waitLock = NoCpu
  /\ cpuProc  = [c \in Cpus |-> Null]
  /\ pc       = [p \in Slots |-> IF p = initproc THEN "resume" ELSE "dead"]
  /\ ret      = [p \in Slots |-> "user"]
  /\ i        = [p \in Slots |-> 0]
  /\ j        = [p \in Slots |-> 0]
  /\ arg      = [p \in Slots |-> 0]

-----------------------------------------------------------------------------
\* Idiom

\* The thread of p executes on c and is at label l.
At(c, p, l) == cpuProc[c] = p /\ pc[p] = l

Goto(p, l) == pc' = [pc EXCEPT ![p] = l]

\* Slot q's lock can be taken.
Free(q) == plock[q] = NoCpu

\* The loop over the table in p's thread: on to the next slot, or to l when
\* this was the last one.
NextSlot(p, l) ==
  IF i[p] + 1 < NPROC
  THEN i' = [i EXCEPT ![p] = @ + 1] /\ UNCHANGED pc
  ELSE i' = [i EXCEPT ![p] = 0] /\ Goto(p, l)

\* The system call is over: the loop counter dies.
Return(p) == Goto(p, "trapret") /\ i' = [i EXCEPT ![p] = 0]

\* p acquires its own lock, gets state s and calls sched(); swtch() will
\* come back at l.
EnterSched(c, p, s, l) ==
  /\ Free(p)
  /\ plock' = [plock EXCEPT ![p] = c]
  /\ state' = [state EXCEPT ![p] = s]
  /\ ret'   = [ret EXCEPT ![p] = l]
  /\ Goto(p, "swtch")

-----------------------------------------------------------------------------
\* Context switches

\* scheduler(): c is in its loop and finds slot p RUNNABLE.
Dispatch(c, p) ==
  /\ cpuProc[c] = Null
  /\ Free(p)
  /\ state[p] = "RUNNABLE"
  /\ plock'   = [plock EXCEPT ![p] = c]
  /\ state'   = [state EXCEPT ![p] = "RUNNING"]
  /\ cpuProc' = [cpuProc EXCEPT ![c] = p]
  /\ UNCHANGED <<pid, parent, chan, killed, xstate, nextpid, waitLock,
                 threadVars>>

\* sched()'s swtch() lands in scheduler(), which clears c->proc and releases
\* the lock the thread acquired.  A zombie's thread never runs again.
SwitchOut(c, p) ==
  /\ At(c, p, "swtch")
  /\ cpuProc' = [cpuProc EXCEPT ![c] = Null]
  /\ plock'   = [plock EXCEPT ![p] = NoCpu]
  /\ Goto(p, IF state[p] = "ZOMBIE" THEN "dead" ELSE "resume")
  /\ UNCHANGED <<tableVars, waitLock, ret, i, j, arg>>

\* Mutant of Resume: sleep() acquires wait_lock again before it releases
\* p->lock.
ResumeLocked(c, p) ==
  /\ At(c, p, "resume")
  /\ plock' = [plock EXCEPT ![p] = IF ret[p] = "wait" THEN @ ELSE NoCpu]
  /\ chan'  = [chan EXCEPT ![p] = IF ret[p] = "wait" THEN Null ELSE @]
  /\ Goto(p, ret[p])
  /\ UNCHANGED <<state, pid, parent, killed, xstate, nextpid, waitLock,
                 cpuProc, ret, i, j, arg>>

\* swtch() has returned in p: forkret(), yield() and sleep() release p->lock;
\* sleep() clears p->chan first, and goes on to acquire wait_lock again.
Resume(c, p) ==
  /\ At(c, p, "resume")
  /\ plock' = [plock EXCEPT ![p] = NoCpu]
  /\ chan'  = [chan EXCEPT ![p] = IF ret[p] = "wait" THEN Null ELSE @]
  /\ Goto(p, ret[p])
  /\ UNCHANGED <<state, pid, parent, killed, xstate, nextpid, waitLock,
                 cpuProc, ret, i, j, arg>>

\* usertrap() gives up the CPU after a timer interrupt in user space.
Yield(c, p) ==
  /\ At(c, p, "yield")
  /\ EnterSched(c, p, "RUNNABLE", "user")
  /\ UNCHANGED <<pid, parent, chan, killed, xstate, nextpid, waitLock,
                 cpuProc, i, j, arg>>

\* kerneltrap() gives up the CPU after a timer interrupt in the kernel.
Preempt(c, p) ==
  /\ cpuProc[c] = p
  /\ pc[p] \in TimerLabels
  /\ state[p] = "RUNNING"
  /\ EnterSched(c, p, "RUNNABLE", pc[p])
  /\ UNCHANGED <<pid, parent, chan, killed, xstate, nextpid, waitLock,
                 cpuProc, i, j, arg>>

-----------------------------------------------------------------------------
\* usertrap()

\* A trap of a process that is not killed goes on at l, with a the argument
\* of the system call.
Trap(c, p, l, a) ==
  /\ At(c, p, "user")
  /\ Free(p)
  /\ ~killed[p]
  /\ Goto(p, l)
  /\ arg' = [arg EXCEPT ![p] = a]
  /\ UNCHANGED <<tableVars, lockVars, cpuProc, ret, i, j>>

SysFork(c, p) == nextpid <= MaxPid /\ Trap(c, p, "fork", 0)

\* The first process (user/init.c) never calls exit().
SysExit(c, p) == p # initproc /\ Trap(c, p, "exit", 0)

SysWait(c, p) == Trap(c, p, "wait", 0)

SysKill(c, p) == \E n \in KillPids : Trap(c, p, "kill", n)

\* Mutant of TimerInterrupt: usertrap() does not yield.
TimerIgnored(c, p) == Trap(c, p, "user", 0)

TimerInterrupt(c, p) == Trap(c, p, "yield", 0)

\* Mutant of ExitKilled: usertrap() checks only after a system call.
ExitKilledLate(c, p) ==
  /\ At(c, p, "trapret")
  /\ Free(p)
  /\ killed[p]
  /\ Goto(p, "exit")
  /\ arg' = [arg EXCEPT ![p] = -1]
  /\ UNCHANGED <<tableVars, lockVars, cpuProc, ret, i, j>>

\* killed(p) holds at one of the two checks: usertrap() calls exit(-1).
ExitKilled(c, p) ==
  /\ cpuProc[c] = p
  /\ pc[p] \in {"user", "trapret"}
  /\ Free(p)
  /\ killed[p]
  /\ Goto(p, "exit")
  /\ arg' = [arg EXCEPT ![p] = -1]
  /\ UNCHANGED <<tableVars, lockVars, cpuProc, ret, i, j>>

\* An unexpected exception in user space: setkilled(p), then exit(-1).
\* The first process does not fault.
Fault(c, p) ==
  /\ At(c, p, "user")
  /\ p # initproc
  /\ Free(p)
  /\ killed' = [killed EXCEPT ![p] = TRUE]
  /\ Goto(p, "exit")
  /\ arg' = [arg EXCEPT ![p] = -1]
  /\ UNCHANGED <<state, pid, parent, chan, xstate, nextpid, lockVars, cpuProc,
                 ret, i, j>>

\* The check after the system call passes: usertrapret().
TrapReturn(c, p) ==
  /\ At(c, p, "trapret")
  /\ Free(p)
  /\ ~killed[p]
  /\ Goto(p, "user")
  /\ arg' = [arg EXCEPT ![p] = 0]
  /\ UNCHANGED <<tableVars, lockVars, cpuProc, ret, i, j>>

-----------------------------------------------------------------------------
\* fork()

\* allocproc() passes over a slot in use; after the last one fork() fails.
ForkScan(c, p) ==
  /\ At(c, p, "fork")
  /\ Free(i[p])
  /\ state[i[p]] # "UNUSED"
  /\ NextSlot(p, "trapret")
  /\ UNCHANGED <<tableVars, lockVars, cpuProc, ret, j, arg>>

\* allocproc() finds slot i[p] and fork() copies p into it: until the lock
\* is released nobody sees the slot.  The child's context is forkret.
ForkAlloc(c, p) ==
  LET np == i[p] IN
  /\ At(c, p, "fork")
  /\ Free(np)
  /\ state[np] = "UNUSED"
  /\ state'   = [state EXCEPT ![np] = "USED"]
  /\ pid'     = [pid EXCEPT ![np] = nextpid]
  /\ nextpid' = nextpid + 1
  /\ pc'      = [pc EXCEPT ![p] = "forkParent", ![np] = "resume"]
  /\ ret'     = [ret EXCEPT ![np] = "user"]
  /\ UNCHANGED <<parent, chan, killed, xstate, lockVars, cpuProc, i, j, arg>>

\* What freeproc(q) leaves in slot q.
FreeProc(q) ==
  /\ state'  = [state EXCEPT ![q] = "UNUSED"]
  /\ pid'    = [pid EXCEPT ![q] = 0]
  /\ parent' = [parent EXCEPT ![q] = Null]
  /\ chan'   = [chan EXCEPT ![q] = Null]
  /\ killed' = [killed EXCEPT ![q] = FALSE]
  /\ xstate' = [xstate EXCEPT ![q] = 0]

\* kalloc() fails in allocproc() or uvmcopy(): the slot is freed again, its
\* pid is spent, and fork() returns -1.
ForkNoMemory(c, p) ==
  LET np == i[p] IN
  /\ At(c, p, "fork")
  /\ Free(np)
  /\ state[np] = "UNUSED"
  /\ FreeProc(np)
  /\ nextpid' = nextpid + 1
  /\ Return(p)
  /\ UNCHANGED <<lockVars, cpuProc, ret, j, arg>>

\* np->parent = p, under wait_lock.
ForkParent(c, p) ==
  /\ At(c, p, "forkParent")
  /\ waitLock = NoCpu
  /\ parent' = [parent EXCEPT ![i[p]] = p]
  /\ Goto(p, "forkReady")
  /\ UNCHANGED <<state, pid, chan, killed, xstate, nextpid, lockVars, cpuProc,
                 ret, i, j, arg>>

\* np->state = RUNNABLE, under np->lock; fork() returns the pid.
ForkReady(c, p) ==
  /\ At(c, p, "forkReady")
  /\ Free(i[p])
  /\ state' = [state EXCEPT ![i[p]] = "RUNNABLE"]
  /\ Return(p)
  /\ UNCHANGED <<pid, parent, chan, killed, xstate, nextpid, lockVars, cpuProc,
                 ret, j, arg>>

-----------------------------------------------------------------------------
\* wakeup()

\* One turn of wakeup(ch) in p's thread: slot j[p], unless it is p itself.
WakeOne(p, ch) ==
  LET q == j[p] IN
  IF q = p THEN UNCHANGED state
  ELSE /\ Free(q)
       /\ state' = IF state[q] = "SLEEPING" /\ chan[q] = ch
                   THEN [state EXCEPT ![q] = "RUNNABLE"]
                   ELSE state

LastSlot(p) == j[p] + 1 = NPROC

NextWake(p) == j' = [j EXCEPT ![p] = IF LastSlot(p) THEN 0 ELSE @ + 1]

-----------------------------------------------------------------------------
\* exit()

\* acquire(&wait_lock), once the files are closed.
ExitLock(c, p) ==
  /\ At(c, p, "exit")
  /\ p # initproc
  /\ waitLock = NoCpu
  /\ waitLock' = c
  /\ Goto(p, "reparent")
  /\ i' = [i EXCEPT ![p] = 0]
  /\ UNCHANGED <<tableVars, plock, cpuProc, ret, j, arg>>

\* panic("init exiting")
ExitPanic(c, p) ==
  /\ At(c, p, "exit")
  /\ p = initproc
  /\ Goto(p, "panic")
  /\ UNCHANGED <<tableVars, lockVars, cpuProc, ret, i, j, arg>>

\* Mutant of ReparentSkip: zombies are passed over too.
ReparentSkipZombies(c, p) ==
  /\ At(c, p, "reparent")
  /\ parent[i[p]] # p \/ state[i[p]] = "ZOMBIE"
  /\ NextSlot(p, "wakeParent")
  /\ UNCHANGED <<tableVars, lockVars, cpuProc, ret, j, arg>>

\* reparent(p) passes over a slot that is not p's child.
ReparentSkip(c, p) ==
  /\ At(c, p, "reparent")
  /\ parent[i[p]] # p
  /\ NextSlot(p, "wakeParent")
  /\ UNCHANGED <<tableVars, lockVars, cpuProc, ret, j, arg>>

\* Mutant of ReparentChild: the first process is not woken.
ReparentNoWakeup(c, p) ==
  /\ At(c, p, "reparent")
  /\ parent[i[p]] = p
  /\ parent' = [parent EXCEPT ![i[p]] = initproc]
  /\ NextSlot(p, "wakeParent")
  /\ UNCHANGED <<state, pid, chan, killed, xstate, nextpid, lockVars, cpuProc,
                 ret, j, arg>>

\* reparent(p) gives a child to the first process, and goes to wake it.
ReparentChild(c, p) ==
  /\ At(c, p, "reparent")
  /\ parent[i[p]] = p
  /\ parent' = [parent EXCEPT ![i[p]] = initproc]
  /\ Goto(p, "wakeInit")
  /\ UNCHANGED <<state, pid, chan, killed, xstate, nextpid, lockVars, cpuProc,
                 ret, i, j, arg>>

\* wakeup(initproc) in reparent()
WakeInit(c, p) ==
  /\ At(c, p, "wakeInit")
  /\ WakeOne(p, initproc)
  /\ NextWake(p)
  /\ IF LastSlot(p)
     THEN IF i[p] + 1 < NPROC
          THEN i' = [i EXCEPT ![p] = @ + 1] /\ Goto(p, "reparent")
          ELSE i' = [i EXCEPT ![p] = 0] /\ Goto(p, "wakeParent")
     ELSE UNCHANGED <<i, pc>>
  /\ UNCHANGED <<pid, parent, chan, killed, xstate, nextpid, lockVars, cpuProc,
                 ret, arg>>

\* Mutant of WakeParent: wakes the processes that wait for p.
WakeSelf(c, p) ==
  /\ At(c, p, "wakeParent")
  /\ WakeOne(p, p)
  /\ NextWake(p)
  /\ Goto(p, IF LastSlot(p) THEN "zombie" ELSE "wakeParent")
  /\ UNCHANGED <<pid, parent, chan, killed, xstate, nextpid, lockVars, cpuProc,
                 ret, i, arg>>

\* wakeup(p->parent)
WakeParent(c, p) ==
  /\ At(c, p, "wakeParent")
  /\ WakeOne(p, parent[p])
  /\ NextWake(p)
  /\ Goto(p, IF LastSlot(p) THEN "zombie" ELSE "wakeParent")
  /\ UNCHANGED <<pid, parent, chan, killed, xstate, nextpid, lockVars, cpuProc,
                 ret, i, arg>>

\* Mutant of ExitZombie: wait_lock is not released.
ZombieKeepsLock(c, p) ==
  /\ At(c, p, "zombie")
  /\ EnterSched(c, p, "ZOMBIE", "user")
  /\ xstate'   = [xstate EXCEPT ![p] = arg[p]]
  /\ arg'      = [arg EXCEPT ![p] = 0]
  /\ UNCHANGED <<pid, parent, chan, killed, nextpid, waitLock, cpuProc, i, j>>

\* Mutant of ExitZombie: the exit status is not stored.
ZombieNoStatus(c, p) ==
  /\ At(c, p, "zombie")
  /\ EnterSched(c, p, "ZOMBIE", "user")
  /\ arg'      = [arg EXCEPT ![p] = 0]
  /\ waitLock' = NoCpu
  /\ UNCHANGED <<pid, parent, chan, killed, xstate, nextpid, cpuProc, i, j>>

\* p becomes a zombie under p->lock, then releases wait_lock; p->lock stays
\* held until the scheduler has left p's stack.
ExitZombie(c, p) ==
  /\ At(c, p, "zombie")
  /\ EnterSched(c, p, "ZOMBIE", "user")
  /\ xstate'   = [xstate EXCEPT ![p] = arg[p]]
  /\ arg'      = [arg EXCEPT ![p] = 0]
  /\ waitLock' = NoCpu
  /\ UNCHANGED <<pid, parent, chan, killed, nextpid, cpuProc, i, j>>

-----------------------------------------------------------------------------
\* wait()

\* Mutant of WaitLock: wait_lock is not taken.
WaitUnlocked(c, p) ==
  /\ At(c, p, "wait")
  /\ Goto(p, "scan")
  /\ UNCHANGED <<tableVars, lockVars, cpuProc, ret, i, j, arg>>

\* acquire(&wait_lock), on entry and again when sleep() returns.
WaitLock(c, p) ==
  /\ At(c, p, "wait")
  /\ waitLock = NoCpu
  /\ waitLock' = c
  /\ Goto(p, "scan")
  /\ UNCHANGED <<tableVars, plock, cpuProc, ret, i, j, arg>>

\* Mutant of AtZombie: the child's lock is not taken.
AtZombieUnlocked(c, p) ==
  /\ At(c, p, "scan")
  /\ parent[i[p]] = p
  /\ state[i[p]] = "ZOMBIE"

\* The scan is at a child that is a zombie and has left its stack.
AtZombie(c, p) ==
  /\ At(c, p, "scan")
  /\ parent[i[p]] = p
  /\ Free(i[p])
  /\ state[i[p]] = "ZOMBIE"

\* The exit status is copied out and the slot is freed.
Reap(c, p) ==
  /\ AtZombie(c, p)
  /\ FreeProc(i[p])
  /\ waitLock' = NoCpu
  /\ Return(p)
  /\ UNCHANGED <<nextpid, plock, cpuProc, ret, j, arg>>

\* copyout() fails on a bad address: wait() returns -1 and the zombie stays.
CopyoutFails(c, p) ==
  /\ AtZombie(c, p)
  /\ waitLock' = NoCpu
  /\ Return(p)
  /\ UNCHANGED <<tableVars, plock, cpuProc, ret, j, arg>>

\* The scan passes over a slot that is not a child, or not a zombie.
WaitScan(c, p) ==
  /\ At(c, p, "scan")
  /\ parent[i[p]] = p => Free(i[p]) /\ state[i[p]] # "ZOMBIE"
  /\ NextSlot(p, "waitKilled")
  /\ UNCHANGED <<tableVars, lockVars, cpuProc, ret, j, arg>>

\* havekids, after a scan: wait_lock is held, so no parent changed meanwhile.
HaveKids(p) == \E q \in Slots : parent[q] = p

\* !havekids || killed(p): wait() returns -1.
WaitGiveUp(c, p) ==
  /\ At(c, p, "waitKilled")
  /\ HaveKids(p) => Free(p) /\ killed[p]
  /\ waitLock' = NoCpu
  /\ Return(p)
  /\ UNCHANGED <<tableVars, plock, cpuProc, ret, j, arg>>

\* Mutant of WaitGoOn: the scan starts again at once, without sleep().
ScanAgain(c, p) ==
  /\ At(c, p, "waitKilled")
  /\ HaveKids(p)
  /\ Free(p)
  /\ ~killed[p]
  /\ Goto(p, "scan")
  /\ UNCHANGED <<tableVars, lockVars, cpuProc, ret, i, j, arg>>

\* There are children, and none is a zombie.
WaitGoOn(c, p) ==
  /\ At(c, p, "waitKilled")
  /\ HaveKids(p)
  /\ Free(p)
  /\ ~killed[p]
  /\ Goto(p, "sleep")
  /\ UNCHANGED <<tableVars, lockVars, cpuProc, ret, i, j, arg>>

\* sleep(p, &wait_lock): p->lock is acquired before wait_lock is released.
Sleep(c, p) ==
  /\ At(c, p, "sleep")
  /\ EnterSched(c, p, "SLEEPING", "wait")
  /\ chan'     = [chan EXCEPT ![p] = p]
  /\ waitLock' = NoCpu
  /\ UNCHANGED <<pid, parent, killed, xstate, nextpid, cpuProc, i, j, arg>>

-----------------------------------------------------------------------------
\* kill()

\* Slot i[p] has the pid: it is marked, and woken if it sleeps.
KillFound(c, p) ==
  LET q == i[p] IN
  /\ At(c, p, "kill")
  /\ Free(q)
  /\ pid[q] = arg[p]
  /\ killed' = [killed EXCEPT ![q] = TRUE]
  /\ state'  = [state EXCEPT ![q] = IF @ = "SLEEPING" THEN "RUNNABLE" ELSE @]
  /\ Return(p)
  /\ UNCHANGED <<pid, parent, chan, xstate, nextpid, lockVars, cpuProc,
                 ret, j, arg>>

\* On to the next slot; after the last one kill() returns -1.
KillScan(c, p) ==
  /\ At(c, p, "kill")
  /\ Free(i[p])
  /\ pid[i[p]] # arg[p]
  /\ NextSlot(p, "trapret")
  /\ UNCHANGED <<tableVars, lockVars, cpuProc, ret, j, arg>>

-----------------------------------------------------------------------------
\* Every step of the thread of p on c, and of c's scheduler.
ForkStep(c, p) == \/ ForkScan(c, p) \/ ForkAlloc(c, p) \/ ForkNoMemory(c, p)
                  \/ ForkParent(c, p) \/ ForkReady(c, p)
ExitStep(c, p) == \/ ExitLock(c, p) \/ ExitPanic(c, p) \/ ReparentSkip(c, p)
                  \/ ReparentChild(c, p) \/ WakeInit(c, p) \/ WakeParent(c, p)
                  \/ ExitZombie(c, p)
WaitStep(c, p) == \/ WaitLock(c, p) \/ Reap(c, p) \/ CopyoutFails(c, p)
                  \/ WaitScan(c, p) \/ WaitGiveUp(c, p) \/ WaitGoOn(c, p)
                  \/ Sleep(c, p)
KillStep(c, p) == KillFound(c, p) \/ KillScan(c, p)
UserStep(c, p) == \/ SysFork(c, p) \/ SysExit(c, p) \/ SysWait(c, p)
                  \/ SysKill(c, p) \/ TimerInterrupt(c, p) \/ Fault(c, p)
TrapStep(c, p) == ExitKilled(c, p) \/ TrapReturn(c, p)
SwitchStep(c, p) == \/ Dispatch(c, p) \/ SwitchOut(c, p) \/ Resume(c, p)
                    \/ Yield(c, p) \/ Preempt(c, p)

Next == \E c \in Cpus, p \in Slots :
          \/ SwitchStep(c, p) \/ UserStep(c, p) \/ TrapStep(c, p)
          \/ ForkStep(c, p) \/ ExitStep(c, p) \/ WaitStep(c, p)
          \/ KillStep(c, p)

Spec == Init /\ [][Next]_vars

\* What the kernel owes a thread, per slot.  Each CPU's scheduler() goes
\* through the table in order again and again.  A thread in the kernel that
\* is preempted, or spins on a lock others hold, again and again gets on.  The
\* timer interrupts a program sooner or later, whether it computes or makes
\* system calls for ever; calls, faults and interrupts in the kernel are not
\* owed.
CallStep(c, p) == \/ TrapStep(c, p) \/ ForkStep(c, p) \/ ExitStep(c, p)
                  \/ WaitStep(c, p) \/ KillStep(c, p)

Fairness ==
  \A p \in Slots :
    /\ SF_vars(\E c \in Cpus : Dispatch(c, p))
    /\ WF_vars(\E c \in Cpus : SwitchOut(c, p) \/ Resume(c, p) \/ Yield(c, p))
    /\ SF_vars(\E c \in Cpus : CallStep(c, p))
    /\ SF_vars(\E c \in Cpus : TimerInterrupt(c, p))

FairSpec == Spec /\ Fairness
=============================================================================
