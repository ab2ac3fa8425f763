# A TLA+ model of the xv6 lab solutions

The repository holds solutions to the xv6-riscv labs: the files of the kernel
and of user space that a lab changed, one directory per lab. The kernel files
are complete (`proc.c`, `trap.c`, `vm.c`, `kalloc.c`, ...), so the parts of xv6
that the labs build on can be modelled with them. Spinlocks, the file system,
the context switch in assembly and the rest of user space are not in the
repository; they are modelled only as far as the files here use them.

## The system

| component | source | state | operations |
| --- | --- | --- | --- |
| process table, scheduler | `lab */kernel/proc.c`, `lab traps/kernel/trap.c` | `proc[NPROC]`, `nextpid`, `wait_lock`, `p->lock`, each CPU's `proc` | fork, exit, wait, kill, sleep, wakeup, yield, sched, scheduler, allocproc, freeproc |
| alarms | `lab traps/kernel/trap.c`, `sysproc.c` | `ticks`, `ainterv`, `handler`, `hfl`, `trapframe`, `trapframesv` of a process | sigalarm, sigreturn, the timer interrupt in usertrap |
| clock | `lab traps/kernel/trap.c`, `sysproc.c` | `ticks`, `tickslock` | clockintr, sys_sleep, sys_uptime |
| backtrace, printf | `lab traps/kernel/printf.c` | `pr`, `panicked`, the cached page bound of backtrace | printf, panic, backtrace |
| page allocator, sysinfo | `lab system calls/kernel/kalloc.c`, `proc.c` | `kmem.freelist`, the pages | kalloc, kfree, getbytes, getnprcs, sysinf |
| system calls, tracing | `lab system calls/kernel/syscall.c`, `proc.c` | `mask` of a process | trace, syscall, inheritance in fork |
| page tables | `lab page tables/kernel/vm.c`, `proc.c` | the page tables, the pages they own, `usysro` | walk, mappages, uvmunmap, uvmalloc, uvmdealloc, uvmcopy, copyin, copyout, proc_pagetable, pgaccss |
| user programs | `lab utilities/*.c` | pipes, descriptors, buffers | pingpong, primes, find, xargs, sleep |

The components meet in the process table: a system call or a timer interrupt
enters through `usertrap()`, a process blocks in `sleep()` and is made runnable
by `wakeup()` or `kill()`, and `fork()`/`wait()` allocate and free the pages
that `vm.c` and `kalloc.c` manage. The three copies of `proc.c` are the same
program but for the fields a lab adds (`trapframesv` and the alarm, `usysro`,
`mask`), so the process table is modelled once, with the traps lab's `proc.c` as
its text.

## What is hard here

Nothing in these files is long, and nearly all of it is about order:

* `wait()`, `exit()` and `kill()` meet each other through `sleep()` and
  `wakeup()`, with two kinds of locks, one of which crosses `swtch()`;
* a process stays on its kernel stack after it is a zombie, while its parent may
  already look for it;
* every `kalloc()` of `fork()` and `sbrk()` may fail, and each failure has its
  own clean-up;
* the timer interrupts a program anywhere, also in its alarm handler;
* `sysinf()` reads two shared structures without any lock;
* `sys_sleep()` sleeps under one lock for what `clockintr()` counts, in a `uint`
  that wraps, while `kill()` comes at any time;
* `panic()` has to be heard although anybody may hold `pr.lock`;
* page tables are in the pages the allocator hands out, and copies between user
  and kernel memory may stop half way;
* a pipe ends only when the last copy of its write end is closed, in whichever
  process that is, and a process has fewer descriptors than `primes` asks for.

`PROJECT.json` lists these places one by one under `hazards`, with the
properties that cover each. `components` lists every part of the system.

## Modules

| module | what it is |
| --- | --- |
| `ProcTable` | the process table: state, one action per critical section, fairness |
| `ProcTree` | abstract: what fork, exit and wait promise, without slots, locks or CPUs |
| `ProcProps` | the properties of `ProcTable`, and the refinement mapping to `ProcTree` |
| `ProcInv` | the inductive invariant `IInv` |
| `ProcProofs` | the proofs about `ProcTable`: locks, wakeups, the tree |
| `AlarmProofs` | the invariant of `Alarm` and the proofs about it |
| `UserPagesProofs` | the proofs about `UserPages`: page tables, and who owns which page |
| `SysinfoProofs` | the proofs about `Sysinfo` |
| `SyscallProofs` | the proofs about `Clock`, `Console` and `Syscalls` |
| `PrimesProofs` | the sieve, proved alone |
| `ProgramsProofs` | `find`, and what follows of the sieve for `Programs` |
| `VmProofs` | the proofs about `Vm`: what page tables map stays apart |
| `UserPages` | which page belongs to what: kalloc, fork, sbrk, exit, wait |
| `Alarm` | sigalarm, sigreturn and the timer interrupt |
| `Sysinfo` | the free list as links in the pages, and `sysinf()` walking it |
| `FlatMem` | abstract: what user memory is to a program and to the kernel's copies |
| `Vm` | page tables, the bytes behind them, copies, `pgaccss()`, `vmprint()` |
| `Clock` | ticks, `clockintr()`, `sys_sleep()`, `kill()`, the traps around a call |
| `Console` | `printf()` and `panic()` with their lock |
| `Syscalls` | `syscall()` and tracing: composes `Clock` and `Console` |
| `Pipes` | the kernel's pipes as programs see them |
| `Primes`, `Pingpong` | the processes of the two programs, on `Pipes` |
| `Find` | the calls of `find()` and the directories others change |
| `Programs` | one of these three programs runs |
| `MC*` | values of the constants for TLC |

### ProcTable

The variables are the fields of `struct proc` by slot, `nextpid`, the locks
(`plock`, `waitLock`: the CPU that holds each), each CPU's `proc`, and for each
kernel thread where it is (`pc`, `ret`) with the locals it still needs (`i`,
`j`, `arg`). Slots are numbers because the order of the table matters: it is
scanned from the front, and `nextpid`, `initproc` and the loop counters depend
on it.

A step is a critical section: it starts with at most one `acquire()`, and
touches only what that lock protects. A lock is a variable only if it is held
from one step to the next: `p->lock` across `swtch()`, `wait_lock` across the
loops of `exit()` and `wait()`. Two locks held at once are always visible in
between. An error return is an action of its own (`ForkNoMemory`,
`CopyoutFails`, `WaitGiveUp`, `ExitPanic`). `Fault` is any trap that kills the
process. Timer interrupts reach a thread in user mode at any time and in the
kernel where no lock is held (`Interruptible`).

A thread returns to its loop's first slot with counters at 0, and a dead thread
has its locals at fixed values: those are not read again, so this only removes
copies of the same state.

### UserPages

A step takes at most one page, so memory can be exhausted between any two
`kalloc()` calls of any process. The pages one call gives back are given back in
one step, and the free list is a bag; `kalloc()` hands out the lowest page.
Neither choice is visible in who owns a page. `extra` is the page a lab adds to
each process, `trapframesv` or `usysro`; `build` says which lab it is, and with
it what `freeproc()` does to the pointer. `build` never changes: it is a
variable so that one run covers several kernels.

A page table is its root, the directory pages on its two paths (the bottom of
memory and the top, where trampoline and trapframe are), and the pages mapped.
Programs here are far smaller than the 2 MB one path covers.

### Alarm

Registers are one record per process, whether they are in the CPU or in the trap
frame, with `epc` and `a0`. `interrupted` is a history variable: it keeps what
each handler call that has not returned interrupted, independently of
`trapframesv`, and `asked` is another: what the process in a slot has itself passed
to `sigalarm()` last, independently of `ainterv`, which must not hold what the
slot's last process or the parent has asked for. Programs may do what they like
(call `sigreturn()` outside of a handler, `sigalarm()` or `fork()` inside of
one), except that they reach the handler through the kernel only.

### Sysinfo

Each load and store of the free list is a step, between which another thread may
run. Of a page there is the word that holds `next`. `undisturbed` is a history
variable: whether what a thread counts has stayed the same since it began.

### Vm and FlatMem

`UserPages` and `Vm` look at the same functions from two sides. In `UserPages`
several processes compete for pages one at a time, sizes are in bytes, and a
page has no contents. In `Vm` a call is one step (a process's tables are its
own, and it makes one call at a time), sizes are in pages, and every page has
its bytes or its entries: `walk()` goes through three levels of them, `kalloc()`
and `kfree()` leave junk that reads as a valid entry, `uvmunmap()` clears
entries and `freewalk()` frees what is left. A function of `vm.c` is an operator
from memory to memory, so that an error return is a value (`ok`) with the memory
as it is then: tables that `walk()` allocated stay when a later page fails.

`space` and `touched` are history variables, what `Vm` amounts to for the user,
computed by walking the tables after every step; `FlatMem` says how these may
change. `FlatMem` knows no page tables, allocation or levels: only that calls
may fail. So `FlatSpec` says of every sequence of calls that what is read is
what was written, that nothing else changes, and who may do what.

When `fork()` fails, `Vm` leaves memory as it was: that `uvmcopy()` and
`freeproc()` undo what was done so far is not computed here. It is in
`UserPages`, where `CopyFails` gives each page back.

The messages of `vmprint()` are read back as somebody would who knows how Sv39
numbers pages (`ReadBack`). The page with the mask of `pgaccss()` is one "byte"
of the model. `pgaccss()` is not asked about the trampoline and the trap frame,
whose accessed bits the kernel's own accesses set.

### Clock, Console and Syscalls

A process goes from `user` through `usertrap()` (`call`) to the handler, back to
`syscall()` (`return`) and through the second test of `killed`. In `sys_sleep()`
it is at `check` and `sleep` with `tickslock`, `asleep`, and `awake` until it
has the lock again. `tickslock` is held by `clockintr()` from the tick to the
end of `wakeup()`, one slot a step. `ticks` is counted modulo `TickValues`;
`elapsed` is a history variable that counts the same ticks without wrapping (up
to `TickValues`), so that the arithmetic of `sys_sleep()` is compared with time.

`Console` prints character by character, under `pr.lock` when `pr.locking` was
set as the line began. `panic()` clears `pr.locking`, prints, and sets
`panicked`, after which `consputc()`, which is not in the repository, lets
nobody go on ("freeze uart output", `printf.c`). `Panickers` bounds which slots
may panic.

`Syscalls` adds the trace mask to the handlers of `Clock` and prints a line
through `Console` between the handler and the return. The traps lab has
`sys_sleep()`, `usertrap()` and `printf.c`, the system calls lab `syscall()`
with tracing: their other parts are alike. `wanted` is a history variable: what
was asked of `trace()`, passed on by `fork()`, independently of the slots.

### Pipes, Primes and Pingpong

`rd` and `wr` are the pipe ends each process has open. Reads, writes, closes and
the printing of one process are steps; `fork()` may fail everywhere. The
kernel's pipes are not in the repository: they are modelled as xv6 programs may
rely on them, and marked external in the map.

`primes` asks for 36 pipes, which are 72 descriptors. xv6 gives a process 16
open files (`NOFILE` in `param.h`, not in the repository), three are taken, so
that `pipe()` succeeds six times, and nobody looks at its result. The
descriptors of the other pipes are what the stack holds, zeros: standard input,
which each filter closes before it reads. A read of such a pipe fails and ends
the filter. A filter whose first read fails may print its buffer all the same,
into which nothing was read: `garbage` is a history variable that keeps which
filters have. `Makeable` says how many pipes are made. Six are exactly enough for
35: five odd primes below 17 filter, and the filter of 17 prints all it passes
on (`Enough`).

### Find

A call of `find()` is a frame with the directory it has open and the entry it
reads next. A directory is a table with holes, as in xv6, and other processes
create and remove entries at any time, in the first hole or at the end of the
table; `disturbed` is a history variable that keeps which. There is no system
call `stat()` (`syscall.c` of the system calls lab has `fstat()` only), so it
opens the name first: `Stat` fails when no descriptor is left, and in a directory
that takes the last one `find` prints nothing. Names are sequences of characters, because `getname()` counts the
characters that are not blank and takes that many from the front: a name with a
blank inside is cut, so such a directory is not found again when `find()` is
called for it. What a program's `malloc()` returns is taken to be followed by
zeros: the allocator is not in the repository.

## What is checked

| run | module | what it shows |
| --- | --- | --- |
| `ProcSafety` | `ProcTable` | two CPUs: no wakeup is lost, `sched()` does not panic, no stack in use is freed, parents are alive, locks are taken in order, `IInv` is an invariant, and every step is a step of `ProcTree` or none |
| `ProcLive` | `ProcTable` | runnable processes run, `exit()` ends, `wait()` returns, a killed process exits |
| `MissedKill` | `ProcTable` | violated: a process can be killed and asleep |
| `BornKilled` | `ProcTable` | violated: after `kill(0)` a new process is killed from birth |
| `UserPages` | `UserPages` | no page is lost or has two owners, no panic, memory is what `sz` says, own trapframe |
| `FreedTwice` | `UserPages` | violated: the shared page is freed a second time |
| `Alarm` | `Alarm` | no re-entry, registers restored, no handler unasked, alarms ring |
| `Sysinfo` | `Sysinfo` | the free list is a list of exactly the free pages, a page has one user, quiet counts are exact |
| `DanglingRef` | `Sysinfo` | violated: a link is followed out of a page that was allocated meanwhile |
| `Programs` | `Primes`, `Pingpong`, `Find` | what comes through the pipes is printed only if prime, each prime if processes and pipes were enough, an unread buffer (`GarbageLast`) only after them or if a `fork()` or `pipe()` failed; `find` prints each file of that name once where `stat()` has a descriptor; all processes end, pong after ping |
| `Syscalls` | `Clock`, `Console`, `Syscalls` | a sleep is long enough and ends, a tick wakes every sleeper, exactly the traced calls are printed, lines are whole, a panic waits for no lock |
| `Vm` | `Vm` | page tables implement `FlatMem`, no page has two uses (`PagesApart`), a process's memory changes by its own calls only (`OwnCallsOnly`), free pages are not written |

Every property of a passing run has a mutant: an operator next to the original,
marked `Mutant of`, that makes a mistake the code might have made. With it TLC
finds the property violated.

### Bounds, and why they are enough

* `ProcTable`: three slots are the first process, a parent and its child, or a
  child being reaped, a parent and the first process it is handed to; a fourth
  only adds bystanders. `MaxPid` stops `fork()` once pids reach 3, so slots are
  reused with `wait()` and `fork()` in all orders but not without end. Two CPUs
  run any two critical sections at once; a third has a third process to run only
  when the other two are all there is. `KillPids` names the processes whose
  death is interesting: the first child, and in `ProcSafety` the first process
  too, and 0, which is the pid of every free slot. `TimerLabels` keeps the
  number of states down: `ProcSafety` preempts threads in `fork`, between its two
  lock sections, in `wait` and in the panic, `ProcLive` where `wait()` and
  `exit()` begin; the other points of `Interruptible` are of the same shape, and
  the proofs are for any set of them.
* `UserPages`: `Inner` = 1 instead of 2 directory levels, `PGSIZE` = 2 bytes (so
  sizes end inside of pages), `MaxSz` = 5 bytes, and the number of pages runs
  from what the first process needs alone to what two need: that makes each
  `kalloc()` in turn the first that fails. Three slots with 13 pages are two
  processes that compete for the last page.
* `Alarm`: two slots, for `fork()` between them; two-bit ints, so that `ticks`
  overflows after four ticks; the intervals 0, which is none, and 2.
* `Sysinfo`: two threads, three pages, three slots. `getbytes()` may be led back
  to the head of the list again and again; its count stops at twice the pages.
* `Programs`: `END` = `MAX` = 12 instead of 35, which keeps all the cases of the
  arithmetic: a composite number to be sieved, filters without a number, a
  filter whose prime is at least `MAX / 2`, and numbers it passes on; a pipe
  holds more numbers than there are, as in the code. Of 13 pipes all are made,
  or 3, which is exactly `Enough`. `find` has four descriptors for a tree of
  five levels: the fourth level takes the last descriptor, so that its file is
  not found, and the fifth cannot be opened; a descriptor too few or too many
  shows.
* `Syscalls`: two processes, one of which may panic while the other prints;
  sleeps of 2 and -1 ticks and a `uint` of four values, so that ticks wrap in
  the middle of a sleep and the comparison without the subtraction is wrong;
  lines of two characters, which is what interleaving takes. The calls in
  `Masks` are `sleep` and `trace`: a call that blocks, and the one that changes
  the mask.
* `Vm`: a page has three bytes and a table three entries, so that the fourth
  page of a process needs a new table, as page 512 does; an int has three bits
  and a mask four, so that two pages are within `pgaccss()`'s shifts and the
  third is at the sign. 20 pages of memory are enough for two processes of three
  pages, and not for more: `fork()` and `sbrk()` fail after some of their pages,
  for want of a page and for want of a table. `MaxChanges` = 4 is the length of
  a history of calls that change something (reads are free): fork, store in one
  of the two, grow and read; `Addrs` has an address on the first page, one at
  the end of the third, one on the shared page and one past `MAXVA`, and `Data`
  a string longer than what is left of a page.

`CHECK_DEADLOCK FALSE` is set where the system stops: when a program has ended,
or `pingpong` waits without a child (`Programs`), when the kernel has panicked
(`Sysinfo`, `DanglingRef`, `Vm`), and where a bound on the calls is
reached (`Vm`).

### Fairness

* `ProcTable`: every `scheduler()` walks the table for ever, so a process that
  is runnable again and again when a scheduler passes is picked (strong fairness
  of `Dispatch`); a thread at a switch goes on (weak: it holds its lock); a
  thread that spins for a lock others release again and again gets it (strong
  fairness of `CallStep`: the builtin spinlocks are not queued, but on the one
  CPU of `ProcLive` a thread spins for nothing but a preempted one, which runs
  again); the timer interrupts what runs. No system call, fault or interrupt in
  the kernel is owed.
* `Alarm`: the timer interrupts a process in user mode again and again,
  `sys_sigreturn()` returns, and a handler calls `sigreturn()`.
* `Programs`: the scheduler runs a process that can run (`RunnableRuns`).
* `Syscalls`: the timer never stops, and `clockintr()` gets `tickslock`; a
  process that can run does, and gets `tickslock` and `pr.lock`, which others
  give up again and again (strong fairness, with the same reservation about
  spinlocks as above). No system call is owed. `SleepEnds` is claimed while
  nobody has panicked, and under `Prompt`: a process that is awake runs before
  2^32 further ticks have passed. Without that the difference of ticks may be
  small again by the time it looks, and the sleep starts anew.

The liveness of the process table is claimed while nobody kills the first
process. `ProcLive` has one CPU: on two `KilledExits` fails, as `MissedKill`
shows. `Dispatch` takes any runnable process, where `scheduler()` goes from slot
to slot: that the scan passes each of them again is part of the fairness, and
`RunnableRuns` shows what preemption adds to it.

## What is proved

Every safety property that a passing run checks is a theorem, except that `Vm`
implements `FlatMem`, and `OneOwner` in one build of `UserPages`. The theorems are about every value of the
constants: any number of slots, CPUs, threads and pages, page tables of any
depth, any arguments of the calls, a `uint` of any width, any `END` and `MAX`,
any tree of directories.

What is assumed of the constants is stated where they are declared:

| assumption | what it says |
| --- | --- |
| `ProcAssumption` | there is a slot; the holder of a free lock is no CPU; arguments of `kill()` are integers, the bound on pids is a number; timer interrupts come at points of `Interruptible` |
| `AlarmAssumption` | intervals are integers, `IntMax` is a number |
| `ClockAssumption` | there is a slot, and a value of a `uint`; a sleep is shorter than a `uint` can count (`sys_sleep()` compares an `int` with it) |
| `SyscallAssumption` | `trace` is a call and there are numbers that are none; masks are sets of calls; a line has a length |
| `SysinfoAssumption` | the holder of a free lock is no thread; there is a slot, and a number of pages |
| `UserPagesAssumption` | a page table has two levels or more, a page has bytes; `kinit()` frees enough pages for `userinit()` |
| `PrimesAssumption` | `END` is at least 2 and at most `MAX`: `print_primes()` returns at once otherwise |
| `FindAssumption` | the directories are a tree, as the file system keeps it: each has "." and "..", and one name in the directory above; names in a directory differ; a name that `getname()` cuts at a blank is no other directory's name; it is not directories that come and go meanwhile |
| `ProgramsAssumption` | the two together |
| `VmAssumption` | there is a slot; three entries of a page table are at the top, so it has three or more; `kinit()` frees eight pages, which is what `userinit()` may take; a process stays below the pages at the top; addresses have the bits of three indices; what is stored are numbers, and `copyout()` is given a byte or more |

Where each argument is, and why it needs more than the property it ends in:

### Process table

`ProcProofs` proves `LocksInv` and with it `SchedChecks`, `StackInUse` and
`LockOrder`; then `WakeupInv`, for `NoLostWakeup`; then the rest of `IInv`, for
`ParentAlive` and the refinement. The type invariant
`TypeOK` is a conjunct of `LocksInv`, so the run checks it as part of `IInv`.

None of these properties is inductive. `SchedChecks` speaks of threads that
enter `sched()`; to know that such a thread holds only its own lock one has to
know who holds each lock everywhere else. `LocksInv` says that: `p->lock` is
held between two steps exactly by a CPU that switches from or to `p`
(`PlockInv`), `wait_lock` exactly by a CPU whose thread is in its section
(`SectionLocked`, `LockedInSection`), the processes on CPUs are those running or
leaving, each on one (`OnCpuRuns`, `RunsOnCpu`, `OneCpu`), and what state a
process has limits where its thread is (`StateInv`, `ForkInv`).

`NoLostWakeup` needs in addition what happens inside the sections of
`wait_lock`: the slots `wait()` has passed have no zombie child (`ScanInv`), a
child that has passed its parent in `wakeup()` finds it awake until it is a
zombie (`ParentTold`), and a parent that sleeps over a zombie child is the first
process with `reparent()`'s `wakeup(initproc)` still to reach it (`SleeperInv`).
These hold because of `LocksInv`: two threads are never in the section at the
same time.

`ParentAlive` is about states in which nobody holds `wait_lock`. `TreeInv` says
what is true inside its section: which children `reparent()` has passed, that
the pids of used slots differ and lie below `nextpid`, and that the
slot a `fork()` fills has no parent before it is given one. `ImplementsTree` is proved step by step: under
`IInv` each step of the table is one of the tree's, or a stutter. Most of the
work is that `ParentOf` and `StatusOf`, functions on pids, are changed at one
pid only, which rests on pids being different.

### Alarms

`AlarmProofs`: `TypeOK`, `HandlerOnce`, `Transparent`, `NotUnasked`.
`HandlerOnce` alone is not inductive: nothing in it says that a flag of 0 in
user mode means that no call is open, which is what the next timer interrupt
goes by. `FlagInv` does, and also that the flag is down in the middle of
`sigreturn()`, where the call is still open but no interrupt is counted.
`NotUnasked` rests on `OwnInterval`: the interval of a process is the one it has
asked for itself, and 0 if it has asked for none.

### Clock, console and tracing

`SyscallProofs` first proves about `Clock` that `SleptEnough` and `TickWakes`
hold of all its behaviours, and then that `Syscalls` implements `Clock`
(`ImplementsClock`), so that they hold with tracing and printing, too. Where a
thread is says who has `tickslock` (`TicksLock`); the slots `wakeup()` has
passed are awake until the lock is given up, because going to sleep takes it
(`Passed`); and as long as fewer ticks have passed than a `uint` has values,
the difference of two readings is their number, whether or not it wrapped
(`Measured`). For the console, `LinesInv` ties each character to `pr.lock` or
to a panic: `pr.locking` is set until somebody panics, and a line that began
under the lock keeps it. `TracedExactly` needs all three, since a line is
printed between the handler and the return: `TraceInv` says at which points a
call has printed its line, and that no slot's mask differs from what was asked.

### Free list and `sysinf()`

`SysinfoProofs`: `TypeOK`, `ListOK`, `OneUser` and `CountsExact`. A list that is
read in one step and written in another stays a list only if nobody writes it
meanwhile, neither its head nor the words in its pages. `HoldInv` says who may:
`kmem.lock` is held exactly between `kalloc()`'s or `kfree()`'s reading of the
head and its writing, a page on its way into or out of the list is of one
thread only, and the pages threads own are disjoint. `ListOK` says where the
list is by the order of its pages, with no recursion: some sequence of the free
pages, each once, in which each page's word is the next. `CountInv` is what a
scan knows that nothing has disturbed: it is at the page, or the slot, its count
says.

### Pages of a process

`UserPagesProofs`: `TypeOK`, `NoPanic` and `MemoryWhole` (`SizeMapped` and
`OwnTop`), for both labs. The inductive invariant follows the calls: what the slot that a `fork()`
fills has at each of its points (`Filling`, with `Bare` before there is a table
and `Whole` after), how far an `sbrk()` has got (`Extending`), that no two
`fork()`s fill one slot (`Alone`), and what follows for a slot from its state
(`Good`). With it each error path is known to undo what was done and no more,
which is why no table is found to be other than its caller takes it for.

The second part: in the traps lab's kernel every page is at exactly one place
(`OneOwnerTraps`). The places of a page are the pointers of the slots, the
entries of their tables, user memory, and the `mem` of a call that has taken a
page and not yet mapped it. `Single` says that a page in use is at one place,
and a free one once in the list and at none. A step does one of three things,
and for each there is a lemma that it keeps `Single`: it takes the page of
`kalloc()` to a place that was empty (`Taken`), moves a page (`Moved`), or gives
back a sequence of pages that is exactly what some places have (`GivenBack`).
What `freeproc()`, `uvmunmap()` and the error paths free are such sequences, put
together with `GivesBoth` from the pointers, the directories, the leaves and
`mem`. That no pointer is overwritten and no leaf lost is what `IInv` is needed
for; that a free slot has no pointer to an extra page left is `NoStray`, which
the page tables lab's `freeproc()` breaks. Of that lab's kernel `OneOwner` is
false when memory runs out, as the run `FreedTwice` shows, and where it is not
false it is only model-checked.

### User memory

`VmProofs`: `TypeOK`, `PagesApart` and `OwnCallsOnly`, for tables and pages of
any size. None of them is inductive, for they speak of the pages below `sz`,
and what is at stake is every entry of every table: a stale one would make
`walk()` write into a page that has another use. The invariant is that there is
a labelling of the physical pages, in which each says whose it is, whether it is
a root, a table of level 1 or 0, or data, and under which indices it is found
(`Tree`, `Tidy`). A page that the tables of a process lead to is in use and has
the label of the way that leads to it, so no second way does. The other part is
that what a process needs is mapped (`Has`): below `sz`, the trap frame, and the
page with the pid.

For each function of `vm.c` there is a lemma that says what it leaves behind on
each way out. `walk()` and `mappages()` give labels to pages that were free and
take none away, also when they fail half way, so that what was mapped still is
(`Kept`, `StillHas`). `uvmunmap()` clears the only entries that lead to the pages
it frees. Loads, stores, copies and `pgaccss()` change accessed bits, or cells of
pages labelled as data, so that tables lead where they led (`Alike`); that
`copyout()` reaches only such pages is `ReachedPages`. The loop of `uvmalloc()`
and `uvmcopy()` is a recursive function: that there is one, and that every turn
keeps the invariant, is proved by induction over the pages (`LoopExists`,
`MapAllTidy`), and likewise that the mask of `pgaccss()` is a number
(`MaskType`).

For `OwnCallsOnly` each of these lemmas says in addition that pages labelled for
others keep what is on them (`Others`), and since both a process's tables and its
data are labelled for it, what it has mapped is what it was (`OthersAlone`).

### The sieve

`PrimesProofs` is about `Primes` alone and ends in `SieveSafe`;
`ProgramsProofs` shows that what `Programs` runs is that sieve (`SameSieve`,
`SieveSteps`) and concludes `OnlyPrimes`, `UnreadLast` and `AllPrimes`. That a filter's first
number is a prime depends on everything sent before it. The invariant says that
numbers on their way, in pipes and in the hands of filters, are in order
(`OrderInv`); that each has been tried by every filter it has passed
(`ItemInv`); that no odd number fed is lost but to a filter whose prime divides
it, or behind the last filter that works (`AllKept`); and so that filters' primes
are exactly the primes, in order (`PrimeInv`). `AllPrimes` needs in addition that
`Enough` pipes are enough: the prime of filter `g`, counted from 0, is at least
`3g + 1`, so that few filters have a prime below `MAX / 2` and pass numbers on.
`UnreadLast` is about filters without a number. They have found their pipe ended
(`UnreadInv`); if it was made and all filters up to them were forked, the end of
the pipe means that those before are over and all numbers are through
(`EarlyEnd`), and a prime that is through is the prime of a filter, which has
printed it (`SiftedPrinted`). The theorems are for
every `END`; they are about the code for `END` up to 99, because its buffers
hold two digits.

### find

The first part of `ProgramsProofs`: each step of `Programs` that runs `find` is a
step of `Find` and every other leaves its variables alone (`FindSteps`), so what
is proved of `Find` holds of `Programs`, and ends in `FindsAll`. The calls of
`find()` that have a directory open are those on the way down from the root to
the innermost (`FrameInv`), so each directory is visited once. An entry of a directory is done with (`Through`) once its
directory's call is past it, or a call above is past the entry that leads there.
Of the files that nobody has touched exactly those done with have been printed
(`HitInv`), whatever others create and remove; only `stat()` changes which these
are, and since it looks the name up again, the invariant says what it finds
(`StatInv`): the entry that was read unless somebody has removed it. When the last
call returns, everything is done with. A directory is searched if there are
descriptors for its depth and one more for `stat()`, and its name and those above
have no blank: `Depth` and `Entered` are functions that go up the tree, from which
`Searched` follows; their equations hold because the tree is finite.

These proofs, and those about `Vm`, need inductions, over numbers and over the
height of directories. The library's induction theorems take an operator, but "less than is well
founded" is a fact about a set of pairs: from it follow `Least`, a set of numbers
has a least one, and `NatInd`, a set with 0 and all successors has all numbers.

## What is only model-checked

* Liveness (`RunnableRuns`, `ExitEnds`, `WaitReturns`, `KilledExits`,
  `AlarmRings`, `SleepEnds`, `Ends`): fairness and `ENABLED` are out of the
  prover's reach.
* `OneOwner` in the builds of the page tables lab that `UserPages.cfg` has.
* That `Vm` implements `FlatMem` (`FlatSpec`). It says that `vmprint()`'s lines
  can be read back, and they are a sequence put together by recursion over
  tables: induction over data. It also says which number the mask of `pgaccss()`
  is, a sum of powers of two, for which the provers have no arithmetic. What the
  theorems about `Vm` leave to it is that the bytes are the right ones; that they
  are nobody else's is proved.
* The violations: TLC's counterexamples are the evidence.

## What the code does otherwise than it says

`findings` in `PROJECT.json` has the details; each is a run that TLC ends with a
counterexample.

* A `kill()` between `wait()`'s test of `killed` and its `sleep()` is missed.
* `kill(0)` finds a free slot, whose pid is 0, marks it and returns 0, and the
  next process `fork()` puts there is born killed.
* In the page tables lab `freeproc()` keeps `usysro`, and may free it again.
* `getbytes()` follows links out of pages that are no longer free.

More things the models know of, without a run of their own:

* `pgaccss()` reads through a null pointer for a page without a table, and its
  mask is wrong from the 32nd page on: `FlatMem` allows both. It also allows what
  happens when `copyout()` fails: `pgaccss()` calls `proc_freepagetable()` for the
  running process with `sizeof(pagetable_t)`, the size of a pointer, as the size
  of its memory. `freewalk()` meets a leaf and panics if there is more than one
  page; with one page the table is freed under its process, and `kfree(buf)` of a
  user address panics.
* `pingpong` without a child never ends: `Ends` is claimed with a child only.
* `find` does not search a directory whose name has a blank in it: `Found`
  claims nothing of it.
* `find` prints nothing in the directory that takes its last descriptor, the
  13th from the root on: `Found` says so.
* A filter of `primes` that reads nothing may print what its stack holds:
  `GarbageLast` says when.

## What is not modelled

* The formatting of `printf`, `procdump` (output without locks), and
  `backtrace`, whose stack frames are the compiler's.
* `walk2()`, which nobody calls, and the kernel's own page table (`kvmmake`):
  fixed at boot.
* `exec()`, which is not in the repository: of what it does to page tables there
  is `uvmclear()`.
* `xargs`: it cuts its input, of which it has room for 32 bytes, into arguments
  that it allocates with the length of the line before. What it does is decided
  by the layout of a heap whose allocator is not in the repository.
* `sleep`, `trace`, `call`, `sysinfotest`: they only call the system calls
  modelled here, and were read as the statement of what those promise.
* Context switch, page faults, device interrupts, the file system: not in the
  repository.

## Plan

The order is the importance of the behaviour for the rest.

1. Done: the process table, its abstract tree, its invariant and proofs; the
   pages of a process; alarms and their proofs; the free list and `sysinf()`;
   the clock, the console and the system calls that use both; user memory and
   its flat abstraction; the programs with pipes, and find.
2. Done, proofs: all of the process table with its refinement, alarms, the
   clock, the console and tracing, the free list and `sysinf()`, the pages of a
   process and who owns them, what the sieve and `find` print, that page tables
   keep processes apart.
3. Next, proofs: the calls of `Vm` that `FlatMem` describes without sequences
   (loads, stores, `fork()`, `sbrk()`), each a step of `FlatMem`'s memory.
4. Perhaps: `exec()`'s part in the page tables and `xargs`, once the files they
   rest on are at hand.
