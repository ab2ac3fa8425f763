------------------------------ MODULE ProcProps ------------------------------
(***************************************************************************)
(* What the process table promises: its invariants, what no step may do,   *)
(* what must happen, and the process tree it implements.                   *)
(***************************************************************************)
EXTENDS ProcTable

\* The type of every variable.
TableOK ==
  /\ state    \in [Slots -> States]
  /\ pid      \in [Slots -> Nat]
  /\ parent   \in [Slots -> Slots \cup {Null}]
  /\ chan     \in [Slots -> Slots \cup {Null}]
  /\ killed   \in [Slots -> BOOLEAN]
  /\ xstate   \in [Slots -> Statuses]
  /\ nextpid  \in Nat

LocksOK ==
  /\ plock    \in [Slots -> Cpus \cup {NoCpu}]
  /\ waitLock \in Cpus \cup {NoCpu}
  /\ cpuProc  \in [Cpus -> Slots \cup {Null}]

ThreadsOK ==
  /\ pc       \in [Slots -> Labels]
  /\ ret      \in [Slots -> Interruptible \cup {"user"}]
  /\ i        \in [Slots -> Slots]
  /\ j        \in [Slots -> Slots]
  /\ arg      \in [Slots -> Int]

TypeOK == TableOK /\ LocksOK /\ ThreadsOK

\* The first process sleeps, or any other parent, on its own proc pointer in
\* wait().
AsleepInWait(p) == state[p] = "SLEEPING" /\ chan[p] = p

\* A parent asleep in wait() has no zombie child, unless some process holds
\* wait_lock and is about to wake it: exit() calls wakeup(p->parent) and
\* becomes a zombie, and wait() looks for zombies and goes to sleep, each
\* under wait_lock, and sleep() gives it up only once it holds p->lock.
NoLostWakeup ==
  waitLock = NoCpu =>
    \A p, q \in Slots :
      AsleepInWait(p) /\ parent[q] = p => state[q] # "ZOMBIE"

\* The panics of sched() are unreachable: a thread that enters it holds its
\* own lock and no other, and is not RUNNING; and scheduler() holds nothing
\* between two processes.
SchedChecks ==
  /\ \A c \in Cpus, p \in Slots :
       At(c, p, "swtch") =>
         /\ plock[p] = c
         /\ waitLock # c
         /\ \A q \in Slots \ {p} : plock[q] # c
         /\ state[p] # "RUNNING"
  /\ \A c \in Cpus :
       cpuProc[c] = Null =>
         waitLock # c /\ \A q \in Slots : plock[q] # c

\* A process executes on one CPU at a time, and a slot is not free, nor being
\* filled by fork(), while a CPU still executes on its kernel stack: wait()
\* takes the child's lock, which the zombie held until it was switched out.
StackInUse ==
  \A c \in Cpus, p \in Slots :
    cpuProc[c] = p =>
      /\ state[p] \notin {"UNUSED", "USED"}
      /\ \A d \in Cpus \ {c} : cpuProc[d] # p

\* Once exit() has given the children away, nobody's parent is a free slot
\* or a zombie: reparent() hands over zombies as well as live children.
ParentAlive ==
  waitLock = NoCpu =>
    \A q \in Slots :
      /\ parent[q] # Null => state[parent[q]] \notin {"UNUSED", "USED", "ZOMBIE"}
      /\ state[q] \in {"RUNNABLE", "RUNNING", "SLEEPING", "ZOMBIE"} /\ q # initproc
           => parent[q] # Null

\* wait_lock "must be acquired before any p->lock": no CPU takes it while
\* it holds the lock of a process.
LockOrder ==
  [][waitLock' \in Cpus \ {waitLock} =>
       \A q \in Slots : plock[q] # waitLock']_vars

\* "If non-zero, have been killed" (proc.h): fork() does not find a slot that
\* is marked already, so that a new process is one that nobody has killed.
BornUnkilled ==
  [][\A q \in Slots : state[q] = "UNUSED" /\ state'[q] = "USED"
                        => ~killed'[q]]_vars

\* No process that has been killed stays asleep: kill() wakes it, and
\* sleep() does not miss it.
KilledAwake == \A p \in Slots : killed[p] => state[p] # "SLEEPING"

-----------------------------------------------------------------------------
\* Liveness, under FairSpec and as long as nobody kills the first process

\* A RUNNABLE process runs again: the timer takes the CPU away from programs
\* and no thread keeps it, or a lock, for ever.
RunnableRuns ==
  \A p \in Slots :
    state[p] = "RUNNABLE" ~> state[p] = "RUNNING"

\* Threads that exit() has brought as far as wait_lock, which they hold.
Exiting == {p \in Slots :
              pc[p] \in {"reparent", "wakeInit", "wakeParent", "zombie"}}

\* exit() comes to its end, whatever the rest of the table does.
ExitEnds ==
  \A p \in Slots :
    pc[p] = "exit" \/ p \in Exiting ~> state[p] = "ZOMBIE"

\* wait() returns to a process that has a zombie child, also to the first
\* process when the zombie, or its parent's children, became its own while
\* it slept.
InWait(p) ==
  \/ pc[p] \in {"wait", "scan", "waitKilled", "sleep"}
  \/ pc[p] \in {"swtch", "resume"} /\ ret[p] = "wait"

WaitReturns ==
  \A p \in Slots :
    InWait(p) /\ (\E q \in Slots : parent[q] = p /\ state[q] = "ZOMBIE")
      ~> pc[p] = "trapret"

\* A killed process exits: kill() gets it out of wait(), and usertrap() does
\* not let it into user space again.  (On one CPU: see KilledAwake.)
KilledExits == \A p \in Slots : killed[p] ~> state[p] = "ZOMBIE"

-----------------------------------------------------------------------------
(***************************************************************************)
(* The process table implements ProcTree.  A forked child is in the tree   *)
(* from np->parent = p on; exit() takes effect when it acquires wait_lock: *)
(* while it works under the lock the process counts as a zombie, with the  *)
(* status it will have, and its children as init's.                        *)
(***************************************************************************)
InTree == {p \in Slots : p = initproc \/ parent[p] # Null}

TreeZombies == {p \in InTree : p \in Exiting \/ state[p] = "ZOMBIE"}

PidsOf(S) == {pid[p] : p \in S}

SlotOf(n) == CHOOSE p \in InTree : pid[p] = n

TreeParent(p) == IF parent[p] \in Exiting THEN initproc ELSE parent[p]

Tree == INSTANCE ProcTree WITH
  Pids     <- Nat,
  InitPid  <- 1,
  live     <- PidsOf(InTree \ TreeZombies),
  status   <- [n \in PidsOf(TreeZombies) |->
                 LET p == SlotOf(n)
                 IN  IF p \in Exiting THEN arg[p] ELSE xstate[p]],
  parentOf <- [n \in PidsOf(InTree \ {initproc}) |->
                 pid[TreeParent(SlotOf(n))]]

\* Seen through that mapping, every step is a Fork, an Exit or a Reap of the
\* tree, or changes nothing: each process is collected once, by its parent
\* at that time, with the status it exited with.
TreeSpec == Tree!Spec
=============================================================================
