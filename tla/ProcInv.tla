------------------------------- MODULE ProcInv -------------------------------
(***************************************************************************)
(* The inductive invariant behind the safety properties of ProcProps: what *)
(* holds between any two steps, in the middle of a scan, a wakeup or an    *)
(* exit too.                                                               *)
(***************************************************************************)
EXTENDS ProcProps

\* The argument of exit() is an exit status.
ExitLabels == {"exit", "reparent", "wakeInit", "wakeParent", "zombie"}

ArgInv ==
  \A p \in Slots :
    pc[p] \in ExitLabels \/ (pc[p] \in {"swtch", "resume"} /\ ret[p] = "exit")
      => arg[p] \in Statuses

\* How far a thread can be, by the state of its process.
StateInv ==
  \A p \in Slots :
    /\ state[p] = "UNUSED" => pc[p] = "dead"
    /\ state[p] = "USED" => pc[p] = "resume" /\ ret[p] = "user"
    /\ state[p] \in {"RUNNABLE", "SLEEPING"} => pc[p] \in {"swtch", "resume"}
    /\ state[p] = "ZOMBIE" => pc[p] \in {"swtch", "dead"} /\ ret[p] = "user"
    /\ state[p] = "RUNNING" => pc[p] \notin {"swtch", "dead"}

\* The processes on CPUs are the running ones and those on their way out of
\* one, each on one CPU.
OnCpuRuns ==
  \A c \in Cpus, p \in Slots :
    cpuProc[c] = p => state[p] = "RUNNING" \/ pc[p] = "swtch"

RunsOnCpu ==
  \A p \in Slots :
    state[p] = "RUNNING" \/ pc[p] = "swtch" => \E c \in Cpus : cpuProc[c] = p

OneCpu ==
  \A c, d \in Cpus, p \in Slots : cpuProc[c] = p /\ cpuProc[d] = p => c = d

\* Between two steps p->lock is held exactly by a CPU that switches from or
\* to p.
PlockInv ==
  \A c \in Cpus, p \in Slots :
    plock[p] = c <=> cpuProc[c] = p /\ pc[p] \in {"swtch", "resume"}

\* wait_lock is held exactly by a CPU whose thread is in its section.
WaitLockLabels == {"scan", "waitKilled", "sleep",
                   "reparent", "wakeInit", "wakeParent", "zombie"}

InSection(c, p) == cpuProc[c] = p /\ pc[p] \in WaitLockLabels

SectionLocked == \A c \in Cpus, p \in Slots : InSection(c, p) => waitLock = c

LockedInSection ==
  \A c \in Cpus : waitLock = c => \E p \in Slots : InSection(c, p)

\* Between allocproc() and np->state = RUNNABLE the slot of a child is fork()'s
\* own, also while its thread is preempted.
ForkLabels == {"forkParent", "forkReady"}

Forking(p) ==
  pc[p] \in ForkLabels \/ (pc[p] \in {"swtch", "resume"} /\ ret[p] \in ForkLabels)

ForkInv ==
  \A p \in Slots : Forking(p) =>
    /\ state[i[p]] = "USED"
    /\ \A q \in Slots : Forking(q) /\ i[q] = i[p] => q = p

LocksInv == /\ TypeOK /\ ArgInv /\ StateInv /\ ForkInv
            /\ OnCpuRuns /\ RunsOnCpu /\ OneCpu
            /\ PlockInv /\ SectionLocked /\ LockedInSection

\* Outside wakeup() its loop counter is at the first slot.
WakeCounter ==
  \A p \in Slots : pc[p] \notin {"wakeInit", "wakeParent"} => j[p] = 0

\* Outside a loop over the table its loop counter is at the first slot.
LoopLabels == {"fork", "forkParent", "forkReady", "reparent", "wakeInit",
               "scan", "kill"}

LoopCounter ==
  \A p \in Slots :
    \/ pc[p] \in LoopLabels
    \/ pc[p] \in {"swtch", "resume"} /\ ret[p] \in LoopLabels
    \/ i[p] = 0

\* A child that has passed its parent in wakeup(p->parent) has woken it, and
\* the parent cannot go to sleep before the child is a zombie.
ParentTold ==
  \A p, q \in Slots :
    /\ parent[q] = p
    /\ pc[q] = "zombie" \/ (pc[q] = "wakeParent" /\ j[q] > p)
    => ~AsleepInWait(p)

\* The slots that wait() has passed hold no zombie child, until it sleeps.
ScanInv ==
  \A p, q \in Slots :
    /\ parent[q] = p
    /\ \/ pc[p] \in {"waitKilled", "sleep"}
       \/ pc[p] = "scan" /\ q < i[p]
    => state[q] # "ZOMBIE"

\* A zombie child of a sleeping parent is one that reparent() has just given
\* to the first process, with wakeup(initproc) still to reach it.
SleeperInv ==
  \A p, q \in Slots :
    AsleepInWait(p) /\ parent[q] = p /\ state[q] = "ZOMBIE" =>
      p = initproc /\ \E r \in Slots : pc[r] = "wakeInit" /\ j[r] = initproc

WakeupInv == WakeCounter /\ LoopCounter /\ ParentTold /\ ScanInv /\ SleeperInv

-----------------------------------------------------------------------------
\* The tree of processes

Alive == {"RUNNABLE", "RUNNING", "SLEEPING"}

\* The first process is there, has no parent and does not exit.
InitprocInv ==
  /\ state[initproc] \in Alive
  /\ parent[initproc] = Null
  /\ pid[initproc] = 1
  /\ initproc \notin Exiting

\* Pids are given out once, and a free slot has none.
PidInv ==
  /\ \A p \in Slots : pid[p] < nextpid /\ (state[p] = "UNUSED" <=> pid[p] = 0)
  /\ \A p, q \in Slots : state[p] # "UNUSED" /\ pid[q] = pid[p] => q = p

\* A parent has not exited; when it is exiting, its children are those that
\* reparent() has still to come to.
ChildInv ==
  \A p, q \in Slots : parent[q] = p =>
    /\ state[p] \in Alive
    /\ state[q] # "UNUSED"
    /\ pc[p] \notin {"wakeParent", "zombie"}
    /\ pc[p] = "reparent" => q >= i[p]
    /\ pc[p] = "wakeInit" => q > i[p]

ParentedInv ==
  \A q \in Slots :
    state[q] \in Alive \cup {"ZOMBIE"} /\ q # initproc => parent[q] # Null

\* p is in its system call at l, or was preempted there.
IsAt(p, l) == pc[p] = l \/ (pc[p] \in {"swtch", "resume"} /\ ret[p] = l)

\* fork() gives the child its parent before it gives it up.
ForkParentInv ==
  \A p \in Slots :
    /\ IsAt(p, "forkParent") => parent[i[p]] = Null
    /\ IsAt(p, "forkReady") => parent[i[p]] = p

TreeInv == InitprocInv /\ PidInv /\ ChildInv /\ ParentedInv /\ ForkParentInv

IInv == LocksInv /\ WakeupInv /\ TreeInv
=============================================================================
