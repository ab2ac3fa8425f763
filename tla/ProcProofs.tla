----------------------------- MODULE ProcProofs -----------------------------
(***************************************************************************)
(* Proofs about the process table: its types, the locks, the CPUs, that no *)
(* wakeup is lost, and who is whose parent.  LocksInv is inductive         *)
(* (LocksNext), so that Spec => []LocksInv, from which TypeOK,             *)
(* SchedChecks, StackInUse and LockOrder follow; WakeupInv and the         *)
(* invariant of the tree are inductive relative to it.                     *)
(***************************************************************************)
EXTENDS ProcInv, TLAPS

USE DEF At, Goto, tableVars, lockVars, threadVars

-----------------------------------------------------------------------------
\* The steps, one at a time

\* Next, for one CPU and one process.
Step(c, p) == \/ SwitchStep(c, p) \/ UserStep(c, p) \/ TrapStep(c, p)
              \/ ForkStep(c, p) \/ ExitStep(c, p) \/ WaitStep(c, p)
              \/ KillStep(c, p)

\* The null pointer is no slot.
LEMMA NullNoSlot == Null \notin Slots
  BY DEF Null, Slots

\* A slot that is not the last one has a next.
LEMMA NextInSlots ==
  ASSUME ProcAssumption, NEW q \in Slots, q + 1 # NPROC
  PROVE  q + 1 \in Slots
  BY DEF ProcAssumption, Slots

\* The first slot is the first process's.
LEMMA FirstSlot == ASSUME ProcAssumption PROVE 0 \in Slots /\ initproc \in Slots
  BY DEF ProcAssumption, Slots, initproc

-----------------------------------------------------------------------------
\* Types

\* The loops over the table stay in it.
LEMMA NextSlotType ==
  ASSUME ProcAssumption, ThreadsOK, NEW p \in Slots, NEW l \in Labels,
         NextSlot(p, l)
  PROVE  i' \in [Slots -> Slots] /\ pc' \in [Slots -> Labels]
<1>1. i[p] \in Slots
  BY DEF ThreadsOK
<1>2. CASE i[p] + 1 < NPROC
  <2>1. i[p] + 1 # NPROC
    BY <1>1, <1>2 DEF Slots, ProcAssumption
  <2>2. i[p] + 1 \in Slots
    BY <1>1, <2>1, NextInSlots
  <2> QED
    BY <1>2, <2>2 DEF NextSlot, ThreadsOK
<1>3. CASE ~(i[p] + 1 < NPROC)
  BY <1>3, FirstSlot DEF NextSlot, ThreadsOK
<1> QED
  BY <1>2, <1>3

\* wakeup() goes on to a slot of the table,
LEMMA NextWakeType ==
  ASSUME ProcAssumption, ThreadsOK, NEW p \in Slots, NextWake(p)
  PROVE  j' \in [Slots -> Slots]
<1>1. j[p] \in Slots
  BY DEF ThreadsOK
<1>2. CASE LastSlot(p)
  BY <1>2, FirstSlot DEF NextWake, ThreadsOK
<1>3. CASE ~LastSlot(p)
  <2>1. j[p] + 1 \in Slots
    BY <1>1, <1>3, NextInSlots DEF LastSlot
  <2>2. j' = [j EXCEPT ![p] = j[p] + 1]
    BY <1>3 DEF NextWake
  <2> QED
    BY <2>1, <2>2 DEF ThreadsOK
<1> QED
  BY <1>2, <1>3

\* and a thread that returns has its counters in the table.
LEMMA ReturnType ==
  ASSUME ProcAssumption, ThreadsOK, NEW p \in Slots, Return(p)
  PROVE  i' \in [Slots -> Slots] /\ pc' \in [Slots -> Labels]
  BY FirstSlot DEF Return, ThreadsOK, Labels

\* struct proc keeps its types; the status a process leaves is legal.
LEMMA TableOKStep ==
  ASSUME ProcAssumption, TypeOK, ArgInv, NEW c \in Cpus, NEW p \in Slots, Step(c, p)
  PROVE  TableOK'
<1> USE FirstSlot DEF TypeOK
<1>1. CASE SwitchStep(c, p)
  BY <1>1 DEF TableOK, ThreadsOK, States, Statuses, Null, ArgInv, ExitLabels,
     SwitchStep, Dispatch, SwitchOut, Resume, Yield, Preempt, EnterSched
<1>2. CASE UserStep(c, p)
  BY <1>2 DEF TableOK, ThreadsOK, States, Statuses, Null, ArgInv, ExitLabels,
     UserStep, SysFork, SysExit, SysWait, SysKill, TimerInterrupt, Trap, Fault
<1>3. CASE TrapStep(c, p)
  BY <1>3 DEF TableOK, ThreadsOK, States, Statuses, Null, ArgInv, ExitLabels,
     TrapStep, ExitKilled, TrapReturn
<1>4. CASE ForkStep(c, p)
  <2>1. CASE ForkScan(c, p)
    BY <2>1 DEF TableOK, ThreadsOK, States, Statuses, Null, ArgInv,
       ExitLabels, ForkScan
  <2>2. CASE ForkAlloc(c, p)
    BY <2>2 DEF TableOK, ThreadsOK, States, Statuses, Null, ArgInv,
       ExitLabels, ForkAlloc
  <2>3. CASE ForkNoMemory(c, p)
    BY <2>3 DEF TableOK, ThreadsOK, States, Statuses, Null, ArgInv,
       ExitLabels, ForkNoMemory, FreeProc
  <2>4. CASE ForkParent(c, p)
    BY <2>4 DEF TableOK, ThreadsOK, States, Statuses, Null, ArgInv,
       ExitLabels, ForkParent
  <2>5. CASE ForkReady(c, p)
    BY <2>5 DEF TableOK, ThreadsOK, States, Statuses, Null, ArgInv,
       ExitLabels, ForkReady
  <2> QED
    BY <1>4, <2>1, <2>2, <2>3, <2>4, <2>5 DEF ForkStep
<1>5. CASE ExitStep(c, p)
  <2>1. CASE ExitLock(c, p)
    BY <2>1 DEF TableOK, ThreadsOK, States, Statuses, Null, ArgInv,
       ExitLabels, ExitLock
  <2>2. CASE ExitPanic(c, p)
    BY <2>2 DEF TableOK, ThreadsOK, States, Statuses, Null, ArgInv,
       ExitLabels, ExitPanic
  <2>3. CASE ReparentSkip(c, p)
    BY <2>3 DEF TableOK, ThreadsOK, States, Statuses, Null, ArgInv,
       ExitLabels, ReparentSkip
  <2>4. CASE ReparentChild(c, p)
    BY <2>4 DEF TableOK, ThreadsOK, States, Statuses, Null, ArgInv,
       ExitLabels, ReparentChild
  <2>5. CASE WakeInit(c, p)
    BY <2>5 DEF TableOK, ThreadsOK, States, Statuses, Null, ArgInv,
       ExitLabels, WakeInit, WakeOne, LastSlot
  <2>6. CASE WakeParent(c, p)
    BY <2>6 DEF TableOK, ThreadsOK, States, Statuses, Null, ArgInv,
       ExitLabels, WakeParent, WakeOne, LastSlot
  <2>7. CASE ExitZombie(c, p)
    BY <2>7 DEF TableOK, ThreadsOK, States, Statuses, Null, ArgInv,
       ExitLabels, ExitZombie, EnterSched
  <2> QED
    BY <1>5, <2>1, <2>2, <2>3, <2>4, <2>5, <2>6, <2>7 DEF ExitStep
<1>6. CASE WaitStep(c, p)
  <2>1. CASE WaitLock(c, p)
    BY <2>1 DEF TableOK, ThreadsOK, States, Statuses, Null, ArgInv,
       ExitLabels, WaitLock
  <2>2. CASE Reap(c, p)
    BY <2>2 DEF TableOK, ThreadsOK, States, Statuses, Null, ArgInv,
       ExitLabels, Reap, AtZombie, FreeProc
  <2>3. CASE CopyoutFails(c, p)
    BY <2>3 DEF TableOK, ThreadsOK, States, Statuses, Null, ArgInv,
       ExitLabels, CopyoutFails, AtZombie
  <2>4. CASE WaitScan(c, p)
    BY <2>4 DEF TableOK, ThreadsOK, States, Statuses, Null, ArgInv,
       ExitLabels, WaitScan
  <2>5. CASE WaitGiveUp(c, p)
    BY <2>5 DEF TableOK, ThreadsOK, States, Statuses, Null, ArgInv,
       ExitLabels, WaitGiveUp, HaveKids
  <2>6. CASE WaitGoOn(c, p)
    BY <2>6 DEF TableOK, ThreadsOK, States, Statuses, Null, ArgInv,
       ExitLabels, WaitGoOn, HaveKids
  <2>7. CASE Sleep(c, p)
    BY <2>7 DEF TableOK, ThreadsOK, States, Statuses, Null, ArgInv,
       ExitLabels, Sleep, EnterSched
  <2> QED
    BY <1>6, <2>1, <2>2, <2>3, <2>4, <2>5, <2>6, <2>7 DEF WaitStep
<1>7. CASE KillStep(c, p)
  <2>1. CASE KillFound(c, p)
    BY <2>1 DEF TableOK, States, KillFound
  <2>2. CASE KillScan(c, p)
    BY <2>2 DEF TableOK, KillScan
  <2> QED
    BY <1>7, <2>1, <2>2 DEF KillStep
<1> QED
  BY <1>1, <1>2, <1>3, <1>4, <1>5, <1>6, <1>7 DEF Step

\* So do the locks and the CPUs,
LEMMA LocksOKStep ==
  ASSUME ProcAssumption, TypeOK, ArgInv, NEW c \in Cpus, NEW p \in Slots, Step(c, p)
  PROVE  LocksOK'
<1> USE FirstSlot DEF TypeOK
<1>1. CASE SwitchStep(c, p)
  BY <1>1 DEF LocksOK, SwitchStep, Dispatch, SwitchOut, Resume, Yield,
     Preempt, EnterSched
<1>2. CASE UserStep(c, p)
  BY <1>2 DEF LocksOK, UserStep, SysFork, SysExit, SysWait, SysKill,
     TimerInterrupt, Trap, Fault
<1>3. CASE TrapStep(c, p)
  BY <1>3 DEF LocksOK, TrapStep, ExitKilled, TrapReturn
<1>4. CASE ForkStep(c, p)
  BY <1>4 DEF LocksOK, ForkStep, ForkScan, ForkAlloc, ForkNoMemory,
     ForkParent, ForkReady, FreeProc
<1>5. CASE ExitStep(c, p)
  BY <1>5 DEF LocksOK, ExitStep, ExitLock, ExitPanic, ReparentSkip,
     ReparentChild, WakeInit, WakeParent, ExitZombie, WakeOne, LastSlot,
     EnterSched
<1>6. CASE WaitStep(c, p)
  BY <1>6 DEF LocksOK, WaitStep, WaitLock, Reap, CopyoutFails, WaitScan,
     WaitGiveUp, WaitGoOn, Sleep, AtZombie, FreeProc, HaveKids, EnterSched
<1>7. CASE KillStep(c, p)
  BY <1>7 DEF LocksOK, KillStep, KillFound, KillScan
<1> QED
  BY <1>1, <1>2, <1>3, <1>4, <1>5, <1>6, <1>7 DEF Step

\* and the threads.
LEMMA ThreadsOKStep ==
  ASSUME ProcAssumption, TypeOK, ArgInv, NEW c \in Cpus, NEW p \in Slots, Step(c, p)
  PROVE  ThreadsOK'
<1> USE FirstSlot DEF TypeOK
<1>1. CASE SwitchStep(c, p)
  BY <1>1 DEF ThreadsOK, ProcAssumption, Labels, Interruptible, SwitchStep,
     Dispatch, SwitchOut, Resume, Yield, Preempt, EnterSched
<1>2. CASE UserStep(c, p)
  BY <1>2 DEF ThreadsOK, ProcAssumption, Labels, Interruptible, UserStep,
     SysFork, SysExit, SysWait, SysKill, TimerInterrupt, Trap, Fault
<1>3. CASE TrapStep(c, p)
  BY <1>3 DEF ThreadsOK, ProcAssumption, Labels, Interruptible, TrapStep,
     ExitKilled, TrapReturn
<1>4. CASE ForkStep(c, p)
  BY <1>4, NextSlotType, ReturnType DEF ThreadsOK, ProcAssumption, Labels,
     Interruptible, ForkStep, ForkScan, ForkAlloc, ForkNoMemory, ForkParent,
     ForkReady, FreeProc
<1>5. CASE ExitStep(c, p)
  <2>1. CASE ExitLock(c, p)
    BY <2>1 DEF ThreadsOK, ProcAssumption, Labels, Interruptible, ExitLock
  <2>2. CASE ExitPanic(c, p)
    BY <2>2 DEF ThreadsOK, ProcAssumption, Labels, Interruptible, ExitPanic
  <2>3. CASE ReparentSkip(c, p)
    BY <2>3, NextSlotType DEF ThreadsOK, ProcAssumption, Labels,
       Interruptible, ReparentSkip
  <2>4. CASE ReparentChild(c, p)
    BY <2>4 DEF ThreadsOK, ProcAssumption, Labels, Interruptible,
       ReparentChild
  <2>5. CASE WakeInit(c, p)
    <3>1. j' \in [Slots -> Slots]
      BY <2>5, NextWakeType DEF WakeInit
    <3>2. i[p] \in Slots
      BY DEF ThreadsOK
    <3>3. i[p] + 1 < NPROC => i[p] + 1 \in Slots
      BY <3>2, ProcAssumption DEF Slots, ProcAssumption
    <3>4. i' \in [Slots -> Slots]
      BY <2>5, <3>2, <3>3 DEF WakeInit, ThreadsOK
    <3> QED
      BY <2>5, <3>1, <3>4 DEF WakeInit, ThreadsOK, Labels
  <2>6. CASE WakeParent(c, p)
    BY <2>6, NextWakeType DEF ThreadsOK, ProcAssumption, Labels,
       Interruptible, WakeParent, WakeOne, LastSlot
  <2>7. CASE ExitZombie(c, p)
    BY <2>7 DEF ThreadsOK, ProcAssumption, Labels, Interruptible, ExitZombie,
       EnterSched
  <2> QED
    BY <1>5, <2>1, <2>2, <2>3, <2>4, <2>5, <2>6, <2>7 DEF ExitStep
<1>6. CASE WaitStep(c, p)
  BY <1>6, ReturnType, NextSlotType DEF ThreadsOK, ProcAssumption, Labels,
     Interruptible, WaitStep, WaitLock, Reap, CopyoutFails, WaitScan,
     WaitGiveUp, WaitGoOn, Sleep, AtZombie, FreeProc, HaveKids, EnterSched
<1>7. CASE KillStep(c, p)
  BY <1>7, ReturnType, NextSlotType DEF ThreadsOK, ProcAssumption, Labels,
     Interruptible, KillStep, KillFound, KillScan
<1> QED
  BY <1>1, <1>2, <1>3, <1>4, <1>5, <1>6, <1>7 DEF Step

\* exit() is always called with an exit status.
LEMMA ArgInvStep ==
  ASSUME ProcAssumption, TypeOK, ArgInv, NEW c \in Cpus, NEW p \in Slots, Step(c, p)
  PROVE  ArgInv'
<1> USE FirstSlot DEF TypeOK
<1>1. CASE SwitchStep(c, p)
  <2>1. CASE Dispatch(c, p)
    BY <2>1 DEF ThreadsOK, ArgInv, ExitLabels, Statuses, Labels,
       Interruptible, Dispatch
  <2>2. CASE SwitchOut(c, p)
    BY <2>2 DEF ThreadsOK, ArgInv, ExitLabels, Statuses, Labels,
       Interruptible, SwitchOut
  <2>3. CASE Resume(c, p)
    BY <2>3 DEF ThreadsOK, ArgInv, ExitLabels, Statuses, Labels,
       Interruptible, Resume
  <2>4. CASE Yield(c, p)
    BY <2>4 DEF ThreadsOK, ArgInv, ExitLabels, Statuses, Labels,
       Interruptible, Yield, EnterSched
  <2>5. CASE Preempt(c, p)
    BY <2>5 DEF ThreadsOK, ArgInv, ExitLabels, Statuses, Labels,
       Interruptible, Preempt, EnterSched
  <2> QED
    BY <1>1, <2>1, <2>2, <2>3, <2>4, <2>5 DEF SwitchStep
<1>2. CASE UserStep(c, p)
  BY <1>2 DEF ThreadsOK, ArgInv, ExitLabels, Statuses, Labels, Interruptible,
     UserStep, SysFork, SysExit, SysWait, SysKill, TimerInterrupt, Trap, Fault
<1>3. CASE TrapStep(c, p)
  BY <1>3 DEF ThreadsOK, ArgInv, ExitLabels, Statuses, Labels, Interruptible,
     TrapStep, ExitKilled, TrapReturn
<1>4. CASE ForkStep(c, p)
  BY <1>4 DEF ThreadsOK, ArgInv, ExitLabels, Statuses, Labels, Interruptible,
     ForkStep, ForkScan, ForkAlloc, ForkNoMemory, ForkParent, ForkReady,
     NextSlot, FreeProc, Return
<1>5. CASE ExitStep(c, p)
  BY <1>5 DEF ThreadsOK, ArgInv, ExitLabels, Statuses, Labels, Interruptible,
     ExitStep, ExitLock, ExitPanic, ReparentSkip, ReparentChild, WakeInit,
     WakeParent, ExitZombie, NextSlot, WakeOne, NextWake, LastSlot, EnterSched
<1>6. CASE WaitStep(c, p)
  BY <1>6 DEF ThreadsOK, ArgInv, ExitLabels, Statuses, Labels, Interruptible,
     WaitStep, WaitLock, Reap, CopyoutFails, WaitScan, WaitGiveUp, WaitGoOn,
     Sleep, AtZombie, FreeProc, Return, NextSlot, HaveKids, EnterSched
<1>7. CASE KillStep(c, p)
  BY <1>7 DEF ThreadsOK, ArgInv, ExitLabels, Statuses, Labels, Interruptible,
     KillStep, KillFound, KillScan, Return, NextSlot
<1> QED
  BY <1>1, <1>2, <1>3, <1>4, <1>5, <1>6, <1>7 DEF Step

-----------------------------------------------------------------------------
\* Locks and CPUs

\* Where a thread is fits the state of its process.
LEMMA StateInvStep ==
  ASSUME ProcAssumption, LocksInv, NEW c \in Cpus, NEW p \in Slots, Step(c, p)
  PROVE  StateInv'
<1> USE NullNoSlot DEF LocksInv, TypeOK
<1>1. CASE SwitchStep(c, p)
  <2>1. CASE Dispatch(c, p)
    BY <2>1 DEF TableOK, LocksOK, ThreadsOK, StateInv, OnCpuRuns, RunsOnCpu,
       PlockInv, ForkInv, Forking, ForkLabels, Interruptible, ProcAssumption,
       Free, Dispatch
  <2>2. CASE SwitchOut(c, p)
    BY <2>2 DEF TableOK, LocksOK, ThreadsOK, StateInv, OnCpuRuns, RunsOnCpu,
       PlockInv, ForkInv, Forking, ForkLabels, Interruptible, ProcAssumption,
       Free, SwitchOut
  <2>3. CASE Resume(c, p)
    BY <2>3 DEF TableOK, LocksOK, ThreadsOK, StateInv, OnCpuRuns, RunsOnCpu,
       PlockInv, ForkInv, Forking, ForkLabels, Interruptible, ProcAssumption,
       Free, Resume
  <2>4. CASE Yield(c, p)
    BY <2>4 DEF TableOK, LocksOK, ThreadsOK, StateInv, OnCpuRuns, RunsOnCpu,
       PlockInv, ForkInv, Forking, ForkLabels, Interruptible, ProcAssumption,
       Free, Yield, EnterSched
  <2>5. CASE Preempt(c, p)
    BY <2>5 DEF TableOK, LocksOK, ThreadsOK, StateInv, OnCpuRuns, RunsOnCpu,
       PlockInv, ForkInv, Forking, ForkLabels, Interruptible, ProcAssumption,
       Free, Preempt, EnterSched
  <2> QED
    BY <1>1, <2>1, <2>2, <2>3, <2>4, <2>5 DEF SwitchStep
<1>2. CASE UserStep(c, p)
  BY <1>2 DEF TableOK, LocksOK, ThreadsOK, StateInv, OnCpuRuns, RunsOnCpu,
     PlockInv, ForkInv, Forking, ForkLabels, Interruptible, ProcAssumption,
     Free, UserStep, SysFork, SysExit, SysWait, SysKill, TimerInterrupt, Trap,
     Fault
<1>3. CASE TrapStep(c, p)
  BY <1>3 DEF TableOK, LocksOK, ThreadsOK, StateInv, OnCpuRuns, RunsOnCpu,
     PlockInv, ForkInv, Forking, ForkLabels, Interruptible, ProcAssumption,
     Free, TrapStep, ExitKilled, TrapReturn
<1>4. CASE ForkStep(c, p)
  BY <1>4 DEF TableOK, LocksOK, ThreadsOK, StateInv, OnCpuRuns, RunsOnCpu,
     PlockInv, ForkInv, Forking, ForkLabels, Interruptible, ProcAssumption,
     Free, ForkStep, ForkScan, ForkAlloc, ForkNoMemory, ForkParent, ForkReady,
     NextSlot, FreeProc, Return
<1>5. CASE ExitStep(c, p)
  BY <1>5 DEF TableOK, LocksOK, ThreadsOK, StateInv, OnCpuRuns, RunsOnCpu,
     PlockInv, ForkInv, Forking, ForkLabels, Interruptible, ProcAssumption,
     Free, ExitStep, ExitLock, ExitPanic, ReparentSkip, ReparentChild,
     WakeInit, WakeParent, ExitZombie, NextSlot, WakeOne, NextWake, LastSlot,
     EnterSched
<1>6. CASE WaitStep(c, p)
  BY <1>6 DEF TableOK, LocksOK, ThreadsOK, StateInv, OnCpuRuns, RunsOnCpu,
     PlockInv, ForkInv, Forking, ForkLabels, Interruptible, ProcAssumption,
     Free, WaitStep, WaitLock, Reap, CopyoutFails, WaitScan, WaitGiveUp,
     WaitGoOn, Sleep, AtZombie, FreeProc, Return, NextSlot, HaveKids,
     EnterSched
<1>7. CASE KillStep(c, p)
  BY <1>7 DEF TableOK, LocksOK, ThreadsOK, StateInv, OnCpuRuns, RunsOnCpu,
     PlockInv, ForkInv, Forking, ForkLabels, Interruptible, ProcAssumption,
     Free, KillStep, KillFound, KillScan, Return, NextSlot
<1> QED
  BY <1>1, <1>2, <1>3, <1>4, <1>5, <1>6, <1>7 DEF Step

\* The slot that fork() fills stays USED, and nobody else's.
LEMMA ForkInvStep ==
  ASSUME ProcAssumption, LocksInv, NEW c \in Cpus, NEW p \in Slots, Step(c, p)
  PROVE  ForkInv'
<1> USE NullNoSlot DEF LocksInv, TypeOK
<1>1. CASE SwitchStep(c, p)
  BY <1>1 DEF TableOK, LocksOK, ThreadsOK, ForkInv, Forking, ForkLabels,
     StateInv, OnCpuRuns, ProcAssumption, SwitchStep, Dispatch, SwitchOut,
     Resume, Yield, Preempt, EnterSched
<1>2. CASE UserStep(c, p)
  BY <1>2 DEF TableOK, LocksOK, ThreadsOK, ForkInv, Forking, ForkLabels,
     StateInv, OnCpuRuns, ProcAssumption, UserStep, SysFork, SysExit, SysWait,
     SysKill, TimerInterrupt, Trap, Fault
<1>3. CASE TrapStep(c, p)
  BY <1>3 DEF TableOK, LocksOK, ThreadsOK, ForkInv, Forking, ForkLabels,
     StateInv, OnCpuRuns, ProcAssumption, TrapStep, ExitKilled, TrapReturn
<1>4. CASE ForkStep(c, p)
  <2>1. CASE ForkScan(c, p)
    BY <2>1 DEF TableOK, LocksOK, ThreadsOK, ForkInv, Forking, ForkLabels,
       StateInv, OnCpuRuns, ProcAssumption, ForkScan, NextSlot
  <2>2. CASE ForkAlloc(c, p)
    BY <2>2 DEF TableOK, LocksOK, ThreadsOK, ForkInv, Forking, ForkLabels,
       StateInv, OnCpuRuns, ProcAssumption, ForkAlloc
  <2>3. CASE ForkNoMemory(c, p)
    BY <2>3 DEF TableOK, LocksOK, ThreadsOK, ForkInv, Forking, ForkLabels,
       StateInv, OnCpuRuns, ProcAssumption, ForkNoMemory, FreeProc, Return
  <2>4. CASE ForkParent(c, p)
    BY <2>4 DEF TableOK, LocksOK, ThreadsOK, ForkInv, Forking, ForkLabels,
       StateInv, OnCpuRuns, ProcAssumption, ForkParent
  <2>5. CASE ForkReady(c, p)
    BY <2>5 DEF TableOK, LocksOK, ThreadsOK, ForkInv, Forking, ForkLabels,
       StateInv, OnCpuRuns, ProcAssumption, ForkReady, Return
  <2> QED
    BY <1>4, <2>1, <2>2, <2>3, <2>4, <2>5 DEF ForkStep
<1>5. CASE ExitStep(c, p)
  <2>1. CASE ExitLock(c, p)
    BY <2>1 DEF TableOK, LocksOK, ThreadsOK, ForkInv, Forking, ForkLabels,
       StateInv, OnCpuRuns, ProcAssumption, ExitLock
  <2>2. CASE ExitPanic(c, p)
    BY <2>2 DEF TableOK, LocksOK, ThreadsOK, ForkInv, Forking, ForkLabels,
       StateInv, OnCpuRuns, ProcAssumption, ExitPanic
  <2>3. CASE ReparentSkip(c, p)
    BY <2>3 DEF TableOK, LocksOK, ThreadsOK, ForkInv, Forking, ForkLabels,
       StateInv, OnCpuRuns, ProcAssumption, ReparentSkip, NextSlot
  <2>4. CASE ReparentChild(c, p)
    BY <2>4 DEF TableOK, LocksOK, ThreadsOK, ForkInv, Forking, ForkLabels,
       StateInv, OnCpuRuns, ProcAssumption, ReparentChild
  <2>5. CASE WakeInit(c, p)
    <3>1. \A s \in Slots : state[s] = "USED" => state'[s] = "USED"
      BY <2>5 DEF WakeInit, WakeOne, TableOK, ThreadsOK
    <3>2. \A s \in Slots : Forking(s)' => Forking(s) /\ i'[s] = i[s]
      BY <2>5 DEF WakeInit, LocksOK, ThreadsOK, Forking, ForkLabels
    <3>3. \A s \in Slots : i[s] \in Slots
      BY DEF ThreadsOK
    <3> QED
      BY <3>1, <3>2, <3>3 DEF ForkInv
  <2>6. CASE WakeParent(c, p)
    BY <2>6 DEF TableOK, LocksOK, ThreadsOK, ForkInv, Forking, ForkLabels,
       StateInv, OnCpuRuns, ProcAssumption, WakeParent, WakeOne, NextWake,
       LastSlot
  <2>7. CASE ExitZombie(c, p)
    BY <2>7 DEF TableOK, LocksOK, ThreadsOK, ForkInv, Forking, ForkLabels,
       StateInv, OnCpuRuns, ProcAssumption, ExitZombie, EnterSched
  <2> QED
    BY <1>5, <2>1, <2>2, <2>3, <2>4, <2>5, <2>6, <2>7 DEF ExitStep
<1>6. CASE WaitStep(c, p)
  BY <1>6 DEF TableOK, LocksOK, ThreadsOK, ForkInv, Forking, ForkLabels,
     StateInv, OnCpuRuns, ProcAssumption, WaitStep, WaitLock, Reap,
     CopyoutFails, WaitScan, WaitGiveUp, WaitGoOn, Sleep, AtZombie, FreeProc,
     Return, NextSlot, HaveKids, EnterSched
<1>7. CASE KillStep(c, p)
  BY <1>7 DEF TableOK, LocksOK, ThreadsOK, ForkInv, Forking, ForkLabels,
     StateInv, OnCpuRuns, ProcAssumption, KillStep, KillFound, KillScan,
     Return, NextSlot
<1> QED
  BY <1>1, <1>2, <1>3, <1>4, <1>5, <1>6, <1>7 DEF Step

\* What is on a CPU runs or leaves it.
LEMMA OnCpuRunsStep ==
  ASSUME ProcAssumption, LocksInv, NEW c \in Cpus, NEW p \in Slots, Step(c, p)
  PROVE  OnCpuRuns'
<1> USE NullNoSlot DEF LocksInv, TypeOK
<1>1. CASE SwitchStep(c, p)
  BY <1>1 DEF TableOK, LocksOK, ThreadsOK, OnCpuRuns, OneCpu, StateInv,
     ForkInv, Forking, ForkLabels, SwitchStep, Dispatch, SwitchOut, Resume,
     Yield, Preempt, EnterSched
<1>2. CASE UserStep(c, p)
  BY <1>2 DEF TableOK, LocksOK, ThreadsOK, OnCpuRuns, OneCpu, StateInv,
     ForkInv, Forking, ForkLabels, UserStep, SysFork, SysExit, SysWait,
     SysKill, TimerInterrupt, Trap, Fault
<1>3. CASE TrapStep(c, p)
  BY <1>3 DEF TableOK, LocksOK, ThreadsOK, OnCpuRuns, OneCpu, StateInv,
     ForkInv, Forking, ForkLabels, TrapStep, ExitKilled, TrapReturn
<1>4. CASE ForkStep(c, p)
  BY <1>4 DEF TableOK, LocksOK, ThreadsOK, OnCpuRuns, OneCpu, StateInv,
     ForkInv, Forking, ForkLabels, ForkStep, ForkScan, ForkAlloc,
     ForkNoMemory, ForkParent, ForkReady, NextSlot, FreeProc, Return
<1>5. CASE ExitStep(c, p)
  BY <1>5 DEF TableOK, LocksOK, ThreadsOK, OnCpuRuns, OneCpu, StateInv,
     ForkInv, Forking, ForkLabels, ExitStep, ExitLock, ExitPanic,
     ReparentSkip, ReparentChild, WakeInit, WakeParent, ExitZombie, NextSlot,
     WakeOne, NextWake, LastSlot, EnterSched
<1>6. CASE WaitStep(c, p)
  BY <1>6 DEF TableOK, LocksOK, ThreadsOK, OnCpuRuns, OneCpu, StateInv,
     ForkInv, Forking, ForkLabels, WaitStep, WaitLock, Reap, CopyoutFails,
     WaitScan, WaitGiveUp, WaitGoOn, Sleep, AtZombie, FreeProc, Return,
     NextSlot, HaveKids, EnterSched
<1>7. CASE KillStep(c, p)
  BY <1>7 DEF TableOK, LocksOK, ThreadsOK, OnCpuRuns, OneCpu, StateInv,
     ForkInv, Forking, ForkLabels, KillStep, KillFound, KillScan, Return,
     NextSlot
<1> QED
  BY <1>1, <1>2, <1>3, <1>4, <1>5, <1>6, <1>7 DEF Step

\* What runs or leaves a CPU is on one.
LEMMA RunsOnCpuStep ==
  ASSUME ProcAssumption, LocksInv, NEW c \in Cpus, NEW p \in Slots, Step(c, p)
  PROVE  RunsOnCpu'
<1> USE NullNoSlot DEF LocksInv, TypeOK
<1>1. CASE SwitchStep(c, p)
  BY <1>1 DEF TableOK, LocksOK, ThreadsOK, RunsOnCpu, OnCpuRuns, StateInv,
     SwitchStep, Dispatch, SwitchOut, Resume, Yield, Preempt, EnterSched
<1>2. CASE UserStep(c, p)
  BY <1>2 DEF TableOK, LocksOK, ThreadsOK, RunsOnCpu, OnCpuRuns, StateInv,
     UserStep, SysFork, SysExit, SysWait, SysKill, TimerInterrupt, Trap, Fault
<1>3. CASE TrapStep(c, p)
  BY <1>3 DEF TableOK, LocksOK, ThreadsOK, RunsOnCpu, OnCpuRuns, StateInv,
     TrapStep, ExitKilled, TrapReturn
<1>4. CASE ForkStep(c, p)
  BY <1>4 DEF TableOK, LocksOK, ThreadsOK, RunsOnCpu, OnCpuRuns, StateInv,
     ForkStep, ForkScan, ForkAlloc, ForkNoMemory, ForkParent, ForkReady,
     NextSlot, FreeProc, Return
<1>5. CASE ExitStep(c, p)
  BY <1>5 DEF TableOK, LocksOK, ThreadsOK, RunsOnCpu, OnCpuRuns, StateInv,
     ExitStep, ExitLock, ExitPanic, ReparentSkip, ReparentChild, WakeInit,
     WakeParent, ExitZombie, NextSlot, WakeOne, NextWake, LastSlot, EnterSched
<1>6. CASE WaitStep(c, p)
  BY <1>6 DEF TableOK, LocksOK, ThreadsOK, RunsOnCpu, OnCpuRuns, StateInv,
     WaitStep, WaitLock, Reap, CopyoutFails, WaitScan, WaitGiveUp, WaitGoOn,
     Sleep, AtZombie, FreeProc, Return, NextSlot, HaveKids, EnterSched
<1>7. CASE KillStep(c, p)
  BY <1>7 DEF TableOK, LocksOK, ThreadsOK, RunsOnCpu, OnCpuRuns, StateInv,
     KillStep, KillFound, KillScan, Return, NextSlot
<1> QED
  BY <1>1, <1>2, <1>3, <1>4, <1>5, <1>6, <1>7 DEF Step

\* No process is on two CPUs.
LEMMA OneCpuStep ==
  ASSUME ProcAssumption, LocksInv, NEW c \in Cpus, NEW p \in Slots, Step(c, p)
  PROVE  OneCpu'
<1> USE NullNoSlot DEF LocksInv, TypeOK
<1>1. CASE SwitchStep(c, p)
  BY <1>1 DEF LocksOK, OneCpu, OnCpuRuns, RunsOnCpu, PlockInv, Free,
     ProcAssumption, StateInv, SwitchStep, Dispatch, SwitchOut, Resume, Yield,
     Preempt, EnterSched
<1>2. CASE UserStep(c, p)
  BY <1>2 DEF LocksOK, OneCpu, OnCpuRuns, RunsOnCpu, PlockInv, Free,
     ProcAssumption, StateInv, UserStep, SysFork, SysExit, SysWait, SysKill,
     TimerInterrupt, Trap, Fault
<1>3. CASE TrapStep(c, p)
  BY <1>3 DEF LocksOK, OneCpu, OnCpuRuns, RunsOnCpu, PlockInv, Free,
     ProcAssumption, StateInv, TrapStep, ExitKilled, TrapReturn
<1>4. CASE ForkStep(c, p)
  BY <1>4 DEF LocksOK, OneCpu, OnCpuRuns, RunsOnCpu, PlockInv, Free,
     ProcAssumption, StateInv, ForkStep, ForkScan, ForkAlloc, ForkNoMemory,
     ForkParent, ForkReady, NextSlot, FreeProc, Return
<1>5. CASE ExitStep(c, p)
  BY <1>5 DEF LocksOK, OneCpu, OnCpuRuns, RunsOnCpu, PlockInv, Free,
     ProcAssumption, StateInv, ExitStep, ExitLock, ExitPanic, ReparentSkip,
     ReparentChild, WakeInit, WakeParent, ExitZombie, NextSlot, WakeOne,
     NextWake, LastSlot, EnterSched
<1>6. CASE WaitStep(c, p)
  BY <1>6 DEF LocksOK, OneCpu, OnCpuRuns, RunsOnCpu, PlockInv, Free,
     ProcAssumption, StateInv, WaitStep, WaitLock, Reap, CopyoutFails,
     WaitScan, WaitGiveUp, WaitGoOn, Sleep, AtZombie, FreeProc, Return,
     NextSlot, HaveKids, EnterSched
<1>7. CASE KillStep(c, p)
  BY <1>7 DEF LocksOK, OneCpu, OnCpuRuns, RunsOnCpu, PlockInv, Free,
     ProcAssumption, StateInv, KillStep, KillFound, KillScan, Return, NextSlot
<1> QED
  BY <1>1, <1>2, <1>3, <1>4, <1>5, <1>6, <1>7 DEF Step

\* p->lock is held across swtch() and nowhere else between steps.
LEMMA PlockInvStep ==
  ASSUME ProcAssumption, LocksInv, NEW c \in Cpus, NEW p \in Slots, Step(c, p)
  PROVE  PlockInv'
<1> USE NullNoSlot DEF LocksInv, TypeOK
<1>1. CASE SwitchStep(c, p)
  BY <1>1 DEF LocksOK, ThreadsOK, PlockInv, OneCpu, OnCpuRuns, StateInv,
     ProcAssumption, Free, Interruptible, SwitchStep, Dispatch, SwitchOut,
     Resume, Yield, Preempt, EnterSched
<1>2. CASE UserStep(c, p)
  BY <1>2 DEF LocksOK, ThreadsOK, PlockInv, OneCpu, OnCpuRuns, StateInv,
     ProcAssumption, Free, Interruptible, UserStep, SysFork, SysExit, SysWait,
     SysKill, TimerInterrupt, Trap, Fault
<1>3. CASE TrapStep(c, p)
  BY <1>3 DEF LocksOK, ThreadsOK, PlockInv, OneCpu, OnCpuRuns, StateInv,
     ProcAssumption, Free, Interruptible, TrapStep, ExitKilled, TrapReturn
<1>4. CASE ForkStep(c, p)
  BY <1>4 DEF LocksOK, ThreadsOK, PlockInv, OneCpu, OnCpuRuns, StateInv,
     ProcAssumption, Free, Interruptible, ForkStep, ForkScan, ForkAlloc,
     ForkNoMemory, ForkParent, ForkReady, NextSlot, FreeProc, Return
<1>5. CASE ExitStep(c, p)
  BY <1>5 DEF LocksOK, ThreadsOK, PlockInv, OneCpu, OnCpuRuns, StateInv,
     ProcAssumption, Free, Interruptible, ExitStep, ExitLock, ExitPanic,
     ReparentSkip, ReparentChild, WakeInit, WakeParent, ExitZombie, NextSlot,
     WakeOne, NextWake, LastSlot, EnterSched
<1>6. CASE WaitStep(c, p)
  BY <1>6 DEF LocksOK, ThreadsOK, PlockInv, OneCpu, OnCpuRuns, StateInv,
     ProcAssumption, Free, Interruptible, WaitStep, WaitLock, Reap,
     CopyoutFails, WaitScan, WaitGiveUp, WaitGoOn, Sleep, AtZombie, FreeProc,
     Return, NextSlot, HaveKids, EnterSched
<1>7. CASE KillStep(c, p)
  BY <1>7 DEF LocksOK, ThreadsOK, PlockInv, OneCpu, OnCpuRuns, StateInv,
     ProcAssumption, Free, Interruptible, KillStep, KillFound, KillScan,
     Return, NextSlot
<1> QED
  BY <1>1, <1>2, <1>3, <1>4, <1>5, <1>6, <1>7 DEF Step

\* Nobody is in the section of wait_lock without it.
LEMMA SectionLockedStep ==
  ASSUME ProcAssumption, LocksInv, NEW c \in Cpus, NEW p \in Slots, Step(c, p)
  PROVE  SectionLocked'
<1> USE NullNoSlot DEF LocksInv, TypeOK
<1>1. CASE SwitchStep(c, p)
  BY <1>1 DEF LocksOK, ThreadsOK, InSection, SectionLocked, WaitLockLabels,
     OneCpu, OnCpuRuns, StateInv, ProcAssumption, Interruptible, SwitchStep,
     Dispatch, SwitchOut, Resume, Yield, Preempt, EnterSched
<1>2. CASE UserStep(c, p)
  BY <1>2 DEF LocksOK, ThreadsOK, InSection, SectionLocked, WaitLockLabels,
     OneCpu, OnCpuRuns, StateInv, ProcAssumption, Interruptible, UserStep,
     SysFork, SysExit, SysWait, SysKill, TimerInterrupt, Trap, Fault
<1>3. CASE TrapStep(c, p)
  BY <1>3 DEF LocksOK, ThreadsOK, InSection, SectionLocked, WaitLockLabels,
     OneCpu, OnCpuRuns, StateInv, ProcAssumption, Interruptible, TrapStep,
     ExitKilled, TrapReturn
<1>4. CASE ForkStep(c, p)
  BY <1>4 DEF LocksOK, ThreadsOK, InSection, SectionLocked, WaitLockLabels,
     OneCpu, OnCpuRuns, StateInv, ProcAssumption, Interruptible, ForkStep,
     ForkScan, ForkAlloc, ForkNoMemory, ForkParent, ForkReady, NextSlot,
     FreeProc, Return
<1>5. CASE ExitStep(c, p)
  BY <1>5 DEF LocksOK, ThreadsOK, InSection, SectionLocked, WaitLockLabels,
     OneCpu, OnCpuRuns, StateInv, ProcAssumption, Interruptible, ExitStep,
     ExitLock, ExitPanic, ReparentSkip, ReparentChild, WakeInit, WakeParent,
     ExitZombie, NextSlot, WakeOne, NextWake, LastSlot, EnterSched
<1>6. CASE WaitStep(c, p)
  BY <1>6 DEF LocksOK, ThreadsOK, InSection, SectionLocked, WaitLockLabels,
     OneCpu, OnCpuRuns, StateInv, ProcAssumption, Interruptible, WaitStep,
     WaitLock, Reap, CopyoutFails, WaitScan, WaitGiveUp, WaitGoOn, Sleep,
     AtZombie, FreeProc, Return, NextSlot, HaveKids, EnterSched
<1>7. CASE KillStep(c, p)
  BY <1>7 DEF LocksOK, ThreadsOK, InSection, SectionLocked, WaitLockLabels,
     OneCpu, OnCpuRuns, StateInv, ProcAssumption, Interruptible, KillStep,
     KillFound, KillScan, Return, NextSlot
<1> QED
  BY <1>1, <1>2, <1>3, <1>4, <1>5, <1>6, <1>7 DEF Step

\* Nobody keeps wait_lock outside its section.
LEMMA LockedInSectionStep ==
  ASSUME ProcAssumption, LocksInv, NEW c \in Cpus, NEW p \in Slots, Step(c, p)
  PROVE  LockedInSection'
<1> USE NullNoSlot DEF LocksInv, TypeOK
<1>1. CASE SwitchStep(c, p)
  BY <1>1 DEF LocksOK, ThreadsOK, InSection, SectionLocked, LockedInSection,
     WaitLockLabels, OneCpu, StateInv, Interruptible, ProcAssumption,
     SwitchStep, Dispatch, SwitchOut, Resume, Yield, Preempt, EnterSched
<1>2. CASE UserStep(c, p)
  BY <1>2 DEF LocksOK, ThreadsOK, InSection, SectionLocked, LockedInSection,
     WaitLockLabels, OneCpu, StateInv, Interruptible, ProcAssumption,
     UserStep, SysFork, SysExit, SysWait, SysKill, TimerInterrupt, Trap, Fault
<1>3. CASE TrapStep(c, p)
  BY <1>3 DEF LocksOK, ThreadsOK, InSection, SectionLocked, LockedInSection,
     WaitLockLabels, OneCpu, StateInv, Interruptible, ProcAssumption,
     TrapStep, ExitKilled, TrapReturn
<1>4. CASE ForkStep(c, p)
  BY <1>4 DEF LocksOK, ThreadsOK, InSection, SectionLocked, LockedInSection,
     WaitLockLabels, OneCpu, StateInv, Interruptible, ProcAssumption,
     ForkStep, ForkScan, ForkAlloc, ForkNoMemory, ForkParent, ForkReady,
     NextSlot, FreeProc, Return
<1>5. CASE ExitStep(c, p)
  BY <1>5 DEF LocksOK, ThreadsOK, InSection, SectionLocked, LockedInSection,
     WaitLockLabels, OneCpu, StateInv, Interruptible, ProcAssumption,
     ExitStep, ExitLock, ExitPanic, ReparentSkip, ReparentChild, WakeInit,
     WakeParent, ExitZombie, NextSlot, WakeOne, NextWake, LastSlot, EnterSched
<1>6. CASE WaitStep(c, p)
  BY <1>6 DEF LocksOK, ThreadsOK, InSection, SectionLocked, LockedInSection,
     WaitLockLabels, OneCpu, StateInv, Interruptible, ProcAssumption,
     WaitStep, WaitLock, Reap, CopyoutFails, WaitScan, WaitGiveUp, WaitGoOn,
     Sleep, AtZombie, FreeProc, Return, NextSlot, HaveKids, EnterSched
<1>7. CASE KillStep(c, p)
  BY <1>7 DEF LocksOK, ThreadsOK, InSection, SectionLocked, LockedInSection,
     WaitLockLabels, OneCpu, StateInv, Interruptible, ProcAssumption,
     KillStep, KillFound, KillScan, Return, NextSlot
<1> QED
  BY <1>1, <1>2, <1>3, <1>4, <1>5, <1>6, <1>7 DEF Step

-----------------------------------------------------------------------------
\* LocksInv is inductive.
LEMMA LocksInit == ASSUME ProcAssumption, Init PROVE LocksInv
<1> USE FirstSlot, NullNoSlot
<1>1. TypeOK /\ ArgInv
  BY DEF Init, TypeOK, TableOK, LocksOK, ThreadsOK, ArgInv, ExitLabels, States,
         Labels, Interruptible, Statuses, Null
<1>2. StateInv /\ ForkInv
  BY DEF Init, StateInv, ForkInv, Forking, ForkLabels
<1>3. OnCpuRuns /\ RunsOnCpu /\ OneCpu
  BY DEF Init, OnCpuRuns, RunsOnCpu, OneCpu
<1>4. PlockInv /\ SectionLocked /\ LockedInSection
  BY DEF Init, PlockInv, SectionLocked, LockedInSection, InSection,
         ProcAssumption
<1> QED
  BY <1>1, <1>2, <1>3, <1>4 DEF LocksInv

\* Every step keeps the locks, the CPUs, the threads and the states in agreement.
LEMMA LocksNext ==
  ASSUME ProcAssumption, LocksInv, [Next]_vars
  PROVE  LocksInv'
<1>1. CASE Next
  <2>1. PICK c \in Cpus, p \in Slots : Step(c, p)
    BY <1>1 DEF Next, Step
  <2>2. TypeOK' /\ ArgInv'
    BY <2>1, TableOKStep, LocksOKStep, ThreadsOKStep, ArgInvStep
       DEF LocksInv, TypeOK
  <2>3. StateInv' /\ ForkInv'
    BY <2>1, StateInvStep, ForkInvStep
  <2>4. OnCpuRuns' /\ RunsOnCpu' /\ OneCpu'
    BY <2>1, OnCpuRunsStep, RunsOnCpuStep, OneCpuStep
  <2>5. PlockInv' /\ SectionLocked' /\ LockedInSection'
    BY <2>1, PlockInvStep, SectionLockedStep, LockedInSectionStep
  <2> QED
    BY <2>2, <2>3, <2>4, <2>5 DEF LocksInv
<1>2. CASE UNCHANGED vars
  BY <1>2 DEF vars, LocksInv, TypeOK, TableOK, LocksOK, ThreadsOK, ArgInv,
              StateInv, ForkInv, Forking, OnCpuRuns, RunsOnCpu, OneCpu,
              PlockInv, SectionLocked, LockedInSection, InSection
<1> QED
  BY <1>1, <1>2

\* The locks, the CPUs and the states of the processes agree in every
\* reachable state, for any number of CPUs and slots.
THEOREM LocksInvariant == Spec => []LocksInv
<1>1. Init => LocksInv
  BY LocksInit, ProcAssumption
<1>2. LocksInv /\ [Next]_vars => LocksInv'
  BY LocksNext, ProcAssumption
<1> QED
  BY <1>1, <1>2, PTL DEF Spec

\* Every variable keeps its type.
THEOREM TypeCorrect == Spec => []TypeOK
<1>1. LocksInv => TypeOK
  BY DEF LocksInv
<1> QED
  BY <1>1, LocksInvariant, PTL

\* sched() never panics, and scheduler() holds no lock between processes.
THEOREM SchedNeverPanics == Spec => []SchedChecks
<1>1. LocksInv => SchedChecks
  <2> SUFFICES ASSUME LocksInv PROVE SchedChecks
    OBVIOUS
  <2> USE NullNoSlot, ProcAssumption DEF LocksInv
  <2>1. ASSUME NEW c \in Cpus, NEW p \in Slots, At(c, p, "swtch")
        PROVE  /\ plock[p] = c /\ waitLock # c
               /\ \A q \in Slots \ {p} : plock[q] # c
               /\ state[p] # "RUNNING"
    BY <2>1 DEF PlockInv, LockedInSection, InSection, WaitLockLabels, StateInv
  <2>2. ASSUME NEW c \in Cpus, cpuProc[c] = Null
        PROVE  waitLock # c /\ \A q \in Slots : plock[q] # c
    BY <2>2 DEF PlockInv, LockedInSection, InSection
  <2> QED
    BY <2>1, <2>2 DEF SchedChecks
<1> QED
  BY <1>1, LocksInvariant, PTL

\* No slot is freed, or filled by fork(), while a CPU is on its stack.
THEOREM StackStaysInUse == Spec => []StackInUse
<1>1. LocksInv => StackInUse
  BY DEF LocksInv, StackInUse, OnCpuRuns, OneCpu, StateInv
<1> QED
  BY <1>1, LocksInvariant, PTL

\* wait_lock is never acquired by a CPU that holds the lock of a process.
THEOREM LockOrderKept == Spec => LockOrder
<1>1. LocksInv /\ [Next]_vars =>
        [waitLock' \in Cpus \ {waitLock} =>
           \A q \in Slots : plock[q] # waitLock']_vars
  <2> SUFFICES ASSUME LocksInv, Next, waitLock' \in Cpus \ {waitLock},
                      NEW q \in Slots
               PROVE  plock[q] # waitLock'
    OBVIOUS
  <2>1. PICK c \in Cpus, p \in Slots : Step(c, p)
    BY DEF Next, Step
  <2>2. ExitLock(c, p) \/ WaitLock(c, p)
    BY <2>1, ProcAssumption
       DEF Step, SwitchStep, Dispatch, SwitchOut, Resume, Yield, Preempt,
           UserStep, SysFork, SysExit, SysWait, SysKill, TimerInterrupt, Trap,
           Fault, TrapStep, ExitKilled, TrapReturn, ForkStep, ForkScan,
           ForkAlloc, ForkNoMemory, ForkParent, ForkReady, ExitStep, ExitPanic,
           ReparentSkip, ReparentChild, WakeInit, WakeParent, ExitZombie,
           WaitStep, Reap, CopyoutFails, WaitScan, WaitGiveUp, WaitGoOn, Sleep,
           KillStep, KillFound, KillScan
  <2>3. waitLock' = c /\ cpuProc[c] = p /\ pc[p] \notin {"swtch", "resume"}
    BY <2>2 DEF ExitLock, WaitLock
  <2> QED
    BY <2>3 DEF LocksInv, PlockInv
<1> QED
  BY <1>1, LocksInvariant, PTL DEF Spec, LockOrder

-----------------------------------------------------------------------------
(***************************************************************************)
(* Proof that wait() and exit() lose no wakeup.  WakeupInv is inductive    *)
(* relative to LocksInv: wait_lock serialises the scan of wait() with what *)
(* an exiting child does, and p->lock the wakeup with going to sleep.      *)
(***************************************************************************)

\* At most one thread is in the section of wait_lock, and it is running.
LEMMA SectionExclusive ==
  ASSUME ProcAssumption, LocksInv, NEW p \in Slots, pc[p] \in WaitLockLabels
  PROVE  /\ state[p] = "RUNNING"
         /\ waitLock # NoCpu
         /\ \A q \in Slots : pc[q] \in WaitLockLabels => q = p
<1>1. \A q \in Slots : pc[q] \in WaitLockLabels =>
        state[q] = "RUNNING" /\ \E c \in Cpus : cpuProc[c] = q
  BY DEF LocksInv, TypeOK, TableOK, WaitLockLabels, StateInv, RunsOnCpu, States
<1>2. \A q \in Slots : pc[q] \in WaitLockLabels =>
        \E c \in Cpus : cpuProc[c] = q /\ waitLock = c
  BY <1>1 DEF SectionLocked, InSection, LocksInv
<1> QED
  BY <1>1, <1>2 DEF ProcAssumption

\* Slots are numbers.
LEMMA SlotsNat == \A q \in Slots : q \in Int /\ 0 <= q /\ q <= NPROC - 1
  BY DEF Slots

\* Outside wakeup() the counter j is 0.
LEMMA WakeCounterStep ==
  ASSUME ProcAssumption, LocksInv, WakeupInv, NEW c \in Cpus, NEW p \in Slots, Step(c, p)
  PROVE  WakeCounter'
<1> USE SlotsNat, NullNoSlot, SectionExclusive
    DEF LocksInv, TypeOK, WakeupInv
<1>1. CASE SwitchStep(c, p)
  BY <1>1 DEF TableOK, LocksOK, ThreadsOK, WakeCounter, StateInv,
     Interruptible, SwitchStep, Dispatch, SwitchOut, Resume, Yield, Preempt,
     EnterSched
<1>2. CASE UserStep(c, p)
  BY <1>2 DEF TableOK, LocksOK, ThreadsOK, WakeCounter, StateInv,
     Interruptible, UserStep, SysFork, SysExit, SysWait, SysKill,
     TimerInterrupt, Trap, Fault
<1>3. CASE TrapStep(c, p)
  BY <1>3 DEF TableOK, LocksOK, ThreadsOK, WakeCounter, StateInv,
     Interruptible, TrapStep, ExitKilled, TrapReturn
<1>4. CASE ForkStep(c, p)
  BY <1>4 DEF TableOK, LocksOK, ThreadsOK, WakeCounter, StateInv,
     Interruptible, ForkStep, ForkScan, ForkAlloc, ForkNoMemory, ForkParent,
     ForkReady, NextSlot, FreeProc, Return
<1>5. CASE ExitStep(c, p)
  BY <1>5 DEF TableOK, LocksOK, ThreadsOK, WakeCounter, StateInv,
     Interruptible, ExitStep, ExitLock, ExitPanic, ReparentSkip,
     ReparentChild, WakeInit, WakeParent, ExitZombie, NextSlot, WakeOne,
     NextWake, LastSlot, EnterSched
<1>6. CASE WaitStep(c, p)
  BY <1>6 DEF TableOK, LocksOK, ThreadsOK, WakeCounter, StateInv,
     Interruptible, WaitStep, WaitLock, Reap, CopyoutFails, WaitScan,
     WaitGiveUp, WaitGoOn, Sleep, AtZombie, FreeProc, Return, NextSlot,
     HaveKids, EnterSched
<1>7. CASE KillStep(c, p)
  BY <1>7 DEF TableOK, LocksOK, ThreadsOK, WakeCounter, StateInv,
     Interruptible, KillStep, KillFound, KillScan, Return, NextSlot
<1> QED
  BY <1>1, <1>2, <1>3, <1>4, <1>5, <1>6, <1>7 DEF Step

\* Outside the loops over the table the counter i is 0.
LEMMA LoopCounterStep ==
  ASSUME ProcAssumption, LocksInv, WakeupInv, NEW c \in Cpus, NEW p \in Slots, Step(c, p)
  PROVE  LoopCounter'
<1> USE SlotsNat, NullNoSlot, SectionExclusive
    DEF LocksInv, TypeOK, WakeupInv
<1>1. CASE SwitchStep(c, p)
  <2>1. CASE Dispatch(c, p)
    BY <2>1 DEF LocksOK, ThreadsOK, LoopCounter, LoopLabels, StateInv,
       Interruptible, ProcAssumption, Dispatch
  <2>2. CASE SwitchOut(c, p)
    BY <2>2 DEF LocksOK, ThreadsOK, LoopCounter, LoopLabels, StateInv,
       Interruptible, ProcAssumption, SwitchOut
  <2>3. CASE Resume(c, p)
    BY <2>3 DEF LocksOK, ThreadsOK, LoopCounter, LoopLabels, StateInv,
       Interruptible, ProcAssumption, Resume
  <2>4. CASE Yield(c, p)
    BY <2>4 DEF LocksOK, ThreadsOK, LoopCounter, LoopLabels, StateInv,
       Interruptible, ProcAssumption, Yield, EnterSched
  <2>5. CASE Preempt(c, p)
    BY <2>5 DEF LocksOK, ThreadsOK, LoopCounter, LoopLabels, StateInv,
       Interruptible, ProcAssumption, Preempt, EnterSched
  <2> QED
    BY <1>1, <2>1, <2>2, <2>3, <2>4, <2>5 DEF SwitchStep
<1>2. CASE UserStep(c, p)
  BY <1>2 DEF LocksOK, ThreadsOK, LoopCounter, LoopLabels, StateInv,
     Interruptible, ProcAssumption, UserStep, SysFork, SysExit, SysWait,
     SysKill, TimerInterrupt, Trap, Fault
<1>3. CASE TrapStep(c, p)
  BY <1>3 DEF LocksOK, ThreadsOK, LoopCounter, LoopLabels, StateInv,
     Interruptible, ProcAssumption, TrapStep, ExitKilled, TrapReturn
<1>4. CASE ForkStep(c, p)
  BY <1>4 DEF LocksOK, ThreadsOK, LoopCounter, LoopLabels, StateInv,
     Interruptible, ProcAssumption, ForkStep, ForkScan, ForkAlloc,
     ForkNoMemory, ForkParent, ForkReady, NextSlot, FreeProc, Return
<1>5. CASE ExitStep(c, p)
  BY <1>5 DEF LocksOK, ThreadsOK, LoopCounter, LoopLabels, StateInv,
     Interruptible, ProcAssumption, ExitStep, ExitLock, ExitPanic,
     ReparentSkip, ReparentChild, WakeInit, WakeParent, ExitZombie, NextSlot,
     WakeOne, NextWake, LastSlot, EnterSched
<1>6. CASE WaitStep(c, p)
  BY <1>6 DEF LocksOK, ThreadsOK, LoopCounter, LoopLabels, StateInv,
     Interruptible, ProcAssumption, WaitStep, WaitLock, Reap, CopyoutFails,
     WaitScan, WaitGiveUp, WaitGoOn, Sleep, AtZombie, FreeProc, Return,
     NextSlot, HaveKids, EnterSched
<1>7. CASE KillStep(c, p)
  BY <1>7 DEF LocksOK, ThreadsOK, LoopCounter, LoopLabels, StateInv,
     Interruptible, ProcAssumption, KillStep, KillFound, KillScan, Return,
     NextSlot
<1> QED
  BY <1>1, <1>2, <1>3, <1>4, <1>5, <1>6, <1>7 DEF Step

\* A parent that was woken by an exiting child does not sleep before the child
\* is a zombie.
LEMMA ParentToldStep ==
  ASSUME ProcAssumption, LocksInv, WakeupInv, NEW c \in Cpus, NEW p \in Slots, Step(c, p)
  PROVE  ParentTold'
<1> USE SlotsNat, NullNoSlot, SectionExclusive
    DEF LocksInv, TypeOK, WakeupInv
<1>1. CASE SwitchStep(c, p)
  <2>1. CASE Dispatch(c, p)
    BY <2>1 DEF TableOK, LocksOK, ThreadsOK, WakeCounter, ParentTold,
       AsleepInWait, WaitLockLabels, StateInv, Interruptible, Dispatch
  <2>2. CASE SwitchOut(c, p)
    BY <2>2 DEF TableOK, LocksOK, ThreadsOK, WakeCounter, ParentTold,
       AsleepInWait, WaitLockLabels, StateInv, Interruptible, SwitchOut
  <2>3. CASE Resume(c, p)
    BY <2>3 DEF TableOK, LocksOK, ThreadsOK, WakeCounter, ParentTold,
       AsleepInWait, WaitLockLabels, StateInv, Interruptible, Resume
  <2>4. CASE Yield(c, p)
    BY <2>4 DEF TableOK, LocksOK, ThreadsOK, WakeCounter, ParentTold,
       AsleepInWait, WaitLockLabels, StateInv, Interruptible, Yield,
       EnterSched
  <2>5. CASE Preempt(c, p)
    BY <2>5 DEF TableOK, LocksOK, ThreadsOK, WakeCounter, ParentTold,
       AsleepInWait, WaitLockLabels, StateInv, Interruptible, Preempt,
       EnterSched
  <2> QED
    BY <1>1, <2>1, <2>2, <2>3, <2>4, <2>5 DEF SwitchStep
<1>2. CASE UserStep(c, p)
  BY <1>2 DEF TableOK, LocksOK, ThreadsOK, WakeCounter, ParentTold,
     AsleepInWait, WaitLockLabels, StateInv, Interruptible, UserStep, SysFork,
     SysExit, SysWait, SysKill, TimerInterrupt, Trap, Fault
<1>3. CASE TrapStep(c, p)
  BY <1>3 DEF TableOK, LocksOK, ThreadsOK, WakeCounter, ParentTold,
     AsleepInWait, WaitLockLabels, StateInv, Interruptible, TrapStep,
     ExitKilled, TrapReturn
<1>4. CASE ForkStep(c, p)
  <2>1. CASE ForkScan(c, p)
    BY <2>1 DEF TableOK, LocksOK, ThreadsOK, WakeCounter, ParentTold,
       AsleepInWait, WaitLockLabels, StateInv, Interruptible, ForkScan,
       NextSlot
  <2>2. CASE ForkAlloc(c, p)
    BY <2>2 DEF TableOK, LocksOK, ThreadsOK, WakeCounter, ParentTold,
       AsleepInWait, WaitLockLabels, StateInv, Interruptible, ForkAlloc
  <2>3. CASE ForkNoMemory(c, p)
    BY <2>3 DEF TableOK, LocksOK, ThreadsOK, WakeCounter, ParentTold,
       AsleepInWait, WaitLockLabels, StateInv, Interruptible, ForkNoMemory,
       FreeProc, Return
  <2>4. CASE ForkParent(c, p)
    BY <2>4 DEF TableOK, LocksOK, ThreadsOK, WakeCounter, ParentTold,
       AsleepInWait, WaitLockLabels, StateInv, Interruptible, ForkParent
  <2>5. CASE ForkReady(c, p)
    BY <2>5 DEF TableOK, LocksOK, ThreadsOK, WakeCounter, ParentTold,
       AsleepInWait, WaitLockLabels, StateInv, Interruptible, ForkReady,
       Return
  <2> QED
    BY <1>4, <2>1, <2>2, <2>3, <2>4, <2>5 DEF ForkStep
<1>5. CASE ExitStep(c, p)
  <2>1. CASE ExitLock(c, p)
    BY <2>1 DEF TableOK, LocksOK, ThreadsOK, WakeCounter, ParentTold,
       AsleepInWait, WaitLockLabels, StateInv, Interruptible, ExitLock
  <2>2. CASE ExitPanic(c, p)
    BY <2>2 DEF TableOK, LocksOK, ThreadsOK, WakeCounter, ParentTold,
       AsleepInWait, WaitLockLabels, StateInv, Interruptible, ExitPanic
  <2>3. CASE ReparentSkip(c, p)
    BY <2>3 DEF TableOK, LocksOK, ThreadsOK, WakeCounter, ParentTold,
       AsleepInWait, WaitLockLabels, StateInv, Interruptible, ReparentSkip,
       NextSlot
  <2>4. CASE ReparentChild(c, p)
    BY <2>4 DEF TableOK, LocksOK, ThreadsOK, WakeCounter, ParentTold,
       AsleepInWait, WaitLockLabels, StateInv, Interruptible, ReparentChild
  <2>5. CASE WakeInit(c, p)
    BY <2>5 DEF TableOK, LocksOK, ThreadsOK, WakeCounter, ParentTold,
       AsleepInWait, WaitLockLabels, StateInv, Interruptible, WakeInit,
       WakeOne, NextWake, LastSlot
  <2>6. CASE WakeParent(c, p)
    <3> SUFFICES ASSUME NEW s \in Slots, NEW q \in Slots, parent[q] = s,
                        \/ pc'[q] = "zombie"
                        \/ pc'[q] = "wakeParent" /\ j'[q] > s
                 PROVE  ~(state'[s] = "SLEEPING" /\ chan[s] = s)
      BY <2>6 DEF ParentTold, AsleepInWait, WakeParent
    <3>1. q = p
      BY <2>6 DEF WakeParent, ThreadsOK, WaitLockLabels
    <3>2. state'[s] = "SLEEPING" => state[s] = "SLEEPING"
      BY <2>6 DEF WakeParent, WakeOne, TableOK, ThreadsOK
    <3>3. state[p] = "RUNNING"
      BY <2>6 DEF WakeParent, WaitLockLabels
    <3>4. CASE j[p] = s
      BY <2>6, <3>1, <3>2, <3>3, <3>4 DEF WakeParent, WakeOne, TableOK
    <3>5. CASE j[p] > s
      BY <2>6, <3>1, <3>2, <3>5 DEF WakeParent, ParentTold, AsleepInWait
    <3>6. CASE j[p] < s
      <4>1. j[p] \in Slots
        BY DEF ThreadsOK
      <4>2. ~LastSlot(p)
        BY <3>6, <4>1 DEF LastSlot
      <4>3. pc'[p] = "wakeParent" /\ j'[p] = j[p] + 1
        BY <2>6, <4>2 DEF WakeParent, NextWake, ThreadsOK
      <4> QED
        BY <3>1, <3>6, <4>1, <4>3
    <3>7. j[p] \in Slots
      BY DEF ThreadsOK
    <3> QED
      BY <3>4, <3>5, <3>6, <3>7
  <2>7. CASE ExitZombie(c, p)
    BY <2>7 DEF TableOK, LocksOK, ThreadsOK, WakeCounter, ParentTold,
       AsleepInWait, WaitLockLabels, StateInv, Interruptible, ExitZombie,
       EnterSched
  <2> QED
    BY <1>5, <2>1, <2>2, <2>3, <2>4, <2>5, <2>6, <2>7 DEF ExitStep
<1>6. CASE WaitStep(c, p)
  BY <1>6 DEF TableOK, LocksOK, ThreadsOK, WakeCounter, ParentTold,
     AsleepInWait, WaitLockLabels, StateInv, Interruptible, WaitStep,
     WaitLock, Reap, CopyoutFails, WaitScan, WaitGiveUp, WaitGoOn, Sleep,
     AtZombie, FreeProc, Return, NextSlot, HaveKids, EnterSched
<1>7. CASE KillStep(c, p)
  BY <1>7 DEF TableOK, LocksOK, ThreadsOK, WakeCounter, ParentTold,
     AsleepInWait, WaitLockLabels, StateInv, Interruptible, KillStep,
     KillFound, KillScan, Return, NextSlot
<1> QED
  BY <1>1, <1>2, <1>3, <1>4, <1>5, <1>6, <1>7 DEF Step

\* No zombie child appears behind the scan of wait().
LEMMA ScanInvStep ==
  ASSUME ProcAssumption, LocksInv, WakeupInv, NEW c \in Cpus, NEW p \in Slots, Step(c, p)
  PROVE  ScanInv'
<1> USE SlotsNat, NullNoSlot, SectionExclusive
    DEF LocksInv, TypeOK, WakeupInv
<1>1. CASE SwitchStep(c, p)
  <2>1. CASE Dispatch(c, p)
    BY <2>1 DEF TableOK, LocksOK, ThreadsOK, ScanInv, WaitLockLabels,
       StateInv, Interruptible, Dispatch
  <2>2. CASE SwitchOut(c, p)
    BY <2>2 DEF TableOK, LocksOK, ThreadsOK, ScanInv, WaitLockLabels,
       StateInv, Interruptible, SwitchOut
  <2>3. CASE Resume(c, p)
    BY <2>3 DEF TableOK, LocksOK, ThreadsOK, ScanInv, WaitLockLabels,
       StateInv, Interruptible, Resume
  <2>4. CASE Yield(c, p)
    BY <2>4 DEF TableOK, LocksOK, ThreadsOK, ScanInv, WaitLockLabels,
       StateInv, Interruptible, Yield, EnterSched
  <2>5. CASE Preempt(c, p)
    BY <2>5 DEF TableOK, LocksOK, ThreadsOK, ScanInv, WaitLockLabels,
       StateInv, Interruptible, Preempt, EnterSched
  <2> QED
    BY <1>1, <2>1, <2>2, <2>3, <2>4, <2>5 DEF SwitchStep
<1>2. CASE UserStep(c, p)
  BY <1>2 DEF TableOK, LocksOK, ThreadsOK, ScanInv, WaitLockLabels, StateInv,
     Interruptible, UserStep, SysFork, SysExit, SysWait, SysKill,
     TimerInterrupt, Trap, Fault
<1>3. CASE TrapStep(c, p)
  BY <1>3 DEF TableOK, LocksOK, ThreadsOK, ScanInv, WaitLockLabels, StateInv,
     Interruptible, TrapStep, ExitKilled, TrapReturn
<1>4. CASE ForkStep(c, p)
  BY <1>4 DEF TableOK, LocksOK, ThreadsOK, ScanInv, WaitLockLabels, StateInv,
     Interruptible, ForkStep, ForkScan, ForkAlloc, ForkNoMemory, ForkParent,
     ForkReady, NextSlot, FreeProc, Return
<1>5. CASE ExitStep(c, p)
  BY <1>5 DEF TableOK, LocksOK, ThreadsOK, ScanInv, WaitLockLabels, StateInv,
     Interruptible, ExitStep, ExitLock, ExitPanic, ReparentSkip,
     ReparentChild, WakeInit, WakeParent, ExitZombie, NextSlot, WakeOne,
     NextWake, LastSlot, EnterSched
<1>6. CASE WaitStep(c, p)
  <2>1. CASE WaitLock(c, p)
    <3>1. i[p] = 0
      BY <2>1 DEF LoopCounter, LoopLabels, WaitLock
    <3> QED
      BY <2>1, <3>1 DEF TableOK, ThreadsOK, ScanInv, WaitLock
  <2>2. CASE Reap(c, p)
    BY <2>2 DEF TableOK, LocksOK, ThreadsOK, ScanInv, WaitLockLabels,
       StateInv, Interruptible, Reap, AtZombie, FreeProc, Return
  <2>3. CASE CopyoutFails(c, p)
    BY <2>3 DEF TableOK, LocksOK, ThreadsOK, ScanInv, WaitLockLabels,
       StateInv, Interruptible, CopyoutFails, AtZombie, Return
  <2>4. CASE WaitScan(c, p)
    <3> SUFFICES ASSUME NEW s \in Slots, NEW q \in Slots, parent[q] = s,
                        \/ pc'[s] \in {"waitKilled", "sleep"}
                        \/ pc'[s] = "scan" /\ q < i'[s]
                 PROVE  state[q] # "ZOMBIE"
      BY <2>4 DEF ScanInv, WaitScan
    <3>1. CASE s # p
      BY <2>4, <3>1 DEF ScanInv, WaitScan, NextSlot, ThreadsOK
    <3>2. CASE s = p
      <4>1. CASE q < i[p]
        BY <2>4, <3>2, <4>1 DEF ScanInv, WaitScan
      <4>2. CASE q = i[p]
        BY <2>4, <3>2, <4>2 DEF WaitScan
      <4>3. i[p] \in Slots
        BY DEF ThreadsOK
      <4>4. CASE i[p] + 1 < NPROC
        <5>1. pc'[p] = "scan" /\ i'[p] = i[p] + 1
          BY <2>4, <4>4 DEF WaitScan, NextSlot, ThreadsOK
        <5> QED
          BY <3>2, <4>1, <4>2, <4>3, <5>1
      <4>5. CASE ~(i[p] + 1 < NPROC)
        BY <4>1, <4>2, <4>3, <4>5, ProcAssumption DEF ProcAssumption
      <4> QED
        BY <4>4, <4>5
    <3> QED
      BY <3>1, <3>2
  <2>5. CASE WaitGiveUp(c, p)
    BY <2>5 DEF TableOK, LocksOK, ThreadsOK, ScanInv, WaitLockLabels,
       StateInv, Interruptible, WaitGiveUp, Return, HaveKids
  <2>6. CASE WaitGoOn(c, p)
    BY <2>6 DEF TableOK, LocksOK, ThreadsOK, ScanInv, WaitLockLabels,
       StateInv, Interruptible, WaitGoOn, HaveKids
  <2>7. CASE Sleep(c, p)
    BY <2>7 DEF TableOK, LocksOK, ThreadsOK, ScanInv, WaitLockLabels,
       StateInv, Interruptible, Sleep, EnterSched
  <2> QED
    BY <1>6, <2>1, <2>2, <2>3, <2>4, <2>5, <2>6, <2>7 DEF WaitStep
<1>7. CASE KillStep(c, p)
  BY <1>7 DEF TableOK, LocksOK, ThreadsOK, ScanInv, WaitLockLabels, StateInv,
     Interruptible, KillStep, KillFound, KillScan, Return, NextSlot
<1> QED
  BY <1>1, <1>2, <1>3, <1>4, <1>5, <1>6, <1>7 DEF Step

\* No parent sleeps with a zombie child, but for the first process during a
\* wakeup.
LEMMA SleeperInvStep ==
  ASSUME ProcAssumption, LocksInv, WakeupInv, NEW c \in Cpus, NEW p \in Slots, Step(c, p)
  PROVE  SleeperInv'
<1> USE SlotsNat, NullNoSlot, SectionExclusive
    DEF LocksInv, TypeOK, WakeupInv
<1>1. CASE SwitchStep(c, p)
  <2>1. CASE Dispatch(c, p)
    BY <2>1 DEF TableOK, LocksOK, ThreadsOK, SleeperInv, AsleepInWait,
       WaitLockLabels, StateInv, ScanInv, ParentTold, Interruptible,
       WakeCounter, initproc, Dispatch
  <2>2. CASE SwitchOut(c, p)
    BY <2>2 DEF TableOK, LocksOK, ThreadsOK, SleeperInv, AsleepInWait,
       WaitLockLabels, StateInv, ScanInv, ParentTold, Interruptible,
       WakeCounter, initproc, SwitchOut
  <2>3. CASE Resume(c, p)
    BY <2>3 DEF TableOK, LocksOK, ThreadsOK, SleeperInv, AsleepInWait,
       WaitLockLabels, StateInv, ScanInv, ParentTold, Interruptible,
       WakeCounter, initproc, Resume
  <2>4. CASE Yield(c, p)
    BY <2>4 DEF TableOK, LocksOK, ThreadsOK, SleeperInv, AsleepInWait,
       WaitLockLabels, StateInv, ScanInv, ParentTold, Interruptible,
       WakeCounter, initproc, Yield, EnterSched
  <2>5. CASE Preempt(c, p)
    BY <2>5 DEF TableOK, LocksOK, ThreadsOK, SleeperInv, AsleepInWait,
       WaitLockLabels, StateInv, ScanInv, ParentTold, Interruptible,
       WakeCounter, initproc, Preempt, EnterSched
  <2> QED
    BY <1>1, <2>1, <2>2, <2>3, <2>4, <2>5 DEF SwitchStep
<1>2. CASE UserStep(c, p)
  BY <1>2 DEF TableOK, LocksOK, ThreadsOK, SleeperInv, AsleepInWait,
     WaitLockLabels, StateInv, ScanInv, ParentTold, Interruptible,
     WakeCounter, initproc, UserStep, SysFork, SysExit, SysWait, SysKill,
     TimerInterrupt, Trap, Fault
<1>3. CASE TrapStep(c, p)
  BY <1>3 DEF TableOK, LocksOK, ThreadsOK, SleeperInv, AsleepInWait,
     WaitLockLabels, StateInv, ScanInv, ParentTold, Interruptible,
     WakeCounter, initproc, TrapStep, ExitKilled, TrapReturn
<1>4. CASE ForkStep(c, p)
  BY <1>4 DEF TableOK, LocksOK, ThreadsOK, SleeperInv, AsleepInWait,
     WaitLockLabels, StateInv, ScanInv, ParentTold, Interruptible,
     WakeCounter, initproc, ForkStep, ForkScan, ForkAlloc, ForkNoMemory,
     ForkParent, ForkReady, NextSlot, FreeProc, Return
<1>5. CASE ExitStep(c, p)
  <2>1. CASE ExitLock(c, p)
    BY <2>1 DEF TableOK, LocksOK, ThreadsOK, SleeperInv, AsleepInWait,
       WaitLockLabels, StateInv, ScanInv, ParentTold, Interruptible,
       WakeCounter, initproc, ExitLock
  <2>2. CASE ExitPanic(c, p)
    BY <2>2 DEF TableOK, LocksOK, ThreadsOK, SleeperInv, AsleepInWait,
       WaitLockLabels, StateInv, ScanInv, ParentTold, Interruptible,
       WakeCounter, initproc, ExitPanic
  <2>3. CASE ReparentSkip(c, p)
    BY <2>3 DEF TableOK, LocksOK, ThreadsOK, SleeperInv, AsleepInWait,
       WaitLockLabels, StateInv, ScanInv, ParentTold, Interruptible,
       WakeCounter, initproc, ReparentSkip, NextSlot
  <2>4. CASE ReparentChild(c, p)
    BY <2>4 DEF TableOK, LocksOK, ThreadsOK, SleeperInv, AsleepInWait,
       WaitLockLabels, StateInv, ScanInv, ParentTold, Interruptible,
       WakeCounter, initproc, ReparentChild
  <2>5. CASE WakeInit(c, p)
    BY <2>5 DEF TableOK, LocksOK, ThreadsOK, SleeperInv, AsleepInWait,
       WaitLockLabels, StateInv, ScanInv, ParentTold, Interruptible,
       WakeCounter, initproc, WakeInit, WakeOne, NextWake, LastSlot
  <2>6. CASE WakeParent(c, p)
    BY <2>6 DEF TableOK, LocksOK, ThreadsOK, SleeperInv, AsleepInWait,
       WaitLockLabels, StateInv, ScanInv, ParentTold, Interruptible,
       WakeCounter, initproc, WakeParent, WakeOne, NextWake, LastSlot
  <2>7. CASE ExitZombie(c, p)
    BY <2>7 DEF TableOK, LocksOK, ThreadsOK, SleeperInv, AsleepInWait,
       WaitLockLabels, StateInv, ScanInv, ParentTold, Interruptible,
       WakeCounter, initproc, ExitZombie, EnterSched
  <2> QED
    BY <1>5, <2>1, <2>2, <2>3, <2>4, <2>5, <2>6, <2>7 DEF ExitStep
<1>6. CASE WaitStep(c, p)
  <2>1. CASE WaitLock(c, p)
    BY <2>1 DEF TableOK, LocksOK, ThreadsOK, SleeperInv, AsleepInWait,
       WaitLockLabels, StateInv, ScanInv, ParentTold, Interruptible,
       WakeCounter, initproc, WaitLock
  <2>2. CASE Reap(c, p)
    BY <2>2 DEF TableOK, LocksOK, ThreadsOK, SleeperInv, AsleepInWait,
       WaitLockLabels, StateInv, ScanInv, ParentTold, Interruptible,
       WakeCounter, initproc, Reap, AtZombie, FreeProc, Return
  <2>3. CASE CopyoutFails(c, p)
    BY <2>3 DEF TableOK, LocksOK, ThreadsOK, SleeperInv, AsleepInWait,
       WaitLockLabels, StateInv, ScanInv, ParentTold, Interruptible,
       WakeCounter, initproc, CopyoutFails, AtZombie, Return
  <2>4. CASE WaitScan(c, p)
    BY <2>4 DEF TableOK, LocksOK, ThreadsOK, SleeperInv, AsleepInWait,
       WaitLockLabels, StateInv, ScanInv, ParentTold, Interruptible,
       WakeCounter, initproc, WaitScan, NextSlot
  <2>5. CASE WaitGiveUp(c, p)
    BY <2>5 DEF TableOK, LocksOK, ThreadsOK, SleeperInv, AsleepInWait,
       WaitLockLabels, StateInv, ScanInv, ParentTold, Interruptible,
       WakeCounter, initproc, WaitGiveUp, Return, HaveKids
  <2>6. CASE WaitGoOn(c, p)
    BY <2>6 DEF TableOK, LocksOK, ThreadsOK, SleeperInv, AsleepInWait,
       WaitLockLabels, StateInv, ScanInv, ParentTold, Interruptible,
       WakeCounter, initproc, WaitGoOn, HaveKids
  <2>7. CASE Sleep(c, p)
    BY <2>7 DEF TableOK, LocksOK, ThreadsOK, SleeperInv, AsleepInWait,
       WaitLockLabels, StateInv, ScanInv, ParentTold, Interruptible,
       WakeCounter, initproc, Sleep, EnterSched
  <2> QED
    BY <1>6, <2>1, <2>2, <2>3, <2>4, <2>5, <2>6, <2>7 DEF WaitStep
<1>7. CASE KillStep(c, p)
  BY <1>7 DEF TableOK, LocksOK, ThreadsOK, SleeperInv, AsleepInWait,
     WaitLockLabels, StateInv, ScanInv, ParentTold, Interruptible,
     WakeCounter, initproc, KillStep, KillFound, KillScan, Return, NextSlot
<1> QED
  BY <1>1, <1>2, <1>3, <1>4, <1>5, <1>6, <1>7 DEF Step

-----------------------------------------------------------------------------
\* In the beginning nobody waits,
LEMMA WakeupInit == ASSUME ProcAssumption, Init PROVE WakeupInv
<1>1. WakeCounter /\ LoopCounter
  BY DEF Init, WakeCounter, LoopCounter
<1>2. ParentTold /\ ScanInv /\ SleeperInv
  BY NullNoSlot DEF Init, ParentTold, ScanInv, SleeperInv
<1> QED
  BY <1>1, <1>2 DEF WakeupInv

\* and every step keeps sleepers over zombies accounted for.
LEMMA WakeupNext ==
  ASSUME ProcAssumption, LocksInv, WakeupInv, [Next]_vars
  PROVE  WakeupInv'
<1>1. CASE Next
  <2>1. PICK c \in Cpus, p \in Slots : Step(c, p)
    BY <1>1 DEF Next, Step
  <2> QED
    BY <2>1, WakeCounterStep, LoopCounterStep, ParentToldStep, ScanInvStep,
       SleeperInvStep DEF WakeupInv
<1>2. CASE UNCHANGED vars
  BY <1>2 DEF vars, WakeupInv, WakeCounter, LoopCounter, ParentTold, ScanInv,
              SleeperInv, AsleepInWait
<1> QED
  BY <1>1, <1>2

\* The locks agree, and the scans and wakeups under wait_lock miss nobody.
THEOREM WakeupInvariant == Spec => [](LocksInv /\ WakeupInv)
<1>1. Init => LocksInv /\ WakeupInv
  BY LocksInit, WakeupInit, ProcAssumption
<1>2. LocksInv /\ WakeupInv /\ [Next]_vars => (LocksInv /\ WakeupInv)'
  BY LocksNext, WakeupNext, ProcAssumption
<1> QED
  BY <1>1, <1>2, PTL DEF Spec

\* No wakeup is lost: while nobody holds wait_lock, no process sleeps in
\* wait() over a zombie child.
THEOREM NoWakeupLost == Spec => []NoLostWakeup
<1>1. LocksInv /\ WakeupInv => NoLostWakeup
  <2> SUFFICES ASSUME LocksInv, WakeupInv, waitLock = NoCpu, NEW p \in Slots, NEW q \in Slots,
                      AsleepInWait(p), parent[q] = p, state[q] = "ZOMBIE"
               PROVE  FALSE
    BY DEF NoLostWakeup
  <2>1. PICK r \in Slots : pc[r] = "wakeInit"
    BY DEF WakeupInv, SleeperInv
  <2> QED
    BY <2>1, SectionExclusive, ProcAssumption DEF WaitLockLabels
<1> QED
  BY <1>1, WakeupInvariant, PTL

-----------------------------------------------------------------------------
(***************************************************************************)
(* Proofs about who is whose parent: no parent has exited (ParentAlive),   *)
(* and the process table implements the process tree (TreeSpec).           *)
(***************************************************************************)

\* The steps that matter to the tree

\* The steps that change pids, parents, or whether a process is there.
TreeStep(c, p) ==
  \/ ForkAlloc(c, p) \/ ForkNoMemory(c, p) \/ ForkParent(c, p) \/ ForkReady(c, p)
  \/ ExitLock(c, p) \/ ReparentChild(c, p) \/ ExitZombie(c, p) \/ Reap(c, p)

\* All others leave the tree alone: they only make a process that is alive
\* run, sleep or wake, and lead an exiting one through exit().
Quiet ==
  /\ UNCHANGED <<pid, parent, xstate, nextpid>>
  /\ \A q \in Slots : state'[q] # state[q] => {state[q], state'[q]} \subseteq Alive
  /\ \A q \in Slots : q \in Exiting <=> q \in Exiting'
  /\ \A q \in Exiting : arg'[q] = arg[q]

\* Steps that are none of the tree's leave alone what the tree is made of.
LEMMA QuietSteps ==
  ASSUME ProcAssumption, LocksInv, NEW c \in Cpus, NEW p \in Slots, Step(c, p),
         ~TreeStep(c, p)
  PROVE  Quiet
<1> USE FirstSlot DEF LocksInv, TypeOK, Quiet, Exiting, Alive, TreeStep
<1>1. CASE SwitchStep(c, p)
  BY <1>1 DEF TableOK, LocksOK, ThreadsOK, StateInv, OnCpuRuns, Labels,
     Interruptible, ProcAssumption, SwitchStep, Dispatch, SwitchOut, Resume,
     Yield, Preempt, EnterSched
<1>2. CASE UserStep(c, p)
  BY <1>2 DEF TableOK, LocksOK, ThreadsOK, StateInv, OnCpuRuns, Labels,
     Interruptible, ProcAssumption, UserStep, SysFork, SysExit, SysWait,
     SysKill, TimerInterrupt, Trap, Fault
<1>3. CASE TrapStep(c, p)
  BY <1>3 DEF TableOK, LocksOK, ThreadsOK, StateInv, OnCpuRuns, Labels,
     Interruptible, ProcAssumption, TrapStep, ExitKilled, TrapReturn
<1>4. CASE ForkStep(c, p)
  BY <1>4 DEF TableOK, LocksOK, ThreadsOK, StateInv, OnCpuRuns, Labels,
     Interruptible, ProcAssumption, ForkStep, ForkScan, NextSlot
<1>5. CASE ExitStep(c, p)
  BY <1>5 DEF TableOK, LocksOK, ThreadsOK, StateInv, OnCpuRuns, Labels,
     Interruptible, ProcAssumption, ExitStep, ExitPanic, ReparentSkip,
     WakeInit, WakeParent, NextSlot, WakeOne, LastSlot
<1>6. CASE WaitStep(c, p)
  BY <1>6 DEF TableOK, LocksOK, ThreadsOK, StateInv, OnCpuRuns, Labels,
     Interruptible, ProcAssumption, WaitStep, WaitLock, CopyoutFails,
     WaitScan, WaitGiveUp, WaitGoOn, Sleep, AtZombie, Return, NextSlot,
     HaveKids, EnterSched
<1>7. CASE KillStep(c, p)
  BY <1>7 DEF TableOK, LocksOK, ThreadsOK, StateInv, OnCpuRuns, Labels,
     Interruptible, ProcAssumption, KillStep, KillFound, KillScan, Return,
     NextSlot
<1> QED
  BY <1>1, <1>2, <1>3, <1>4, <1>5, <1>6, <1>7 DEF Step

-----------------------------------------------------------------------------
\* TreeInv is inductive, relative to LocksInv.

\* A slot that fork() fills is not the first process's, and no other fork()
\* has it.
LEMMA InitprocStep ==
  ASSUME ProcAssumption, LocksInv, TreeInv, NEW c \in Cpus, NEW p \in Slots,
         Step(c, p)
  PROVE  InitprocInv'
<1> USE FirstSlot, NullNoSlot
    DEF LocksInv, TypeOK, TableOK, ThreadsOK, TreeInv, InitprocInv, Alive, Exiting
<1>1. CASE ~TreeStep(c, p)
  BY <1>1, QuietSteps DEF Quiet
<1>2. CASE ForkAlloc(c, p)
  BY <1>2 DEF ForkAlloc
<1>3. CASE ForkNoMemory(c, p)
  BY <1>3 DEF ForkNoMemory, FreeProc, Return
<1>4. CASE ForkParent(c, p)
  BY <1>4 DEF ForkParent, ForkInv, Forking, ForkLabels
<1>5. CASE ForkReady(c, p)
  BY <1>5 DEF ForkReady, Return
<1>6. CASE ExitLock(c, p)
  BY <1>6 DEF ExitLock
<1>7. CASE ReparentChild(c, p)
  BY <1>7 DEF ReparentChild
<1>8. CASE ExitZombie(c, p)
  BY <1>8 DEF ExitZombie, EnterSched
<1>9. CASE Reap(c, p)
  BY <1>9 DEF Reap, AtZombie, FreeProc, Return
<1> QED
  BY <1>1, <1>2, <1>3, <1>4, <1>5, <1>6, <1>7, <1>8, <1>9 DEF TreeStep

\* pids stay different, positive, and below nextpid.
LEMMA PidStep ==
  ASSUME ProcAssumption, LocksInv, TreeInv, NEW c \in Cpus, NEW p \in Slots,
         Step(c, p)
  PROVE  PidInv'
<1> USE FirstSlot, NullNoSlot
    DEF LocksInv, TypeOK, TableOK, ThreadsOK, TreeInv, PidInv, Alive
<1>1. CASE ~TreeStep(c, p)
  BY <1>1, QuietSteps DEF Quiet
<1>2. CASE ForkAlloc(c, p)
  BY <1>2 DEF ForkAlloc, InitprocInv
<1>3. CASE ForkNoMemory(c, p)
  BY <1>3 DEF ForkNoMemory, FreeProc
<1>4. CASE ForkParent(c, p)
  BY <1>4 DEF ForkParent
<1>5. CASE ForkReady(c, p)
  BY <1>5 DEF ForkReady, ForkInv, Forking, ForkLabels
<1>6. CASE ExitLock(c, p)
  BY <1>6 DEF ExitLock
<1>7. CASE ReparentChild(c, p)
  BY <1>7 DEF ReparentChild
<1>8. CASE ExitZombie(c, p)
  BY <1>8 DEF ExitZombie, EnterSched, RunsOnCpu, OnCpuRuns, LocksOK
<1>9. CASE Reap(c, p)
  BY <1>9 DEF Reap, AtZombie, FreeProc
<1> QED
  BY <1>1, <1>2, <1>3, <1>4, <1>5, <1>6, <1>7, <1>8, <1>9 DEF TreeStep

\* A thread in the loops of exit() only moves by a step of exit(),
LEMMA ExitingStay ==
  ASSUME ProcAssumption, LocksInv, NEW c \in Cpus, NEW p \in Slots, Step(c, p),
         ~ExitStep(c, p), NEW q \in Slots, pc'[q] \in WaitLockLabels, q \in Exiting'
  PROVE  pc'[q] = pc[q] /\ i'[q] = i[q]
<1> USE FirstSlot DEF LocksInv, TypeOK, Exiting, WaitLockLabels
<1>1. CASE SwitchStep(c, p)
  BY <1>1 DEF ThreadsOK, Interruptible, ProcAssumption, SwitchStep, Dispatch,
     SwitchOut, Resume, Yield, Preempt, EnterSched
<1>2. CASE UserStep(c, p)
  BY <1>2 DEF ThreadsOK, Interruptible, ProcAssumption, UserStep, SysFork,
     SysExit, SysWait, SysKill, TimerInterrupt, Trap, Fault
<1>3. CASE TrapStep(c, p)
  BY <1>3 DEF ThreadsOK, Interruptible, ProcAssumption, TrapStep, ExitKilled,
     TrapReturn
<1>4. CASE ForkStep(c, p)
  BY <1>4 DEF ThreadsOK, Interruptible, ProcAssumption, ForkStep, ForkScan,
     ForkAlloc, ForkNoMemory, ForkParent, ForkReady, NextSlot, Return
<1>5. CASE WaitStep(c, p)
  BY <1>5 DEF ThreadsOK, Interruptible, ProcAssumption, WaitStep, WaitLock,
     Reap, CopyoutFails, WaitScan, WaitGiveUp, WaitGoOn, Sleep, AtZombie,
     Return, NextSlot, EnterSched
<1>6. CASE KillStep(c, p)
  BY <1>6 DEF ThreadsOK, Interruptible, ProcAssumption, KillStep, KillFound,
     KillScan, Return, NextSlot
<1> QED
  BY <1>1, <1>2, <1>3, <1>4, <1>5, <1>6 DEF Step

\* and one in fork() by a step of fork(), unless it is preempted.
LEMMA ForkingStay ==
  ASSUME ProcAssumption, LocksInv, NEW c \in Cpus, NEW p \in Slots, Step(c, p),
         ~ForkStep(c, p), NEW q \in Slots, NEW l \in ForkLabels, IsAt(q, l)'
  PROVE  IsAt(q, l) /\ i'[q] = i[q]
<1> USE FirstSlot DEF LocksInv, TypeOK, ForkLabels, IsAt
<1>1. CASE SwitchStep(c, p)
  BY <1>1 DEF ThreadsOK, StateInv, OnCpuRuns, Interruptible, ProcAssumption,
     SwitchStep, Dispatch, SwitchOut, Resume, Yield, Preempt, EnterSched
<1>2. CASE UserStep(c, p)
  BY <1>2 DEF ThreadsOK, StateInv, OnCpuRuns, Interruptible, ProcAssumption,
     UserStep, SysFork, SysExit, SysWait, SysKill, TimerInterrupt, Trap, Fault
<1>3. CASE TrapStep(c, p)
  BY <1>3 DEF ThreadsOK, StateInv, OnCpuRuns, Interruptible, ProcAssumption,
     TrapStep, ExitKilled, TrapReturn
<1>4. CASE ExitStep(c, p)
  BY <1>4 DEF ThreadsOK, StateInv, OnCpuRuns, Interruptible, ProcAssumption,
     ExitStep, ExitLock, ExitPanic, ReparentSkip, ReparentChild, WakeInit,
     WakeParent, ExitZombie, NextSlot, LastSlot, EnterSched
<1>5. CASE WaitStep(c, p)
  BY <1>5 DEF ThreadsOK, StateInv, OnCpuRuns, Interruptible, ProcAssumption,
     WaitStep, WaitLock, Reap, CopyoutFails, WaitScan, WaitGiveUp, WaitGoOn,
     Sleep, AtZombie, Return, NextSlot, EnterSched
<1>6. CASE KillStep(c, p)
  BY <1>6 DEF ThreadsOK, StateInv, OnCpuRuns, Interruptible, ProcAssumption,
     KillStep, KillFound, KillScan, Return, NextSlot
<1> QED
  BY <1>1, <1>2, <1>3, <1>4, <1>5, <1>6 DEF Step

\* A scan that has not reached slot b yet has a next slot.
LEMMA SlotAhead ==
  ASSUME ProcAssumption, NEW a \in Slots, NEW b \in Slots, b >= a, b # a
  PROVE  b > a /\ b >= a + 1 /\ a + 1 < NPROC
  BY DEF Slots, ProcAssumption

\* A child's parent is there, and an exiting one has its children ahead of it.
LEMMA ChildStep ==
  ASSUME ProcAssumption, LocksInv, TreeInv, NEW c \in Cpus, NEW p \in Slots,
         Step(c, p)
  PROVE  ChildInv'
<1> USE FirstSlot, NullNoSlot, SlotsNat
    DEF LocksInv, TypeOK, TableOK, ThreadsOK, TreeInv, ChildInv
<1>1. CASE ~TreeStep(c, p) /\ ~ExitStep(c, p)
  <2> SUFFICES ASSUME NEW s \in Slots, NEW q \in Slots, parent'[q] = s
               PROVE  /\ state'[s] \in Alive
                      /\ state'[q] # "UNUSED"
                      /\ pc'[s] \notin {"wakeParent", "zombie"}
                      /\ pc'[s] = "reparent" => q >= i'[s]
                      /\ pc'[s] = "wakeInit" => q > i'[s]
    OBVIOUS
  <2>1. Quiet
    BY <1>1, QuietSteps
  <2>2. pc'[s] \in {"reparent", "wakeInit", "wakeParent", "zombie"} =>
          pc'[s] = pc[s] /\ i'[s] = i[s]
    BY <1>1, ExitingStay DEF Exiting, WaitLockLabels
  <2> QED
    BY <2>1, <2>2 DEF Quiet, Alive
<1>2. CASE ExitPanic(c, p)
  BY <1>2 DEF ExitPanic
<1>3. CASE ReparentSkip(c, p)
  <2> SUFFICES ASSUME NEW s \in Slots, NEW q \in Slots, parent[q] = s
               PROVE  /\ pc'[s] \notin {"wakeParent", "zombie"}
                      /\ pc'[s] = "reparent" => q >= i'[s]
                      /\ pc'[s] = "wakeInit" => q > i'[s]
    BY <1>3 DEF ReparentSkip
  <2>1. CASE s # p
    BY <1>3, <2>1 DEF ReparentSkip, NextSlot
  <2>2. CASE s = p
    <3>1. q >= i[p] /\ q # i[p] /\ i[p] \in Slots
      BY <1>3, <2>2 DEF ReparentSkip
    <3>2. q >= i[p] + 1 /\ i[p] + 1 < NPROC
      BY <3>1, SlotAhead
    <3>3. pc'[p] = "reparent" /\ i'[p] = i[p] + 1
      BY <1>3, <3>2 DEF ReparentSkip, NextSlot
    <3> QED
      BY <2>2, <3>2, <3>3
  <2> QED
    BY <2>1, <2>2
<1>4. CASE WakeInit(c, p)
  <2> SUFFICES ASSUME NEW s \in Slots, NEW q \in Slots, parent[q] = s
               PROVE  /\ state'[s] \in Alive
                      /\ state'[q] # "UNUSED"
                      /\ pc'[s] \notin {"wakeParent", "zombie"}
                      /\ pc'[s] = "reparent" => q >= i'[s]
                      /\ pc'[s] = "wakeInit" => q > i'[s]
    BY <1>4 DEF WakeInit
  <2>1. state'[s] \in Alive /\ state'[q] # "UNUSED"
    BY <1>4 DEF WakeInit, WakeOne, Alive
  <2>2. CASE s # p
    BY <1>4, <2>1, <2>2 DEF WakeInit
  <2>3. CASE s = p
    <3>1. q > i[p]
      BY <1>4, <2>3 DEF WakeInit
    <3>2. i[p] + 1 < NPROC
      BY <3>1, ProcAssumption DEF ProcAssumption
    <3>3. CASE LastSlot(p)
      <4>1. pc'[p] = "reparent" /\ i'[p] = i[p] + 1
        BY <1>4, <3>2, <3>3 DEF WakeInit
      <4> QED
        BY <2>1, <2>3, <3>1, <4>1
    <3>4. CASE ~LastSlot(p)
      BY <1>4, <2>1, <2>3, <3>1, <3>4 DEF WakeInit
    <3> QED
      BY <3>3, <3>4
  <2> QED
    BY <2>2, <2>3
<1>5. CASE WakeParent(c, p)
  <2>1. \A q \in Slots : parent[q] # p
    BY <1>5 DEF WakeParent
  <2> QED
    BY <1>5, <2>1 DEF WakeParent, WakeOne, Alive
<1>6. CASE ForkAlloc(c, p)
  BY <1>6 DEF ForkAlloc, Alive
<1>7. CASE ForkNoMemory(c, p)
  BY <1>7 DEF ForkNoMemory, FreeProc, Return, Alive
<1>8. CASE ForkParent(c, p)
  <2>1. state[p] \in Alive
    <3>1. state[p] \in States /\ pc[p] = "forkParent"
      BY <1>8 DEF ForkParent
    <3> QED
      BY <3>1 DEF StateInv, States, Alive
  <2>2. state[i[p]] = "USED"
    BY <1>8 DEF ForkParent, ForkInv, Forking, ForkLabels
  <2> QED
    BY <1>8, <2>1, <2>2 DEF ForkParent
<1>9. CASE ForkReady(c, p)
  BY <1>9 DEF ForkReady, Return, Alive
<1>10. CASE ExitLock(c, p)
  BY <1>10 DEF ExitLock
<1>11. CASE ReparentChild(c, p)
  <2> SUFFICES ASSUME NEW s \in Slots, NEW q \in Slots, parent'[q] = s
               PROVE  /\ state[s] \in Alive
                      /\ state[q] # "UNUSED"
                      /\ pc'[s] \notin {"wakeParent", "zombie"}
                      /\ pc'[s] = "reparent" => q >= i'[s]
                      /\ pc'[s] = "wakeInit" => q > i'[s]
    BY <1>11 DEF ReparentChild
  <2>1. p # initproc /\ initproc \notin Exiting
    BY <1>11 DEF ReparentChild, InitprocInv, Exiting
  <2>2. CASE q = i[p]
    <3>1. s = initproc /\ pc'[s] = pc[s]
      BY <1>11, <2>1, <2>2 DEF ReparentChild
    <3> QED
      BY <1>11, <2>1, <2>2, <3>1 DEF ReparentChild, InitprocInv, Exiting
  <2>3. CASE q # i[p]
    <3>1. parent[q] = s
      BY <1>11, <2>3 DEF ReparentChild
    <3>2. CASE s = p
      <4>1. q >= i[p] /\ i[p] \in Slots
        BY <1>11, <3>1, <3>2 DEF ReparentChild
      <4>2. q > i[p]
        BY <2>3, <4>1, SlotAhead
      <4> QED
        BY <1>11, <3>1, <3>2, <4>2 DEF ReparentChild
    <3>3. CASE s # p
      BY <1>11, <3>1, <3>3 DEF ReparentChild
    <3> QED
      BY <3>2, <3>3
  <2> QED
    BY <2>2, <2>3
<1>12. CASE ExitZombie(c, p)
  <2>1. \A q \in Slots : parent[q] # p
    BY <1>12 DEF ExitZombie
  <2> QED
    BY <1>12, <2>1 DEF ExitZombie, EnterSched
<1>13. CASE Reap(c, p)
  BY <1>13 DEF Reap, AtZombie, FreeProc, Return, Alive
<1> QED
  BY <1>1, <1>2, <1>3, <1>4, <1>5, <1>6, <1>7, <1>8, <1>9, <1>10, <1>11, <1>12,
     <1>13 DEF TreeStep, ExitStep

\* Who is or was alive, but for the first process, has a parent.
LEMMA ParentedStep ==
  ASSUME ProcAssumption, LocksInv, TreeInv, NEW c \in Cpus, NEW p \in Slots,
         Step(c, p)
  PROVE  ParentedInv'
<1> USE FirstSlot, NullNoSlot
    DEF LocksInv, TypeOK, TableOK, ThreadsOK, TreeInv, ParentedInv, Alive
<1>1. CASE ~TreeStep(c, p)
  BY <1>1, QuietSteps DEF Quiet
<1>2. CASE ForkAlloc(c, p)
  BY <1>2 DEF ForkAlloc
<1>3. CASE ForkNoMemory(c, p)
  BY <1>3 DEF ForkNoMemory, FreeProc
<1>4. CASE ForkParent(c, p)
  BY <1>4 DEF ForkParent
<1>5. CASE ForkReady(c, p)
  BY <1>5 DEF ForkReady, ForkParentInv, IsAt
<1>6. CASE ExitLock(c, p)
  BY <1>6 DEF ExitLock
<1>7. CASE ReparentChild(c, p)
  BY <1>7 DEF ReparentChild
<1>8. CASE ExitZombie(c, p)
  <2>1. state[p] = "RUNNING" \/ state[p] \in Alive
    BY <1>8 DEF ExitZombie, StateInv, OnCpuRuns, LocksOK
  <2> QED
    BY <1>8, <2>1 DEF ExitZombie, EnterSched
<1>9. CASE Reap(c, p)
  BY <1>9 DEF Reap, AtZombie, FreeProc
<1> QED
  BY <1>1, <1>2, <1>3, <1>4, <1>5, <1>6, <1>7, <1>8, <1>9 DEF TreeStep

\* The slot that fork() fills has no parent before ForkParent, and then the
\* forking process.
LEMMA ForkParentStep ==
  ASSUME ProcAssumption, LocksInv, TreeInv, NEW c \in Cpus, NEW p \in Slots,
         Step(c, p)
  PROVE  ForkParentInv'
<1> USE FirstSlot, NullNoSlot
    DEF LocksInv, TypeOK, TableOK, ThreadsOK, TreeInv, ForkParentInv
<1>1. CASE ~ForkStep(c, p)
  <2> SUFFICES ASSUME NEW q \in Slots, NEW l \in ForkLabels, IsAt(q, l)'
               PROVE  parent'[i[q]] = parent[i[q]] /\ IsAt(q, l) /\ i'[q] = i[q]
    BY DEF ForkLabels
  <2>1. IsAt(q, l) /\ i'[q] = i[q]
    BY <1>1, ForkingStay
  <2>2. state[i[q]] = "USED" /\ parent[i[q]] \in {Null, q}
    BY <2>1 DEF ForkInv, Forking, IsAt, ForkLabels
  <2>3. CASE ReparentChild(c, p)
    BY <2>1, <2>2, <2>3 DEF ReparentChild, IsAt, ForkLabels
  <2>4. CASE Reap(c, p)
    <3>1. i[p] # i[q] /\ i[q] \in Slots
      BY <2>2, <2>4 DEF Reap, AtZombie
    <3> QED
      BY <2>1, <2>4, <3>1 DEF Reap, FreeProc
  <2>5. CASE ~ReparentChild(c, p) /\ ~Reap(c, p)
    <3>1. CASE ExitLock(c, p) \/ ExitZombie(c, p)
      BY <2>1, <3>1 DEF ExitLock, ExitZombie
    <3>2. CASE ~TreeStep(c, p)
      BY <2>1, <3>2, QuietSteps DEF Quiet
    <3> QED
      BY <1>1, <2>5, <3>1, <3>2 DEF TreeStep, ForkStep
  <2> QED
    BY <2>1, <2>3, <2>4, <2>5
<1>2. CASE ForkScan(c, p)
  BY <1>2 DEF ForkScan, NextSlot, IsAt
<1>3. CASE ForkAlloc(c, p)
  <2>1. parent[i[p]] = Null
    BY <1>3 DEF ForkAlloc, ChildInv
  <2>2. \A q \in Slots : Forking(q) => i[q] # i[p]
    BY <1>3 DEF ForkAlloc, ForkInv
  <2> QED
    BY <1>3, <2>1, <2>2 DEF ForkAlloc, IsAt, StateInv
<1>4. CASE ForkNoMemory(c, p)
  BY <1>4 DEF ForkNoMemory, FreeProc, Return, IsAt, ForkInv, Forking, ForkLabels
<1>5. CASE ForkParent(c, p)
  BY <1>5 DEF ForkParent, IsAt, ForkInv, Forking, ForkLabels
<1>6. CASE ForkReady(c, p)
  BY <1>6 DEF ForkReady, Return, IsAt
<1> QED
  BY <1>1, <1>2, <1>3, <1>4, <1>5, <1>6 DEF ForkStep

\* The first process is alone, and its own parent.
LEMMA TreeInit == ASSUME ProcAssumption, Init PROVE TreeInv
<1> USE FirstSlot, NullNoSlot
<1>1. InitprocInv
  BY DEF Init, InitprocInv, Alive, Exiting
<1>2. PidInv
  BY DEF Init, PidInv
<1>3. ChildInv /\ ParentedInv
  BY DEF Init, ChildInv, ParentedInv, Alive
<1>4. ForkParentInv
  BY DEF Init, ForkParentInv, IsAt
<1> QED
  BY <1>1, <1>2, <1>3, <1>4 DEF TreeInv

\* Every step keeps parents in the table and pids apart.
LEMMA TreeNext ==
  ASSUME ProcAssumption, LocksInv, TreeInv, [Next]_vars
  PROVE  TreeInv'
<1>1. CASE Next
  <2>1. PICK c \in Cpus, p \in Slots : Step(c, p)
    BY <1>1 DEF Next, Step
  <2> QED
    BY <2>1, InitprocStep, PidStep, ChildStep, ParentedStep, ForkParentStep
       DEF TreeInv
<1>2. CASE UNCHANGED vars
  BY <1>2 DEF vars, TreeInv, InitprocInv, PidInv, ChildInv, ParentedInv,
              ForkParentInv, IsAt, Exiting
<1> QED
  BY <1>1, <1>2

-----------------------------------------------------------------------------
\* The whole inductive invariant of the process table: the locks agree, no
\* wakeup is missed, and the tree is one.
THEOREM Invariant == Spec => []IInv
<1>1. Init => TreeInv
  BY TreeInit, ProcAssumption
<1>2. (LocksInv /\ WakeupInv) /\ TreeInv /\ [Next]_vars => TreeInv'
  BY TreeNext, ProcAssumption
<1>3. (LocksInv /\ WakeupInv) /\ TreeInv => IInv
  BY DEF IInv
<1> QED
  BY <1>1, <1>2, <1>3, WakeupInvariant, PTL DEF Spec

\* While nobody holds wait_lock, no process is the child of a free slot or of
\* a zombie, and each but the first has a parent.
THEOREM ParentsAlive == Spec => []ParentAlive
<1>1. IInv => ParentAlive
  <2> SUFFICES ASSUME IInv, NEW q \in Slots
               PROVE  /\ parent[q] # Null =>
                           state[parent[q]] \notin {"UNUSED", "USED", "ZOMBIE"}
                      /\ state[q] \in {"RUNNABLE", "RUNNING", "SLEEPING", "ZOMBIE"}
                           /\ q # initproc => parent[q] # Null
    BY DEF ParentAlive
  <2>1. parent[q] \in Slots \cup {Null}
    BY DEF IInv, LocksInv, TypeOK, TableOK
  <2> QED
    BY <2>1 DEF IInv, TreeInv, ChildInv, ParentedInv, Alive
<1> QED
  BY <1>1, Invariant, PTL

-----------------------------------------------------------------------------
\* The process table implements ProcTree.  The variables of the tree, as
\* ProcProps gets them from the table:
StatusOf(p) == IF p \in Exiting THEN arg[p] ELSE xstate[p]

Live     == PidsOf(InTree \ TreeZombies)
Status   == [n \in PidsOf(TreeZombies) |-> StatusOf(SlotOf(n))]
ParentOf == [n \in PidsOf(InTree \ {initproc}) |-> pid[TreeParent(SlotOf(n))]]

\* A process in the tree has a slot in use, and a pid of its own by which the
\* tree knows it; its parent is in the tree too, and not a zombie.
MapInv ==
  /\ \A p \in InTree : state[p] # "UNUSED" /\ SlotOf(pid[p]) = p
  /\ \A p \in InTree, q \in Slots : pid[q] = pid[p] => q = p
  /\ initproc \in InTree \ TreeZombies /\ pid[initproc] = 1
  /\ \A p \in InTree \ {initproc} : TreeParent(p) \in InTree \ TreeZombies
  /\ Exiting # {} => waitLock # NoCpu
  /\ \A p, q \in Exiting : p = q

\* What the mapping needs to know of a state.
LEMMA MapInvHolds == ASSUME ProcAssumption, IInv PROVE MapInv
<1> USE FirstSlot, NullNoSlot DEF IInv, TreeInv
<1>1. \A p \in InTree : p \in Slots /\ state[p] # "UNUSED"
  BY DEF InTree, ChildInv, InitprocInv, Alive, LocksInv, TypeOK, TableOK
<1>2. \A p \in InTree, q \in Slots : pid[q] = pid[p] => q = p
  BY <1>1 DEF PidInv
<1>3. \A p \in InTree : SlotOf(pid[p]) = p
  <2> TAKE p \in InTree
  <2>1. \A q \in InTree : pid[q] = pid[p] => q = p
    BY <1>1, <1>2
  <2>2. \E q \in InTree : pid[q] = pid[p]
    OBVIOUS
  <2> QED
    BY <2>1, <2>2 DEF SlotOf
<1>4. initproc \in InTree \ TreeZombies /\ pid[initproc] = 1
  BY DEF InTree, TreeZombies, InitprocInv, Alive
<1>5. /\ Exiting # {} => waitLock # NoCpu
      /\ \A p, q \in Exiting : p = q
  BY SectionExclusive DEF Exiting, WaitLockLabels
<1>6. \A p \in InTree \ {initproc} : TreeParent(p) \in InTree \ TreeZombies
  <2> TAKE p \in InTree \ {initproc}
  <2>1. p \in Slots /\ parent[p] \in Slots
    BY DEF InTree, LocksInv, TypeOK, TableOK
  <2>2. CASE parent[p] \in Exiting
    BY <1>4, <2>2 DEF TreeParent
  <2>3. CASE parent[p] \notin Exiting
    <3>1. state[parent[p]] \in Alive
      BY <2>1 DEF ChildInv
    <3>2. parent[p] \in InTree
      BY <2>1, <3>1 DEF InTree, ParentedInv
    <3> QED
      BY <2>3, <3>1, <3>2 DEF TreeParent, TreeZombies, Alive
  <2> QED
    BY <2>2, <2>3
<1> QED
  BY <1>1, <1>2, <1>3, <1>4, <1>5, <1>6 DEF MapInv

\* The table with the first process is the tree with its root.
LEMMA TreeInitMaps == ASSUME ProcAssumption, Init, MapInv PROVE Tree!Init
<1>1. InTree = {initproc} /\ TreeZombies = {}
  BY FirstSlot DEF Init, InTree, TreeZombies, Exiting
<1>2. Live = {1} /\ PidsOf(TreeZombies) = {} /\ PidsOf(InTree \ {initproc}) = {}
  BY <1>1, FirstSlot DEF Init, Live, PidsOf
<1> QED
  BY <1>2 DEF Tree!Init, Live

\* A step that keeps every process where it is in the tree is a stutter of it.
LEMMA SameTree ==
  ASSUME MapInv, MapInv',
         InTree' = InTree, TreeZombies' = TreeZombies,
         \A p \in InTree : pid'[p] = pid[p],
         \A p \in TreeZombies : StatusOf(p)' = StatusOf(p),
         \A p \in InTree \ {initproc} : TreeParent(p)' = TreeParent(p)
  PROVE  UNCHANGED Tree!vars
<1>1. Live' = Live
  BY DEF Live, PidsOf
<1>2. Status' = Status
  <2>1. PidsOf(TreeZombies)' = PidsOf(TreeZombies)
    BY DEF PidsOf, TreeZombies
  <2>2. ASSUME NEW n \in PidsOf(TreeZombies)
        PROVE  StatusOf(SlotOf(n))' = StatusOf(SlotOf(n))
    <3>1. PICK p \in TreeZombies : n = pid[p]
      BY DEF PidsOf
    <3>2. p \in InTree
      BY DEF TreeZombies
    <3>3. SlotOf(n) = p /\ SlotOf(n)' = p
      BY <3>1, <3>2 DEF MapInv
    <3> QED
      BY <3>3 DEF StatusOf
  <2> QED
    BY <2>1, <2>2 DEF Status
<1>3. ParentOf' = ParentOf
  <2>1. PidsOf(InTree \ {initproc})' = PidsOf(InTree \ {initproc})
    BY DEF PidsOf
  <2>2. ASSUME NEW n \in PidsOf(InTree \ {initproc})
        PROVE  pid[TreeParent(SlotOf(n))]' = pid[TreeParent(SlotOf(n))]
    <3>1. PICK p \in InTree \ {initproc} : n = pid[p]
      BY DEF PidsOf
    <3>2. SlotOf(n) = p /\ SlotOf(n)' = p
      BY <3>1 DEF MapInv
    <3> QED
      BY <3>1, <3>2 DEF MapInv, TreeParent
  <2> QED
    BY <2>1, <2>2 DEF ParentOf
<1> QED
  BY <1>1, <1>2, <1>3 DEF Tree!vars, Live, Status, StatusOf, ParentOf

\* What the mapped variables say of a process in the tree.
LEMMA MappedValues ==
  ASSUME MapInv
  PROVE  /\ Status \in [PidsOf(TreeZombies) -> {StatusOf(p) : p \in TreeZombies}]
         /\ \A p \in TreeZombies : Status[pid[p]] = StatusOf(p)
         /\ \A p \in InTree \ {initproc} : ParentOf[pid[p]] = pid[TreeParent(p)]
<1>1. \A p \in TreeZombies : p \in InTree /\ pid[p] \in PidsOf(TreeZombies)
  BY DEF TreeZombies, PidsOf
<1>2. \A p \in TreeZombies : Status[pid[p]] = StatusOf(p)
  BY <1>1 DEF MapInv, Status
<1>3. \A p \in InTree \ {initproc} : ParentOf[pid[p]] = pid[TreeParent(p)]
  BY DEF MapInv, ParentOf, PidsOf
<1>4. \A n \in PidsOf(TreeZombies) : \E p \in TreeZombies : SlotOf(n) = p
  BY <1>1 DEF PidsOf, MapInv
<1> QED
  BY <1>2, <1>3, <1>4 DEF Status

\* np->parent = p puts the child in the tree.
LEMMA ForkMaps ==
  ASSUME MapInv, MapInv', NEW p \in InTree \ TreeZombies, NEW q \in Slots \ InTree,
         pid[q] \in Nat, InTree' = InTree \cup {q}, TreeZombies' = TreeZombies,
         pid' = pid, parent' = [parent EXCEPT ![q] = p],
         Exiting' = Exiting, arg' = arg, xstate' = xstate
  PROVE  Tree!Fork(pid[p], pid[q])
<1> USE DEF MapInv
<1>1. pid[p] \in Live /\ pid[q] \notin PidsOf(InTree)
  BY DEF Live, PidsOf
<1>2. pid[q] \notin Live /\ pid[q] \notin DOMAIN Status
  BY <1>1 DEF Live, Status, PidsOf, TreeZombies
<1>3. Live' = Live \cup {pid[q]}
  <2>1. InTree' \ TreeZombies' = (InTree \ TreeZombies) \cup {q}
    BY DEF TreeZombies
  <2> QED
    BY <2>1 DEF Live, PidsOf
<1>4. Status' = Status
  <2>1. ASSUME NEW n \in PidsOf(TreeZombies)
        PROVE  StatusOf(SlotOf(n))' = StatusOf(SlotOf(n))
    <3>1. PICK r \in TreeZombies : n = pid[r]
      BY DEF PidsOf
    <3>2. SlotOf(n) = r /\ SlotOf(n)' = r
      BY <3>1 DEF TreeZombies
    <3> QED
      BY <3>2 DEF StatusOf
  <2>2. PidsOf(TreeZombies)' = PidsOf(TreeZombies)
    BY DEF PidsOf
  <2> QED
    BY <2>1, <2>2 DEF Status
<1>5. ParentOf' = [n \in DOMAIN ParentOf \cup {pid[q]} |->
                     IF n = pid[q] THEN pid[p] ELSE ParentOf[n]]
  <2>1. DOMAIN ParentOf' = DOMAIN ParentOf \cup {pid[q]}
    <3>1. (InTree \ {initproc})' = (InTree \ {initproc}) \cup {q}
      OBVIOUS
    <3> QED
      BY <3>1 DEF ParentOf, PidsOf
  <2>2. ASSUME NEW r \in InTree' \ {initproc}
        PROVE  ParentOf'[pid[r]] =
                 IF pid[r] = pid[q] THEN pid[p] ELSE ParentOf[pid[r]]
    <3>1. ParentOf'[pid[r]] = pid[TreeParent(r)']
      BY DEF ParentOf, PidsOf
    <3>2. CASE r = q
      BY <3>1, <3>2 DEF TreeParent, InTree, TreeZombies
    <3>3. CASE r # q
      <4>1. r \in InTree \ {initproc} /\ pid[r] # pid[q]
        BY <3>3
      <4>2. TreeParent(r)' = TreeParent(r)
        BY <3>3 DEF TreeParent
      <4> QED
        BY <3>1, <4>1, <4>2, MappedValues
    <3> QED
      BY <3>2, <3>3
  <2>3. \A n \in DOMAIN ParentOf' : \E r \in InTree' \ {initproc} : n = pid[r]
    BY DEF ParentOf, PidsOf
  <2>4. ParentOf' = [n \in DOMAIN ParentOf' |-> ParentOf'[n]]
    BY DEF ParentOf
  <2> QED
    BY <2>1, <2>2, <2>3, <2>4
<1> QED
  BY <1>1, <1>2, <1>3, <1>4, <1>5
     DEF Tree!Fork, Tree!Extend, Tree!Zombies, Live, Status, StatusOf, ParentOf

\* exit() takes effect when p acquires wait_lock.
LEMMA ExitMaps ==
  ASSUME MapInv, MapInv', NEW p \in InTree \ (TreeZombies \cup {initproc}),
         Exiting = {}, Exiting' = {p}, arg[p] \in Statuses,
         parent \in [Slots -> Slots \cup {Null}],
         UNCHANGED <<state, pid, parent, xstate, arg>>
  PROVE  Tree!Exit(pid[p], arg[p])
<1> USE DEF MapInv
<1>1. InTree' = InTree /\ TreeZombies' = TreeZombies \cup {p}
  BY DEF InTree, TreeZombies
<1>2. pid[p] \in Live \ {1}
  BY DEF Live, PidsOf, InTree
<1>3. Live' = Live \ {pid[p]}
  BY <1>1 DEF Live, PidsOf, InTree
<1>4. Status' = [n \in DOMAIN Status \cup {pid[p]} |->
                   IF n = pid[p] THEN arg[p] ELSE Status[n]]
  <2>1. DOMAIN Status' = DOMAIN Status \cup {pid[p]}
    BY <1>1 DEF Status, PidsOf
  <2>2. ASSUME NEW r \in TreeZombies'
        PROVE  Status'[pid[r]] = IF pid[r] = pid[p] THEN arg[p] ELSE Status[pid[r]]
    <3>1. r \in InTree /\ pid[r] \in PidsOf(TreeZombies)'
      BY <1>1 DEF TreeZombies, PidsOf
    <3>2. Status'[pid[r]] = StatusOf(r)'
      BY <1>1, <3>1 DEF Status
    <3>3. CASE r = p
      BY <3>2, <3>3 DEF StatusOf
    <3>4. CASE r # p
      <4>1. r \in TreeZombies /\ pid[r] # pid[p]
        BY <1>1, <3>1, <3>4 DEF InTree
      <4>2. Status[pid[r]] = StatusOf(r)
        BY <4>1, MappedValues
      <4> QED
        BY <3>2, <3>4, <4>1, <4>2 DEF StatusOf
    <3> QED
      BY <3>3, <3>4
  <2>3. \A n \in DOMAIN Status' : \E r \in TreeZombies' : n = pid[r]
    BY DEF Status, PidsOf
  <2>4. Status' = [n \in DOMAIN Status' |-> Status'[n]]
    BY DEF Status
  <2> QED
    BY <2>1, <2>2, <2>3, <2>4
<1>5. ParentOf' = [n \in DOMAIN ParentOf |->
                     IF ParentOf[n] = pid[p] THEN 1 ELSE ParentOf[n]]
  <2>1. DOMAIN ParentOf' = DOMAIN ParentOf
    BY <1>1 DEF ParentOf, PidsOf
  <2>2. ASSUME NEW r \in InTree \ {initproc}
        PROVE  ParentOf'[pid[r]] =
                 IF ParentOf[pid[r]] = pid[p] THEN 1 ELSE ParentOf[pid[r]]
    <3>1. ParentOf'[pid[r]] = pid[TreeParent(r)']
      BY <1>1 DEF ParentOf, PidsOf
    <3>2. ParentOf[pid[r]] = pid[parent[r]] /\ parent[r] \in InTree
      BY MappedValues DEF TreeParent
    <3>3. TreeParent(r)' = IF parent[r] = p THEN initproc ELSE parent[r]
      BY DEF TreeParent
    <3>4. pid[parent[r]] = pid[p] <=> parent[r] = p
      BY <3>2 DEF InTree
    <3> QED
      BY <3>1, <3>2, <3>3, <3>4
  <2>3. \A n \in DOMAIN ParentOf : \E r \in InTree \ {initproc} : n = pid[r]
    BY DEF ParentOf, PidsOf
  <2>4. ParentOf' = [n \in DOMAIN ParentOf' |-> ParentOf'[n]]
    BY DEF ParentOf
  <2> QED
    BY <2>1, <2>2, <2>3, <2>4
<1> QED
  BY <1>2, <1>3, <1>4, <1>5
     DEF Tree!Exit, Tree!Extend, Live, Status, StatusOf, ParentOf

\* wait() takes a zombie child of p out of the tree, and its slot is free.
LEMMA ReapMaps ==
  ASSUME MapInv, MapInv', NEW p \in InTree \ TreeZombies,
         NEW q \in TreeZombies \ {initproc}, parent[q] = p,
         Exiting = {}, Exiting' = {},
         InTree' = InTree \ {q}, TreeZombies' = TreeZombies \ {q},
         pid' = [pid EXCEPT ![q] = 0],
         \A r \in InTree \ {q} : parent'[r] = parent[r] /\ xstate'[r] = xstate[r]
  PROVE  Tree!Reap(pid[q])
<1> USE DEF MapInv
<1>1. q \in InTree /\ q # p /\ \A r \in InTree \ {q} : pid'[r] = pid[r]
  BY DEF TreeZombies, InTree
<1>2. pid[q] \in DOMAIN Status
  BY DEF Status, PidsOf
<1>3. ParentOf[pid[q]] \in Live
  <2>1. ParentOf[pid[q]] = pid[p]
    BY <1>1, MappedValues DEF TreeParent
  <2> QED
    BY <2>1 DEF Live, PidsOf
<1>4. Live' = Live
  BY <1>1 DEF Live, PidsOf
<1>5. Status' = [n \in DOMAIN Status \ {pid[q]} |-> Status[n]]
  <2>1. \A r \in TreeZombies \ {q} : r \in InTree /\ pid[r] # pid[q]
    BY <1>1 DEF TreeZombies, InTree
  <2>2. DOMAIN Status' = DOMAIN Status \ {pid[q]}
    BY <1>1, <2>1 DEF Status, PidsOf
  <2>3. ASSUME NEW r \in TreeZombies \ {q}
        PROVE  Status'[pid[r]] = Status[pid[r]]
    <3>1. Status'[pid[r]] = StatusOf(r)'
      BY <1>1, <2>1 DEF Status, PidsOf
    <3>2. Status[pid[r]] = StatusOf(r)
      BY MappedValues
    <3> QED
      BY <2>1, <3>1, <3>2 DEF StatusOf
  <2>4. \A n \in DOMAIN Status' : \E r \in TreeZombies \ {q} : n = pid[r]
    BY <1>1, <2>1 DEF Status, PidsOf
  <2>5. Status' = [n \in DOMAIN Status' |-> Status'[n]]
    BY DEF Status
  <2> QED
    BY <2>2, <2>3, <2>4, <2>5
<1>6. ParentOf' = [n \in DOMAIN ParentOf \ {pid[q]} |-> ParentOf[n]]
  <2>1. \A r \in InTree \ {q} : pid[r] # pid[q]
    BY <1>1 DEF InTree
  <2>2. DOMAIN ParentOf' = DOMAIN ParentOf \ {pid[q]}
    BY <1>1, <2>1 DEF ParentOf, PidsOf
  <2>3. ASSUME NEW r \in InTree \ {initproc, q}
        PROVE  ParentOf'[pid[r]] = ParentOf[pid[r]]
    <3>1. TreeParent(r)' = parent[r] /\ parent[r] \in InTree \ {q}
      BY DEF TreeParent
    <3>2. ParentOf'[pid[r]] = pid'[TreeParent(r)']
      BY <1>1 DEF ParentOf, PidsOf
    <3>3. ParentOf[pid[r]] = pid[parent[r]]
      BY MappedValues DEF TreeParent
    <3> QED
      BY <1>1, <3>1, <3>2, <3>3
  <2>4. \A n \in DOMAIN ParentOf' : \E r \in InTree \ {initproc, q} : n = pid[r]
    BY <1>1 DEF ParentOf, PidsOf
  <2>5. ParentOf' = [n \in DOMAIN ParentOf' |-> ParentOf'[n]]
    BY DEF ParentOf
  <2> QED
    BY <2>2, <2>3, <2>4, <2>5
<1> QED
  BY <1>2, <1>3, <1>4, <1>5, <1>6
     DEF Tree!Reap, Tree!Zombies, Live, Status, StatusOf, ParentOf

\* Every step of the table is a step of the tree, or a stutter.
LEMMA StepMaps ==
  ASSUME ProcAssumption, IInv, MapInv, MapInv', NEW c \in Cpus, NEW p \in Slots,
         Step(c, p)
  PROVE  Tree!Next \/ UNCHANGED Tree!vars
<1> USE FirstSlot, NullNoSlot DEF IInv, LocksInv, TypeOK, TableOK, TreeInv
<1>1. CASE ~TreeStep(c, p)
  <2>1. Quiet
    BY <1>1, QuietSteps
  <2>2. Exiting' = Exiting
    BY <2>1 DEF Quiet, Exiting
  <2>3. InTree' = InTree
    BY <2>1 DEF Quiet, InTree
  <2>4. TreeZombies' = TreeZombies
    BY <2>1, <2>2, <2>3 DEF Quiet, TreeZombies, InTree, Alive
  <2>5. \A q \in TreeZombies : StatusOf(q)' = StatusOf(q)
    BY <2>1, <2>2 DEF Quiet, StatusOf
  <2>6. \A q \in InTree : TreeParent(q)' = TreeParent(q)
    BY <2>1, <2>2 DEF Quiet, TreeParent
  <2> QED
    BY <2>1, <2>3, <2>4, <2>5, <2>6, SameTree DEF Quiet
<1>2. CASE ForkAlloc(c, p) \/ ForkNoMemory(c, p)
  <2>1. state[i[p]] = "UNUSED" /\ i[p] \in Slots
    BY <1>2 DEF ForkAlloc, ForkNoMemory, ThreadsOK
  <2>2. i[p] \notin InTree
    BY <2>1 DEF MapInv
  <2>3. parent[i[p]] = Null
    BY <2>1, <2>2 DEF InTree
  <2>4. Exiting' = Exiting
    BY <1>2, <2>1
       DEF ForkAlloc, ForkNoMemory, Return, Exiting, ThreadsOK, StateInv
  <2>5. parent' = parent /\ arg' = arg
    BY <1>2, <2>3 DEF ForkAlloc, ForkNoMemory, FreeProc
  <2>6. \A q \in InTree : pid'[q] = pid[q] /\ state'[q] = state[q] /\ xstate'[q] = xstate[q]
    BY <1>2, <2>1, <2>2 DEF ForkAlloc, ForkNoMemory, FreeProc, InTree
  <2>7. InTree' = InTree
    BY <2>5 DEF InTree
  <2>8. TreeZombies' = TreeZombies
    BY <2>4, <2>6, <2>7 DEF TreeZombies
  <2>9. \A q \in TreeZombies : StatusOf(q)' = StatusOf(q)
    BY <2>4, <2>5, <2>6 DEF StatusOf, TreeZombies
  <2>10. \A q \in InTree : TreeParent(q)' = TreeParent(q)
    BY <2>4, <2>5 DEF TreeParent
  <2> QED
    BY <2>6, <2>7, <2>8, <2>9, <2>10, SameTree
<1>3. CASE ForkParent(c, p)
  <2>1. i[p] \in Slots /\ state[i[p]] = "USED" /\ parent[i[p]] = Null
    BY <1>3 DEF ForkParent, ThreadsOK, ForkInv, Forking, ForkLabels,
       ForkParentInv, IsAt
  <2>2. i[p] \notin InTree
    BY <2>1 DEF InTree, InitprocInv, Alive
  <2>3. p \in InTree \ TreeZombies
    <3>1. state[p] \in Alive /\ p \notin Exiting
      BY <1>3 DEF ForkParent, StateInv, States, Alive, Exiting
    <3> QED
      BY <3>1 DEF InTree, TreeZombies, ParentedInv, Alive
  <2>4. Exiting' = Exiting
    BY <1>3 DEF ForkParent, Exiting, ThreadsOK
  <2>5. InTree' = InTree \cup {i[p]}
    BY <1>3, <2>1, <2>3 DEF ForkParent, InTree
  <2>6. TreeZombies' = TreeZombies
    BY <1>3, <2>1, <2>4, <2>5
       DEF ForkParent, TreeZombies, Exiting, StateInv
  <2>7. Tree!Fork(pid[p], pid[i[p]])
    BY <1>3, <2>1, <2>2, <2>3, <2>4, <2>5, <2>6, ForkMaps DEF ForkParent
  <2> QED
    BY <2>7 DEF Tree!Next, Tree!Fork
<1>4. CASE ForkReady(c, p)
  <2>1. i[p] \in Slots /\ state[i[p]] = "USED"
    BY <1>4 DEF ForkReady, ThreadsOK, ForkInv, Forking, ForkLabels
  <2>2. Exiting' = Exiting
    BY <1>4 DEF ForkReady, Return, Exiting, ThreadsOK
  <2>3. InTree' = InTree
    BY <1>4 DEF ForkReady, InTree
  <2>4. TreeZombies' = TreeZombies
    BY <1>4, <2>1, <2>2, <2>3 DEF ForkReady, TreeZombies
  <2>5. \A q \in TreeZombies : StatusOf(q)' = StatusOf(q)
    BY <1>4, <2>2 DEF ForkReady, StatusOf
  <2>6. \A q \in InTree : TreeParent(q)' = TreeParent(q)
    BY <1>4, <2>2 DEF ForkReady, TreeParent
  <2> QED
    BY <1>4, <2>3, <2>4, <2>5, <2>6, SameTree DEF ForkReady
<1>5. CASE ExitLock(c, p)
  <2>1. state[p] \in Alive /\ p # initproc /\ p \notin Exiting
    BY <1>5 DEF ExitLock, StateInv, States, Alive, Exiting
  <2>2. p \in InTree \ (TreeZombies \cup {initproc})
    BY <2>1 DEF InTree, TreeZombies, ParentedInv, Alive
  <2>3. Exiting = {}
    BY <1>5 DEF ExitLock, MapInv
  <2>4. Exiting' = {p}
    BY <1>5, <2>3 DEF ExitLock, Exiting, ThreadsOK
  <2>5. arg[p] \in Statuses
    BY <1>5 DEF ExitLock, ArgInv, ExitLabels
  <2>6. Tree!Exit(pid[p], arg[p])
    BY <1>5, <2>2, <2>3, <2>4, <2>5, ExitMaps DEF ExitLock
  <2> QED
    BY <2>5, <2>6 DEF Tree!Next, Tree!Exit
<1>6. CASE ReparentChild(c, p)
  <2>1. i[p] \in Slots /\ parent[i[p]] = p /\ p \in Exiting
    BY <1>6 DEF ReparentChild, ThreadsOK, Exiting
  <2>2. Exiting' = Exiting
    BY <1>6, <2>1 DEF ReparentChild, Exiting, ThreadsOK
  <2>3. InTree' = InTree
    BY <1>6, <2>1 DEF ReparentChild, InTree
  <2>4. TreeZombies' = TreeZombies
    BY <1>6, <2>2, <2>3 DEF ReparentChild, TreeZombies
  <2>5. \A q \in TreeZombies : StatusOf(q)' = StatusOf(q)
    BY <1>6, <2>2 DEF ReparentChild, StatusOf
  <2>6. \A q \in InTree : TreeParent(q)' = TreeParent(q)
    BY <1>6, <2>1, <2>2 DEF ReparentChild, TreeParent, InTree
  <2> QED
    BY <1>6, <2>3, <2>4, <2>5, <2>6, SameTree DEF ReparentChild
<1>7. CASE ExitZombie(c, p)
  <2>1. p \in Exiting /\ Exiting = {p}
    BY <1>7 DEF ExitZombie, Exiting, MapInv
  <2>2. Exiting' = {}
    BY <1>7, <2>1 DEF ExitZombie, EnterSched, Exiting, ThreadsOK
  <2>3. InTree' = InTree
    BY <1>7 DEF ExitZombie, InTree
  <2>4. TreeZombies' = TreeZombies
    BY <1>7, <2>1, <2>2, <2>3 DEF ExitZombie, EnterSched, TreeZombies, InTree
  <2>5. \A q \in TreeZombies : StatusOf(q)' = StatusOf(q)
    BY <1>7, <2>1, <2>2 DEF ExitZombie, StatusOf, TreeZombies, InTree
  <2>6. \A q \in InTree : TreeParent(q)' = TreeParent(q)
    <3>1. \A q \in InTree : parent[q] # p
      BY <1>7 DEF ExitZombie, ChildInv, InTree
    <3> QED
      BY <1>7, <2>1, <2>2, <3>1 DEF ExitZombie, TreeParent
  <2> QED
    BY <1>7, <2>3, <2>4, <2>5, <2>6, SameTree DEF ExitZombie
<1>8. CASE Reap(c, p)
  <2> DEFINE q == i[p]
  <2>1. q \in Slots /\ parent[q] = p /\ state[q] = "ZOMBIE" /\ pc[p] = "scan"
    BY <1>8 DEF Reap, AtZombie, ThreadsOK
  <2>2. q \in TreeZombies \ {initproc}
    BY <2>1 DEF TreeZombies, InTree, InitprocInv, Alive
  <2>3. p \in InTree \ TreeZombies
    <3>1. state[p] \in Alive /\ p \notin Exiting
      BY <2>1 DEF ChildInv, Exiting
    <3> QED
      BY <3>1 DEF InTree, TreeZombies, ParentedInv, Alive
  <2>4. Exiting = {} /\ Exiting' = {}
    <3>1. Exiting = {}
      BY <2>1, SectionExclusive DEF Exiting, WaitLockLabels
    <3> QED
      BY <1>8, <3>1 DEF Reap, Return, Exiting, ThreadsOK
  <2>5. InTree' = InTree \ {q}
    BY <1>8, <2>2 DEF Reap, FreeProc, InTree
  <2>6. \A r \in InTree \ {q} :
          parent'[r] = parent[r] /\ xstate'[r] = xstate[r] /\ state'[r] = state[r]
    BY <1>8 DEF Reap, FreeProc, InTree
  <2>7. TreeZombies' = TreeZombies \ {q}
    BY <2>4, <2>5, <2>6 DEF TreeZombies
  <2>8. pid' = [pid EXCEPT ![q] = 0]
    BY <1>8 DEF Reap, FreeProc
  <2>9. Tree!Reap(pid[q])
    BY <2>1, <2>2, <2>3, <2>4, <2>5, <2>6, <2>7, <2>8, ReapMaps
  <2> QED
    BY <2>9 DEF Tree!Next, Tree!Reap
<1> QED
  BY <1>1, <1>2, <1>3, <1>4, <1>5, <1>6, <1>7, <1>8 DEF TreeStep

\* Whatever the interleaving of its critical sections, the process table gives
\* programs a process tree: fork() adds one child, exit() takes effect once
\* and leaves the children to the first process, and each zombie is collected
\* once, by its parent, with the status it exited with.
THEOREM ImplementsTree == Spec => TreeSpec
<1>1. IInv => MapInv
  BY MapInvHolds, ProcAssumption
<1>2. Init /\ MapInv => Tree!Init
  BY TreeInitMaps, ProcAssumption
<1>3. IInv /\ MapInv /\ MapInv' /\ [Next]_vars => [Tree!Next]_(Tree!vars)
  <2> SUFFICES ASSUME IInv, MapInv, MapInv', [Next]_vars
               PROVE  Tree!Next \/ UNCHANGED Tree!vars
    OBVIOUS
  <2>1. CASE Next
    <3>1. PICK c \in Cpus, p \in Slots : Step(c, p)
      BY <2>1 DEF Next, Step
    <3> QED
      BY <3>1, StepMaps, ProcAssumption
  <2>2. CASE UNCHANGED vars
    BY <2>2 DEF vars, Tree!vars, PidsOf, InTree, TreeZombies, Exiting, SlotOf,
                TreeParent
  <2> QED
    BY <2>1, <2>2
<1> QED
  BY <1>1, <1>2, <1>3, Invariant, PTL DEF Spec, TreeSpec, Tree!Spec
=============================================================================
