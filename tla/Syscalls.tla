------------------------------ MODULE Syscalls ------------------------------
(***************************************************************************)
(* The way of a system call through the system calls lab: usertrap() lets  *)
(* the process in, syscall() calls the handler, stores what it returns and *)
(* prints a line if the process traces that call.  The handlers are those  *)
(* of Clock, and trace(); the lines are printed with the printf() of       *)
(* Console, by any number of processes at once, and any of them may panic. *)
(***************************************************************************)
EXTENDS Clock

CONSTANTS
  Masks,      \* the sets of calls that are passed to trace()
  Panickers,  \* bound on the model: the slots whose processes may panic
  LineLength  \* characters of a line

ASSUME SyscallAssumption ==
  /\ {"trace", "unknown"} \subseteq OtherCalls
  /\ Masks \subseteq SUBSET Calls
  /\ LineLength \in Nat

VARIABLES
  mask,    \* struct proc: the calls a process traces
  said,    \* whether the current call has printed its line
  wanted,  \* history: what the last trace() asked for, of the process or,
           \*   before it was forked, of its ancestors
  locking, prlock, panicked, at, locked, left, panicking

Console == INSTANCE Console WITH Threads <- Slots, NoThread <- Nobody

traceVars   == <<mask, said, wanted>>
consoleVars == <<locking, prlock, panicked, at, locked, left, panicking>>
vars == <<clockVars, traceVars, consoleVars>>

SyscallInit ==
  /\ Init
  /\ Console!Init
  /\ mask   = [p \in Slots |-> {}]
  /\ said   = [p \in Slots |-> FALSE]
  /\ wanted = [p \in Slots |-> {}]

\* p is neither printing nor panicking.
Quiet(p) == at[p] = "quiet"

-----------------------------------------------------------------------------
\* Handlers

\* Of the handlers of Clock those that change no mask.
Handler(p) ==
  /\ Quiet(p)
  /\ SleepStep(p) \/ Uptime(p) \/ (\E q \in Slots : Kill(p, q)) \/ Fails(p) \/ SysExit(p)
  /\ UNCHANGED <<traceVars, consoleVars>>

\* sys_trace().
Trace(p, m) ==
  /\ Quiet(p)
  /\ Other(p, "trace", 0)
  /\ mask'   = [mask EXCEPT ![p] = m]
  /\ wanted' = [wanted EXCEPT ![p] = m]
  /\ UNCHANGED <<said, consoleVars>>

\* Mutant of ForkTraced: the child's mask is what the slot had before.
ForkUntraced(p, q) ==
  /\ Quiet(p)
  /\ Fork(p, q)
  /\ wanted' = [wanted EXCEPT ![q] = wanted[p]]
  /\ UNCHANGED <<mask, said, consoleVars>>

\* fork() copies the mask; neither allocproc() nor freeproc() resets it.
ForkTraced(p, q) ==
  /\ Quiet(p)
  /\ Fork(p, q)
  /\ mask'   = [mask EXCEPT ![q] = mask[p]]
  /\ wanted' = [wanted EXCEPT ![q] = wanted[p]]
  /\ UNCHANGED <<said, consoleVars>>

\* A process outside of this model, with the mask m, forks p.
StartTraced(p, m) ==
  /\ Start(p)
  /\ mask'   = [mask EXCEPT ![p] = m]
  /\ wanted' = [wanted EXCEPT ![p] = m]
  /\ UNCHANGED <<said, consoleVars>>

-----------------------------------------------------------------------------
\* syscall()

\* The number of the call is none of the table's.
Unknown(p) ==
  /\ Quiet(p)
  /\ Other(p, "unknown", -1)
  /\ UNCHANGED <<traceVars, consoleVars>>

\* The call has a line: that it is traced, as the mask is when the handler
\* has returned, or that it is unknown.
HasLine(p) == call[p] \in mask[p] \cup {"unknown"}

\* The line is begun.
PrintLine(p) ==
  /\ pc[p] = "return"
  /\ HasLine(p) /\ ~ said[p]
  /\ Console!PrintfStart(p)
  /\ UNCHANGED <<clockVars, traceVars>>

\* A step inside of printf() or panic(); with printf() the line is out.
Printing(p) ==
  /\ Console!Step(p)
  /\ said' = [said EXCEPT ![p] = Quiet(p)']
  /\ UNCHANGED <<clockVars, mask, wanted>>

\* syscall() returns to usertrap().
ReturnQuietly(p) ==
  /\ Quiet(p)
  /\ HasLine(p) => said[p]
  /\ Return(p)
  /\ said' = [said EXCEPT ![p] = FALSE]
  /\ UNCHANGED <<mask, wanted, consoleVars>>

Enter(p) == Trap(p) /\ UNCHANGED <<traceVars, consoleVars>>

\* The kernel panics in a handler, or in printf().
PanicIn(p) ==
  /\ p \in Panickers
  /\ \/ pc[p] = "call" /\ Quiet(p) /\ Console!Panic(p)
     \/ Console!PanicNullFmt(p)
  /\ UNCHANGED <<clockVars, traceVars>>

Interrupt == ClockStep /\ UNCHANGED <<traceVars, consoleVars>>

-----------------------------------------------------------------------------
Syscall(p) ==
  \/ Handler(p) \/ Unknown(p) \/ PrintLine(p)
  \/ \E m \in Masks : Trace(p, m) \/ StartTraced(p, m)
  \/ \E q \in Slots : ForkTraced(p, q)

SyscallNext ==
  \/ Interrupt
  \/ \E p \in Slots :
       Enter(p) \/ Syscall(p) \/ Printing(p) \/ ReturnQuietly(p) \/ PanicIn(p)

SyscallSpec == SyscallInit /\ [][SyscallNext]_vars

\* The timer never stops.  A process that can run does, and gets tickslock
\* and pr.lock, which others give up again and again.  No program need make
\* a system call.
Fairness ==
  /\ SF_vars(Interrupt)
  /\ \A p \in Slots :
       /\ SF_vars(Handler(p) /\ InSleep(p))
       /\ WF_vars(PrintLine(p) \/ ReturnQuietly(p))
       /\ SF_vars(Printing(p))

FairSpec == SyscallSpec /\ Fairness

-----------------------------------------------------------------------------
\* Properties

\* Every variable keeps its type.
TypeOK ==
  /\ ClockTypeOK
  /\ Console!ConsoleTypeOK
  /\ mask \in [Slots -> SUBSET Calls]
  /\ said \in [Slots -> BOOLEAN]
  /\ wanted \in [Slots -> SUBSET Calls]

\* Exactly the calls are printed that the process, or the ancestor it has
\* its mask from, has asked trace() for: whoever had the slot before, and
\* also when the process was killed in the call and will exit.
TracedExactly ==
  [][\A p \in Slots :
       pc[p] = "return" /\ pc'[p] # "return"
         => (said[p] <=> call[p] \in wanted[p] \cup {"unknown"})]_vars

\* "lock to avoid interleaving concurrent printf's".
LinesWhole == Console!LinesWhole

\* A panic never waits for pr.lock.
PanicNotBlocked == Console!PanicNotBlocked

\* Every sleep ends, and its process comes back or exits, unless the kernel
\* panics.
SleepEnds ==
  [](Prompt /\ panicking = {})
    => \A p \in Slots : pc[p] = "asleep" ~> pc[p] \in {"user", "unused"}
=============================================================================
