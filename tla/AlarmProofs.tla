----------------------------- MODULE AlarmProofs -----------------------------
(***************************************************************************)
(* The safety properties of Alarm, for any number of slots, any intervals  *)
(* and ints of any width.  AlarmInv is inductive: hfl tells whether there  *)
(* is a handler call to return from, trapframesv what it interrupted, and  *)
(* ainterv is what the process itself has passed to sigalarm().            *)
(***************************************************************************)
EXTENDS Alarm, TLAPS

\* While a handler call has not returned, what it interrupted is saved; in
\* user mode hfl is set exactly then, and in the middle of sigreturn() it is
\* not.
FlagInv ==
  \A p \in Slots :
    /\ interrupted[p] \in {<<>>, <<trapframesv[p]>>}
    /\ mode[p] = "unused" => interrupted[p] = <<>>
    /\ mode[p] = "user" => (hfl[p] = 1 <=> interrupted[p] # <<>>)
    /\ mode[p] = "sigreturn" => hfl[p] = 0

\* The interval of a process is the one it has asked for.
OwnInterval == \A p \in Slots : mode[p] # "unused" => ainterv[p] = asked[p]

AlarmInv == TypeOK /\ FlagInv /\ OwnInterval

-----------------------------------------------------------------------------
\* Sequences of at most one call

\* What Append and SubSeq do to the sequence of open handler calls: it has at
\* most one.
LEMMA OneCall ==
  ASSUME NEW c
  PROVE  /\ Append(<<>>, c) = <<c>>
         /\ Len(<<c>>) = 1 /\ <<c>>[1] = c
         /\ <<c>> # <<>>
         /\ SubSeq(<<c>>, 1, Len(<<c>>) - 1) = <<>>
  OBVIOUS

\* No open call, and one.
LEMMA CallsType ==
  ASSUME NEW c \in Context
  PROVE  <<>> \in Seq(Context) /\ <<c>> \in Seq(Context)
  OBVIOUS

-----------------------------------------------------------------------------
\* What one step does

\* allocproc() makes a process without an alarm and without an open call.
LEMMA AllocProcInv ==
  ASSUME AlarmInv, NEW q \in Slots, NEW frames \in [Slots -> Context],
         AllocProc(q, frames)
  PROVE  AlarmInv'
<1> USE DEF AllocProc, AlarmInv
<1>1. TypeOK'
  <2>1. Junk \in Context /\ <<>> \in Seq(Context)
    BY DEF Context
  <2>2. 0 \in Ints
    BY AlarmAssumption DEF AlarmAssumption, Ints
  <2> QED
    BY <2>1, <2>2 DEF TypeOK
<1>2. FlagInv'
  BY DEF TypeOK, FlagInv
<1>3. OwnInterval'
  BY DEF TypeOK, OwnInterval
<1> QED
  BY <1>1, <1>2, <1>3

\* The first process starts,
LEMMA StartInv ==
  ASSUME AlarmInv, NEW p \in Slots, Start(p)
  PROVE  AlarmInv'
<1>1. [trapframe EXCEPT ![p] = [epc |-> "main", a0 |-> 0]] \in [Slots -> Context]
  BY DEF AlarmInv, TypeOK, Context
<1> QED
  BY <1>1, AllocProcInv DEF Start

\* fork() copies the trap frame but not the alarm,
LEMMA ForkInv ==
  ASSUME AlarmInv, NEW p \in Slots, NEW q \in Slots, Fork(p, q)
  PROVE  AlarmInv'
<1> DEFINE frames == [trapframe EXCEPT ![p].a0 = 1,
                                       ![q] = [trapframe[p] EXCEPT !.a0 = 0]]
<1>1. trapframe[p] \in [epc : {"main", "handler"}, a0 : {0, 1}]
  BY DEF Fork, AlarmInv, TypeOK, Context, Junk
<1>2. /\ [trapframe[p] EXCEPT !.a0 = 0] \in Context
      /\ [trapframe[p] EXCEPT !.a0 = 1] \in Context
  BY <1>1 DEF Context
<1>3. frames \in [Slots -> Context]
  BY <1>2 DEF AlarmInv, TypeOK
<1>4. AllocProc(q, frames)
  BY DEF Fork
<1> HIDE DEF frames
<1> QED
  BY <1>3, <1>4, AllocProcInv

\* exit() and the wait() after it give all of it up,
LEMMA ExitInv ==
  ASSUME AlarmInv, NEW p \in Slots, Exit(p)
  PROVE  AlarmInv'
<1> USE DEF Exit, AlarmInv
<1>1. Junk \in Context /\ <<>> \in Seq(Context)
  BY DEF Context
<1>2. TypeOK'
  BY <1>1 DEF TypeOK
<1>3. FlagInv' /\ OwnInterval'
  BY DEF TypeOK, FlagInv, OwnInterval
<1> QED
  BY <1>2, <1>3

\* User code and sigalarm() write a0 and leave the rest alone.
LEMMA ComputeInv ==
  ASSUME AlarmInv, NEW p \in Slots, Compute(p)
  PROVE  AlarmInv'
<1> USE DEF Compute, AlarmInv
<1>1. trapframe[p] \in [epc : {"main", "handler"}, a0 : {0, 1}]
  BY DEF TypeOK, Context, Junk
<1>2. \A v \in {0, 1} : [trapframe[p] EXCEPT !.a0 = v] \in Context
  BY <1>1 DEF Context
<1>3. trapframe' \in [Slots -> Context]
  BY <1>2 DEF TypeOK
<1> QED
  BY <1>3 DEF TypeOK, FlagInv, OwnInterval

\* sigalarm() changes the interval and the handler only.
LEMMA SigalarmInv ==
  ASSUME AlarmInv, NEW p \in Slots, NEW n \in Intervals, Sigalarm(p, n)
  PROVE  AlarmInv'
<1> USE DEF Sigalarm, AlarmInv
<1>1. trapframe[p] \in [epc : {"main", "handler"}, a0 : {0, 1}]
  BY DEF TypeOK, Context, Junk
<1>2. [trapframe[p] EXCEPT !.a0 = 0] \in Context
  BY <1>1 DEF Context
<1>3. trapframe' \in [Slots -> Context]
  BY <1>2 DEF TypeOK
<1> QED
  BY <1>3 DEF TypeOK, FlagInv, OwnInterval

\* sigreturn() first lowers the flag, while the call is still open,
LEMMA SigreturnClearInv ==
  ASSUME AlarmInv, NEW p \in Slots, SigreturnClear(p)
  PROVE  AlarmInv'
  BY DEF SigreturnClear, AlarmInv, TypeOK, FlagInv, OwnInterval

\* and then restores what the call interrupted.
LEMMA SigreturnRestoreInv ==
  ASSUME AlarmInv, NEW p \in Slots, SigreturnRestore(p)
  PROVE  AlarmInv'
<1> USE DEF SigreturnRestore, AlarmInv
<1>1. interrupted' = [interrupted EXCEPT ![p] = <<>>]
  <2>1. CASE interrupted[p] = <<>>
    BY <2>1 DEF Resumed
  <2>2. CASE interrupted[p] = <<trapframesv[p]>>
    <3>1. SubSeq(interrupted[p], 1, Len(interrupted[p]) - 1) = <<>>
      BY <2>2, OneCall
    <3>2. interrupted[p] # <<>>
      BY <2>2, OneCall
    <3> QED
      BY <3>1, <3>2 DEF Resumed
  <2> QED
    BY <2>1, <2>2 DEF FlagInv
<1>2. <<>> \in Seq(Context)
  OBVIOUS
<1>3. TypeOK'
  BY <1>1, <1>2 DEF TypeOK
<1>4. FlagInv' /\ OwnInterval'
  BY <1>1 DEF TypeOK, FlagInv, OwnInterval
<1> QED
  BY <1>3, <1>4

\* The next int is an int.
LEMMA IncrementType ==
  ASSUME NEW t \in Ints
  PROVE  Increment(t) \in Ints
  BY AlarmAssumption DEF AlarmAssumption, Ints, Increment

\* The timer interrupt opens a call only when the flag says that none is open.
LEMMA TimerInv ==
  ASSUME AlarmInv, NEW p \in Slots, Timer(p)
  PROVE  AlarmInv'
<1> DEFINE t == Increment(ticks[p])
<1> USE DEF Timer, AlarmInv
<1>1. t \in Ints
  BY IncrementType DEF TypeOK
<1> HIDE DEF t
<1>2. CASE Due(p, t)
  <2>1. /\ hfl' = [hfl EXCEPT ![p] = 1]
        /\ trapframesv' = [trapframesv EXCEPT ![p] = trapframe[p]]
        /\ trapframe' = [trapframe EXCEPT ![p].epc = "handler"]
        /\ interrupted' = [interrupted EXCEPT ![p] = Append(@, trapframe[p])]
    BY <1>2 DEF t
  <2>2. interrupted[p] = <<>>
    BY <1>2 DEF Due, FlagInv
  <2>3. interrupted' = [interrupted EXCEPT ![p] = <<trapframe[p]>>]
    BY <2>1, <2>2, OneCall
  <2>4. trapframe[p] \in Context
    BY DEF TypeOK
  <2>5. [trapframe[p] EXCEPT !.epc = "handler"] \in Context
    BY <2>4 DEF Context, Junk
  <2>6. trapframe' \in [Slots -> Context] /\ trapframesv' \in [Slots -> Context]
    BY <2>1, <2>4, <2>5 DEF TypeOK
  <2>7. interrupted' \in [Slots -> Seq(Context)]
    BY <2>3, <2>4, CallsType DEF TypeOK
  <2>8. TypeOK'
    BY <1>1, <2>1, <2>6, <2>7 DEF TypeOK, t
  <2>9. FlagInv'
    <3> SUFFICES ASSUME NEW q \in Slots
                 PROVE  /\ interrupted'[q] \in {<<>>, <<trapframesv'[q]>>}
                        /\ mode'[q] = "unused" => interrupted'[q] = <<>>
                        /\ mode'[q] = "user" => (hfl'[q] = 1 <=> interrupted'[q] # <<>>)
                        /\ mode'[q] = "sigreturn" => hfl'[q] = 0
      BY DEF FlagInv
    <3>1. CASE q = p
      <4>1. interrupted'[q] = <<trapframe[p]>> /\ trapframesv'[q] = trapframe[p]
        BY <2>1, <2>3, <3>1 DEF TypeOK
      <4>2. interrupted'[q] # <<>>
        BY <4>1, OneCall
      <4>3. hfl'[q] = 1 /\ mode'[q] = "user"
        BY <2>1, <3>1 DEF TypeOK
      <4> QED
        BY <4>1, <4>2, <4>3
    <3>2. CASE q # p
      BY <2>1, <2>3, <3>2 DEF FlagInv, TypeOK
    <3> QED
      BY <3>1, <3>2
  <2>10. OwnInterval'
    BY DEF OwnInterval
  <2> QED
    BY <2>8, <2>9, <2>10
<1>3. CASE ~ Due(p, t)
  BY <1>1, <1>3 DEF TypeOK, FlagInv, OwnInterval, t
<1> QED
  BY <1>2, <1>3

\* Every step keeps the invariant,
LEMMA AlarmNext ==
  ASSUME AlarmInv, [Next]_vars
  PROVE  AlarmInv'
<1>1. CASE Next
  <2>1. PICK p \in Slots :
          \/ Start(p) \/ Exit(p) \/ Compute(p) \/ SystemCall(p)
          \/ SigreturnRestore(p) \/ Timer(p)
    BY <1>1 DEF Next
  <2>2. CASE SystemCall(p)
    BY <2>2, SigalarmInv, SigreturnClearInv, ForkInv DEF SystemCall
  <2> QED
    BY <2>1, <2>2, StartInv, ExitInv, ComputeInv, SigreturnRestoreInv, TimerInv
<1>2. CASE UNCHANGED vars
  BY <1>2 DEF vars, procVars, AlarmInv, TypeOK, FlagInv, OwnInterval
<1> QED
  BY <1>1, <1>2

\* with which the first process starts.
LEMMA AlarmInit == Init => AlarmInv
<1> SUFFICES ASSUME Init PROVE AlarmInv
  OBVIOUS
<1>1. Junk \in Context /\ <<>> \in Seq(Context)
  BY DEF Context
<1>2. 0 \in Ints
  BY AlarmAssumption DEF AlarmAssumption, Ints
<1> QED
  BY <1>1, <1>2 DEF Init, AlarmInv, TypeOK, FlagInv, OwnInterval

-----------------------------------------------------------------------------
\* The theorems

\* The flag, the saved registers and the handler calls that have not returned
\* agree in every reachable state.
THEOREM Invariant == Spec => []AlarmInv
  BY AlarmInit, AlarmNext, PTL DEF Spec

\* Every variable keeps its type, ticks its width.
THEOREM TypeCorrect == Spec => []TypeOK
<1>1. AlarmInv => TypeOK
  BY DEF AlarmInv
<1> QED
  BY <1>1, Invariant, PTL

\* No handler is called while a call of it has not returned, and what it
\* interrupted stays saved.
THEOREM HandlerNotReentered == Spec => []HandlerOnce
<1>1. AlarmInv => HandlerOnce
  <2> SUFFICES ASSUME AlarmInv, NEW p \in Slots
               PROVE  /\ Len(interrupted[p]) <= 1
                      /\ interrupted[p] # <<>> => trapframesv[p] = interrupted[p][1]
                      /\ hfl[p] = 1 /\ mode[p] # "unused" => interrupted[p] # <<>>
    BY DEF HandlerOnce
  <2>1. CASE interrupted[p] = <<>>
    BY <2>1 DEF AlarmInv, FlagInv, TypeOK
  <2>2. CASE interrupted[p] = <<trapframesv[p]>>
    <3>1. Len(interrupted[p]) = 1 /\ interrupted[p][1] = trapframesv[p]
      BY <2>2, OneCall
    <3>2. interrupted[p] # <<>>
      BY <2>2, OneCall
    <3> QED
      BY <3>1, <3>2
  <2> QED
    BY <2>1, <2>2 DEF AlarmInv, FlagInv
<1> QED
  BY <1>1, Invariant, PTL

\* sigreturn() from a handler brings back all registers of the interrupted
\* program, a0 included.
THEOREM RegistersRestored == Spec => Transparent
<1>1. AlarmInv /\ [Next]_vars =>
        [\A p \in Slots :
           mode[p] = "sigreturn" /\ mode'[p] = "user" /\ interrupted[p] # <<>>
             => trapframe'[p] = interrupted[p][Len(interrupted[p])]]_vars
  <2> SUFFICES ASSUME AlarmInv, Next, NEW p \in Slots,
                      mode[p] = "sigreturn", mode'[p] = "user",
                      interrupted[p] # <<>>
               PROVE  trapframe'[p] = interrupted[p][Len(interrupted[p])]
    OBVIOUS
  <2>1. interrupted[p] = <<trapframesv[p]>>
    BY DEF AlarmInv, FlagInv
  <2>2. interrupted[p][Len(interrupted[p])] = trapframesv[p]
    BY <2>1, OneCall
  <2>3. PICK q \in Slots :
          \/ Start(q) \/ Exit(q) \/ Compute(q) \/ SystemCall(q)
          \/ SigreturnRestore(q) \/ Timer(q)
    BY DEF Next
  <2>4. SigreturnRestore(q) /\ q = p
    <3>1. CASE SystemCall(q)
      BY <3>1 DEF SystemCall, Sigalarm, SigreturnClear, Fork, AllocProc,
                  AlarmInv, TypeOK
    <3>2. CASE ~ SystemCall(q)
      BY <2>3, <3>2 DEF Start, AllocProc, Exit, Compute, SigreturnRestore, Timer,
                        AlarmInv, TypeOK
    <3> QED
      BY <3>1, <3>2
  <2>5. trapframe'[p] = trapframesv[p]
    BY <2>4 DEF SigreturnRestore, AlarmInv, TypeOK
  <2> QED
    BY <2>2, <2>5
<1> QED
  BY <1>1, Invariant, PTL DEF Spec, Transparent

\* A process is sent to a handler only if it has asked for that: its interval is its
\* own, and if that is 0 the remainder is the tick, which is not 0 where it is
\* tested.
THEOREM HandlerAskedFor == Spec => NotUnasked
<1>1. AlarmInv /\ [Next]_vars =>
        [\A p \in Slots :
           Len(interrupted'[p]) > Len(interrupted[p]) => asked[p] # 0]_vars
  <2> SUFFICES ASSUME AlarmInv, Next, NEW p \in Slots, asked[p] = 0
               PROVE  ~ (Len(interrupted'[p]) > Len(interrupted[p]))
    OBVIOUS
  <2>1. interrupted \in [Slots -> Seq(Context)]
    BY DEF AlarmInv, TypeOK
  <2>2. Len(interrupted[p]) \in Nat /\ Len(<<>>) = 0
    BY <2>1
  <2>3. interrupted'[p] \in {interrupted[p], <<>>}
    <3>1. PICK q \in Slots :
            \/ Start(q) \/ Exit(q) \/ Compute(q) \/ SystemCall(q)
            \/ SigreturnRestore(q) \/ Timer(q)
      BY DEF Next
    <3>2. CASE Start(q) \/ Exit(q) \/ Compute(q)
      BY <2>1, <3>2 DEF Start, AllocProc, Exit, Compute
    <3>3. CASE SystemCall(q)
      BY <2>1, <3>3 DEF SystemCall, Sigalarm, SigreturnClear, Fork, AllocProc
    <3>4. CASE SigreturnRestore(q)
      <4>1. CASE q = p /\ interrupted[p] = <<trapframesv[p]>>
        <5>1. SubSeq(interrupted[p], 1, Len(interrupted[p]) - 1) = <<>>
          BY <4>1, OneCall
        <5>2. interrupted[p] # <<>>
          BY <4>1, OneCall
        <5> QED
          BY <2>1, <3>4, <4>1, <5>1, <5>2 DEF SigreturnRestore, Resumed
      <4>2. CASE q = p /\ interrupted[p] = <<>>
        BY <2>1, <3>4, <4>2 DEF SigreturnRestore, Resumed
      <4>3. CASE q # p
        BY <2>1, <3>4, <4>3 DEF SigreturnRestore, Resumed
      <4> QED
        BY <4>1, <4>2, <4>3 DEF AlarmInv, FlagInv
    <3>5. CASE Timer(q)
      <4>1. CASE q = p
        <5>1. mode[p] = "user"
          BY <3>5, <4>1 DEF Timer
        <5>2. ~ Due(p, Increment(ticks[p]))
          BY <5>1 DEF Due, Divides, AlarmInv, OwnInterval
        <5> QED
          BY <3>5, <4>1, <5>2 DEF Timer
      <4>2. CASE q # p
        BY <2>1, <3>5, <4>2 DEF Timer
      <4> QED
        BY <4>1, <4>2
    <3> QED
      BY <3>1, <3>2, <3>3, <3>4, <3>5
  <2> QED
    BY <2>2, <2>3
<1> QED
  BY <1>1, Invariant, PTL DEF Spec, NotUnasked
=============================================================================
