------------------------------ MODULE Pingpong ------------------------------
(***************************************************************************)
(* pingpong of the utilities lab: the parent sends a byte through one pipe *)
(* and gets one back through the other.                                    *)
(***************************************************************************)
EXTENDS Naturals

CONSTANTS Capacity

Parent == "parent"
Child  == "child"
Procs  == {Parent, Child}
Pipes  == {"p1", "p2"}
Bytes  == {"c", "d"}

VARIABLES
  pipe, rd, wr,
  at,           \* where a process is
  said          \* the lines "received ping" and "received pong" in their order

vars == <<pipe, rd, wr, at, said>>

INSTANCE Pipes

\* Both pipes have been made.
Init ==
  /\ PipesInit(Parent, Pipes)
  /\ at = [q \in Procs |-> IF q = Parent THEN "fork" ELSE "none"]
  /\ said = <<>>

Goto(q, l) == at' = [at EXCEPT ![q] = l]

\* When fork() fails, its result is not 0 and the parent goes on.
Fork ==
  /\ at[Parent] = "fork"
  /\ \/ /\ Inherit(Parent, Child)
        /\ at' = [at EXCEPT ![Parent] = "send", ![Child] = "receive"]
     \/ Goto(Parent, "send") /\ UNCHANGED <<rd, wr>>
  /\ UNCHANGED <<pipe, said>>

\* write(p1[1])
SendPing ==
  /\ at[Parent] = "send"
  /\ Write("p1", "c")
  /\ Goto(Parent, "close")
  /\ UNCHANGED <<rd, wr, said>>

CloseFirst ==
  /\ at[Parent] = "close"
  /\ CloseRead(Parent, {"p1"})
  /\ CloseWrite(Parent, {"p1"})
  /\ Goto(Parent, "receive")
  /\ UNCHANGED <<pipe, said>>

\* A process reads again and again until it gets a byte, whichever.  It has
\* the write end of that pipe open itself, so that no read returns without one.
Receives(q, k) == at[q] = "receive" /\ \E b \in Bytes : Read(k, b)

ReceivePing ==
  /\ Receives(Child, "p1")
  /\ said' = Append(said, "ping")
  /\ Goto(Child, "answer")
  /\ UNCHANGED <<rd, wr>>

\* The child closes p1, answers on p2, closes that and exits.
Answer ==
  /\ at[Child] = "answer"
  /\ Write("p2", "d")
  /\ CloseRead(Child, Pipes)
  /\ CloseWrite(Child, Pipes)
  /\ Goto(Child, "exited")
  /\ UNCHANGED said

ReceivePong ==
  /\ Receives(Parent, "p2")
  /\ said' = Append(said, "pong")
  /\ CloseRead(Parent, Pipes)
  /\ CloseWrite(Parent, Pipes)
  /\ Goto(Parent, "exited")

-----------------------------------------------------------------------------
Step(q) ==
  \/ q = Parent /\ (Fork \/ SendPing \/ CloseFirst \/ ReceivePong)
  \/ q = Child /\ (ReceivePing \/ Answer)

Next == \E q \in Procs : Step(q)

-----------------------------------------------------------------------------
\* Properties

\* Both processes are at their end, and "received pong" has been printed after
\* "received ping", each once: no process takes the byte for its own out of a pipe
\* both can read.  Without a child there is no end: the parent reads for ever from
\* a pipe whose write end it has open itself.
PingpongOver ==
  \/ at[Parent] # "fork" /\ at[Child] = "none"
  \/ said = <<"ping", "pong">> /\ \A q \in Procs : at[q] = "exited"
=============================================================================
