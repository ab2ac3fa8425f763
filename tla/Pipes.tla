------------------------------- MODULE Pipes -------------------------------
(***************************************************************************)
(* The pipes of the kernel as the programs of the utilities lab see them:  *)
(* a read blocks while the pipe is empty and somebody has its write end    *)
(* open, a write blocks while it is full and is lost when nobody has its   *)
(* read end open, and a child has its parent's open ends.  A pipe that has *)
(* not been made has no end open anywhere.                                 *)
(***************************************************************************)
EXTENDS Integers, Sequences

CONSTANTS
  Procs, Pipes,
  Capacity  \* what a pipe holds: 512 bytes

VARIABLES
  pipe,     \* what is in each pipe
  rd, wr    \* the pipes whose read and write ends a process has open

pipeVars == <<pipe, rd, wr>>

\* Process p has the pipes ks open, just made.
PipesInit(p, ks) ==
  /\ pipe = [k \in Pipes |-> <<>>]
  /\ rd   = [q \in Procs |-> IF q = p THEN ks ELSE {}]
  /\ wr   = rd

HasReader(k) == \E p \in Procs : k \in rd[p]
HasWriter(k) == \E p \in Procs : k \in wr[p]

\* read() returns the next thing n, or nothing.
Read(k, n) ==
  pipe[k] # <<>> /\ n = Head(pipe[k]) /\ pipe' = [pipe EXCEPT ![k] = Tail(@)]
ReadEnd(k) == pipe[k] = <<>> /\ ~ HasWriter(k)

Write(k, n) ==
  \/ ~ HasReader(k) /\ UNCHANGED pipe
  \/ /\ HasReader(k)
     /\ Len(pipe[k]) < Capacity
     /\ pipe' = [pipe EXCEPT ![k] = Append(@, n)]

CloseRead(p, ks)  == rd' = [rd EXCEPT ![p] = @ \ ks]
CloseWrite(p, ks) == wr' = [wr EXCEPT ![p] = @ \ ks]

\* fork() gives q what p has open.
Inherit(p, q) ==
  /\ rd' = [rd EXCEPT ![q] = rd[p]]
  /\ wr' = [wr EXCEPT ![q] = wr[p]]
=============================================================================
