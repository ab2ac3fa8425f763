------------------------------- MODULE ProcTree -------------------------------
(***************************************************************************)
(* What fork, exit and wait promise to user programs, with no locks, no    *)
(* slots and no scheduler: a tree of processes named by their pids.  A     *)
(* process enters the tree when it is forked, leaves its children to the   *)
(* first process and keeps its exit status when it exits, and is removed   *)
(* once, by its parent at that time.                                       *)
(***************************************************************************)
EXTENDS Integers

CONSTANTS
  Pids,      \* the pids a process can have
  InitPid,   \* the first process's, one of Pids
  Statuses   \* exit statuses

VARIABLES
  live,      \* pids of the processes that have not exited
  status,    \* exit status, by pid of each process that is not yet reaped
  parentOf   \* parent's pid, by pid of every process but the first

vars == <<live, status, parentOf>>

Zombies == DOMAIN status

\* f with the value v at k as well.
Extend(f, k, v) == [x \in DOMAIN f \cup {k} |-> IF x = k THEN v ELSE f[x]]

Init ==
  /\ live     = {InitPid}
  /\ status   = [q \in {} |-> 0]
  /\ parentOf = [q \in {} |-> InitPid]

\* p creates q; a pid is free again only after its process was reaped.
Fork(p, q) ==
  /\ p \in live
  /\ q \in Pids \ (live \cup Zombies)
  /\ live'     = live \cup {q}
  /\ parentOf' = Extend(parentOf, q, p)
  /\ UNCHANGED status

\* p exits with status s; in the same step its children, zombies too, go to
\* the first process.
Exit(p, s) ==
  /\ p \in live \ {InitPid}
  /\ live'     = live \ {p}
  /\ status'   = Extend(status, p, s)
  /\ parentOf' = [q \in DOMAIN parentOf |->
                    IF parentOf[q] = p THEN InitPid ELSE parentOf[q]]

\* The parent of zombie q collects it.
Reap(q) ==
  /\ q \in Zombies
  /\ parentOf[q] \in live
  /\ status'   = [r \in Zombies \ {q} |-> status[r]]
  /\ parentOf' = [r \in DOMAIN parentOf \ {q} |-> parentOf[r]]
  /\ UNCHANGED live

Next ==
  \/ \E p \in live, q \in live' \ live : Fork(p, q)
  \/ \E p \in live, s \in Statuses : Exit(p, s)
  \/ \E q \in Zombies : Reap(q)

Spec == Init /\ [][Next]_vars
=============================================================================
