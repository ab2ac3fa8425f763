---------------------------- MODULE MCUserPages ----------------------------
(* Instances of UserPages for TLC. *)
EXTENDS UserPages

Traps(n, pages) == [lab |-> "traps", NPROC |-> n, npages |-> pages]
Pgtbl(n, pages) == [lab |-> "pgtbl", NPROC |-> n, npages |-> pages]

\* The first process has 4 + 2 * Inner pages.  With two slots, the second
\* process runs out of memory at any one of its kalloc() calls; with three,
\* two processes compete for the last page.  In the page tables lab only the
\* copy can run out of memory: a trapframe is always to be had.
SafeBuilds == {Traps(2, n) : n \in 6 .. 12} \cup {Traps(3, 13), Pgtbl(2, 14)}

\* Here it is not.
ScarceBuilds == {Pgtbl(2, 11)}

Bytes == {3, -2}
=============================================================================
