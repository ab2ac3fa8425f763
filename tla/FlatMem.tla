------------------------------ MODULE FlatMem ------------------------------
(***************************************************************************)
(* What user memory is to a program and to the system calls that copy to   *)
(* and from it: numbers on the process's own pages, with permissions,      *)
(* whatever page tables and physical pages there are behind them.  Vm      *)
(* implements it.                                                          *)
(***************************************************************************)
EXTENDS Integers, Sequences, FiniteSets, FiniteSetsExt, TLC

CONSTANTS
  Procs,
  PGSIZE,            \* bytes of a page
  Usys,              \* the page that tells a process its pid
  IntBits, LongBits, \* the widths of pgaccess()'s shifts and of its mask
  Addrs, Counts,     \* the addresses and the numbers that are passed to calls,
  Spans,             \*   the numbers of pages that are passed to pgaccess(),
  Data               \*   what the program stores, and copyout() is to write

VARIABLES
  space,    \* for each process the pages that are mapped: who may do what
            \*   with one, and what is on it
  touched,  \* the pages it has accessed since pgaccess() last asked
  result,   \* of the last call
  panicked

vars == <<space, touched, result, panicked>>

Offsets   == 0 .. PGSIZE - 1
PageOf(a) == a \div PGSIZE
NoSpace   == [pg \in {} |-> 0]
Live      == {p \in Procs : space[p] # NoSpace}
Size(p)   == Cardinality(DOMAIN space[p] \ {Usys})

Done   == [err |-> FALSE, bytes |-> <<>>, pages |-> {}]
Failed == [Done EXCEPT !.err = TRUE]
Got(s) == [Done EXCEPT !.bytes = s]

ZeroPage    == [user |-> TRUE, write |-> TRUE, data |-> [o \in Offsets |-> 0]]
IsPidPage(page) == page.user /\ ~ page.write

Init ==
  /\ \E p \in Procs : Live = {p} /\ Size(p) = 1 /\ IsPidPage(space[p][Usys])
  /\ touched = [p \in Procs |-> {}]
  /\ result = Done
  /\ panicked = FALSE

-----------------------------------------------------------------------------
May(p, pg, write) ==
  /\ pg \in DOMAIN space[p]
  /\ space[p][pg].user
  /\ write => space[p][pg].write

\* How many bytes from a on, up to n, can be reached one after another.
Reach(p, a, n, write) ==
  CHOOSE m \in 0 .. n :
    /\ \A b \in a .. a + m - 1 : May(p, PageOf(b), write)
    /\ m < n => ~ May(p, PageOf(a + m), write)

Peek(p, a, n) ==
  [k \in 1 .. n |-> space[p][PageOf(a + k - 1)].data[(a + k - 1) % PGSIZE]]

Poke(p, a, s) ==
  LET At(pg, o) == pg * PGSIZE + o - a + 1
  IN  space' = [space EXCEPT ![p] =
        [pg \in DOMAIN @ |-> [@[pg] EXCEPT !.data =
           [o \in Offsets |-> IF At(pg, o) \in 1 .. Len(s) THEN s[At(pg, o)]
                                                           ELSE @[o]]]]]

Touch(p, pg) == touched' = [touched EXCEPT ![p] = @ \cup {pg}]

-----------------------------------------------------------------------------
\* The program

Load(p, a) ==
  /\ May(p, PageOf(a), FALSE)
  /\ Touch(p, PageOf(a))
  /\ result' = Got(Peek(p, a, 1))
  /\ UNCHANGED space

Store(p, a, b) ==
  /\ May(p, PageOf(a), TRUE)
  /\ result' = Done
  /\ Touch(p, PageOf(a))
  /\ Poke(p, a, <<b>>)

-----------------------------------------------------------------------------
\* Copies by the kernel: they are not accesses of the program.

\* What can be reached is written, also when that is not all.
CopyOut(p, a, s) ==
  LET n == Reach(p, a, Len(s), TRUE)
  IN  /\ UNCHANGED touched
      /\ result' = IF n = Len(s) THEN Done ELSE Failed
      /\ Poke(p, a, SubSeq(s, 1, n))

CopyIn(p, a, n) ==
  /\ result' = IF Reach(p, a, n, FALSE) = n THEN Got(Peek(p, a, n)) ELSE Failed
  /\ UNCHANGED <<space, touched>>

\* The string at a, with its 0, if it ends within max bytes.
CopyInStr(p, a, max) ==
  LET s == Peek(p, a, Reach(p, a, max, FALSE))
      Ends(k) == s[k] = 0 /\ \A l \in 1 .. k - 1 : s[l] # 0
  IN  /\ \/ \E k \in DOMAIN s : Ends(k) /\ result' = Got(SubSeq(s, 1, k))
         \/ (\A k \in DOMAIN s : ~ Ends(k)) /\ result' = Failed
      /\ UNCHANGED <<space, touched>>

-----------------------------------------------------------------------------
\* Memory comes and goes

\* New memory is 0, whoever had the page before; or there is none.
Grow(p, n) ==
  /\ \/ /\ space' = [space EXCEPT ![p] =
             @ @@ [pg \in Size(p) .. Size(p) + n - 1 |-> ZeroPage]]
        /\ result' = Done
     \/ UNCHANGED space /\ result' = Failed
  /\ UNCHANGED touched

Shrink(p, n) ==
  LET keep == DOMAIN space[p] \ (Size(p) - n .. Size(p) - 1)
  IN  /\ space' = [space EXCEPT ![p] = [pg \in keep |-> @[pg]]]
      /\ touched' = [touched EXCEPT ![p] = @ \cap keep]
      /\ result' = Done

\* The guard page of a stack.
Guard(p, pg) ==
  /\ space' = [space EXCEPT ![p][pg].user = FALSE]
  /\ result' = Done
  /\ UNCHANGED touched

\* The child has its own copy of everything, what the parent has accessed
\* included, and a pid of its own to read.
Fork(p, q) ==
  \/ /\ q \notin Live
     /\ Usys \in DOMAIN space'[q]
     /\ IsPidPage(space'[q][Usys])
     /\ \A r \in Live : space[r][Usys].data[0] # space'[q][Usys].data[0]
     /\ space' = [space EXCEPT ![q] = [space[p] EXCEPT ![Usys] = space'[q][Usys]]]
     /\ touched' = [touched EXCEPT ![q] = touched[p] \ {Usys}]
     /\ result' = Done
  \/ UNCHANGED <<space, touched>> /\ result' = Failed

Exit(p) ==
  /\ space'   = [space EXCEPT ![p] = NoSpace]
  /\ touched' = [touched EXCEPT ![p] = {}]
  /\ result'  = Done

-----------------------------------------------------------------------------
\* The page tables lab

MaskOf(bits) == MapThenSumSet(LAMBDA i : 2 ^ i, bits)

\* pgaccess() tells which of n pages have been accessed, exactly as long as
\* its shifts stay within an int, and forgets it.
PgAccess(p, first, n, a) ==
  LET hit == {i \in 0 .. n - 1 : first + i \in touched[p]}
  IN  /\ May(p, PageOf(a), TRUE)
      /\ result' = Done
      /\ touched' = [touched EXCEPT ![p] = @ \ {first + i : i \in hit}]
      /\ \E bits \in SUBSET (0 .. LongBits - 1) :
           /\ n < IntBits => bits = hit
           /\ Poke(p, a, <<MaskOf(bits)>>)
      /\ UNCHANGED panicked

\* It stops the kernel only when a page it is asked about is not mapped or
\* its answer has nowhere to go.
PgAccessPanic(p, first, n, a) ==
  /\ \/ ~ (first .. first + n - 1) \subseteq DOMAIN space[p]
     \/ ~ May(p, PageOf(a), TRUE)
  /\ panicked' = TRUE
  /\ UNCHANGED <<space, touched, result>>

\* vmprint() lists what is mapped, and with which permissions.
List(p) ==
  /\ result' = [Done EXCEPT !.pages =
       {<<pg, space[p][pg].user, space[p][pg].write>> : pg \in DOMAIN space[p]}]
  /\ UNCHANGED <<space, touched>>

-----------------------------------------------------------------------------
Call(p) ==
  \/ List(p) \/ Exit(p)
  \/ \E q \in Procs : Fork(p, q)
  \/ \E n \in Counts : Grow(p, n) \/ (n <= Size(p) /\ Shrink(p, n))
  \/ \E pg \in 0 .. Size(p) - 1 : Guard(p, pg)
  \/ \E a \in Addrs :
       \/ Load(p, a)
       \/ \E s \in Data : CopyOut(p, a, s) \/ Store(p, a, s[1])
       \/ \E n \in Counts : CopyIn(p, a, n) \/ CopyInStr(p, a, n)

\* The caller has its result.
Return == result' = Done /\ UNCHANGED <<space, touched, panicked>>

Next ==
  \/ Return
  \/ \E p \in Live :
       \/ Call(p) /\ UNCHANGED panicked
       \/ \E a, b \in Addrs, n \in Spans :
            \/ PgAccess(p, PageOf(b), n, a)
            \/ PgAccessPanic(p, PageOf(b), n, a)

Spec == Init /\ [][~ panicked /\ Next]_vars
=============================================================================
