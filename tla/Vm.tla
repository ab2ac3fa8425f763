--------------------------------- MODULE Vm ---------------------------------
(***************************************************************************)
(* User memory as vm.c and pgaccss() make it of physical pages: page       *)
(* tables of three levels, the bytes behind them, the copies between user  *)
(* and kernel memory, and the accessed bits.                               *)
(*                                                                         *)
(* A call is one step: a process's tables and pages are its own, and it is *)
(* in one call at a time (which pages kalloc() gives, and how calls of     *)
(* several processes compete for them, is the matter of UserPages and of   *)
(* Sysinfo; here it is the lowest free page).  Memory sizes are in pages.  *)
(***************************************************************************)
EXTENDS Integers, Sequences, FiniteSets, FiniteSetsExt, SequencesExt, TLC

CONSTANTS
  Slots,             \* of the process table
  NPages,            \* pages of physical memory
  PGSIZE,            \* bytes of a page; as many entries has a page table
  IntBits, LongBits, \* bits of an int and of a uint64
  MaxSz, MaxPid,     \* bounds on the model: pages of a process, pids,
  MaxChanges,        \*   calls that are not only reads
  Addrs, Counts,     \* the addresses and the numbers that are passed to calls,
  Spans,             \*   the numbers of pages that are passed to pgaccess(),
  Data               \*   what the program stores, and copyout() is to write

Phys    == 1 .. NPages
Null    == 0
Offsets == 0 .. PGSIZE - 1
First   == CHOOSE p \in Slots : TRUE   \* the first process's

\* A cell of a page holds a number or a PTE: with no flags they are the same.
Pte(fl, pa) == [flags |-> fl, pa |-> pa]
Num(v)      == Pte({}, v)
Zero        == Num(0)
Junk        == Pte({"V"}, 1)        \* what kalloc() and kfree() fill pages with
Fill(cell)  == [o \in Offsets |-> cell]

\* Of the root only the entries 0 and 1 are used: MAXVA is "one bit less than
\* the max allowed".
MaxVaPage  == 2 * PGSIZE * PGSIZE
TRAMPOLINE == MaxVaPage - 1
TRAPFRAME  == MaxVaPage - 2
USYSCALL   == MaxVaPage - 3
KernelText == NPages + 1            \* where the trampoline is

PX(level, pg) == IF level = 0 THEN pg % PGSIZE
                 ELSE IF level = 1 THEN (pg \div PGSIZE) % PGSIZE
                 ELSE pg \div (PGSIZE * PGSIZE)
PageOf(a)     == a \div PGSIZE

\* Three entries of a table are at the top; a user address has the bits of three
\* indices; and kinit() frees what userinit() needs.
ASSUME VmAssumption ==
  /\ Slots # {} /\ NPages \in Nat /\ NPages >= 8
  /\ PGSIZE \in Nat /\ PGSIZE >= 3
  /\ IntBits \in Nat \ {0} /\ LongBits \in Nat
  /\ MaxSz \in 1 .. USYSCALL
  /\ Addrs \subseteq Nat /\ \A a \in Addrs : PX(2, PageOf(a)) < PGSIZE
  /\ Counts \subseteq Nat /\ Spans \subseteq Nat
  /\ Data \subseteq Seq(Nat) \ {<<>>}

VARIABLES
  mem, free,  \* what is on each physical page; those that are free
  root, sz,   \* struct proc: pagetable and sz
  nextpid,
  result,     \* of the last call
  panicked,
  space, touched, \* history: what all that amounts to (see FlatMem)
  changes         \* history: how many calls were not only reads

vars == <<mem, free, root, sz, nextpid, result, panicked, space, touched, changes>>

Done   == [err |-> FALSE, bytes |-> <<>>, printed |-> <<>>]
Failed == [Done EXCEPT !.err = TRUE]
Live   == {p \in Slots : root[p] # Null}

-----------------------------------------------------------------------------
\* Memory m is a record of `mem' and `free', so that a function of vm.c can
\* be an operator from the memory before to the memory after.

Memory == [mem |-> mem, free |-> free]
Becomes(m) == mem' = m.mem /\ free' = m.free

\* The page kalloc() returns, and the memory with c on it.
Page(m)     == Min(m.free)
Take(m, c)  == [mem |-> [m.mem EXCEPT ![Page(m)] = c], free |-> m.free \ {Page(m)}]

\* Mutant of Give: the pages keep what is on them.
GiveAsTheyAre(m, P) == [m EXCEPT !.free = @ \cup P]

\* kfree() of all the pages P.
Give(m, P) == [mem |-> [q \in Phys |-> IF q \in P THEN Fill(Junk) ELSE m.mem[q]],
               free |-> m.free \cup P]

Put(m, t, x, cell) == [m EXCEPT !.mem[t][x] = cell]

\* walk() without alloc: the table, in the memory mm, that has the entry of
\* page pg; Null when there is none.
Down(mm, t, x) == IF t # Null /\ "V" \in mm[t][x].flags THEN mm[t][x].pa ELSE Null
Table(mm, rt, pg) == Down(mm, Down(mm, rt, PX(2, pg)), PX(1, pg))

Entry(rt, pg) ==
  LET t == Table(mem, rt, pg) IN IF t = Null THEN Zero ELSE mem[t][PX(0, pg)]

\* walk() with alloc: one level, and both.  The result is the memory after it
\* and the table, Null when it could not be allocated.
NewTable(w, x) ==
  LET t == Down(w.m.mem, w.t, x)
  IN  IF w.t = Null \/ t # Null THEN [w EXCEPT !.t = t]
      ELSE IF w.m.free = {} THEN [w EXCEPT !.t = Null]
      ELSE [m |-> Put(Take(w.m, Fill(Zero)), w.t, x, Pte({"V"}, Page(w.m))),
            t |-> Page(w.m)]

Walk(m, rt, pg) == NewTable(NewTable([m |-> m, t |-> rt], PX(2, pg)), PX(1, pg))

\* mappages() of one page.
Mappages(m, rt, pg, pa, perm) ==
  LET w == Walk(m, rt, pg)
  IN  IF w.t = Null THEN [m |-> w.m, ok |-> FALSE]
      ELSE [m |-> Put(w.m, w.t, PX(0, pg), Pte(perm \cup {"V"}, pa)), ok |-> TRUE]

\* kalloc() of a page, with c on it, that is mapped at pg; kfree() if it cannot be.
MapNew(m, rt, pg, c, perm) ==
  LET w == Mappages(Take(m, c), rt, pg, Page(m), perm)
  IN  IF m.free = {} THEN [m |-> m, ok |-> FALSE]
      ELSE IF w.ok THEN w
      ELSE [w EXCEPT !.m = Give(w.m, {Page(m)})]

\* Mutant of Unmap: the entries stay valid.
UnmapKeepsEntries(m, rt, pages) ==
  Give(m, {m.mem[Table(m.mem, rt, pg)][PX(0, pg)].pa : pg \in pages})

\* uvmunmap() with do_free.
Unmap(m, rt, pages) ==
  LET t(pg) == Table(m.mem, rt, pg)
      Cleared(q, x) == \E pg \in pages : t(pg) = q /\ PX(0, pg) = x
  IN  Give([m EXCEPT !.mem =
              [q \in Phys |-> [x \in Offsets |-> IF Cleared(q, x) THEN Zero
                                                 ELSE m.mem[q][x]]]],
           {m.mem[t(pg)][PX(0, pg)].pa : pg \in pages})

\* The loop of uvmalloc() and of uvmcopy(): pages with c[pg] on them are mapped,
\* page `from' first.  When one cannot be, those before it are given back, but
\* not the tables walk() has allocated.
MapOne(r, rt, from, pg, c, perm) ==
  LET w == MapNew(r.m, rt, pg, c[pg], perm[pg])
  IN  IF ~ r.ok THEN r
      ELSE IF w.ok THEN w
      ELSE [w EXCEPT !.m = Unmap(w.m, rt, from .. pg - 1)]

MapAll(m0, rt, from, to, c, perm) ==
  LET loop[k \in from .. to] ==   \* after the pages before k
        IF k = from THEN [m |-> m0, ok |-> TRUE]
        ELSE MapOne(loop[k - 1], rt, from, k - 1, c, perm)
  IN  loop[to]

-----------------------------------------------------------------------------
\* What the user sees of p: the pages that are mapped, and which of them the
\* program has accessed.  (No call goes beyond MaxSz but for USYSCALL.)
UserPagesOf(p) ==
  {pg \in 0 .. MaxSz \cup {USYSCALL} : "V" \in Entry(root[p], pg).flags}

Value(cell) == IF cell.flags = {} THEN cell.pa ELSE -1

Space(p) ==
  [pg \in IF root[p] = Null THEN {} ELSE UserPagesOf(p) |->
     LET e == Entry(root[p], pg)
     IN  [user |-> "U" \in e.flags, write |-> "W" \in e.flags,
          data |-> [o \in Offsets |-> Value(mem[e.pa][o])]]]

Spaces == [p \in Slots |-> Space(p)]
Marks  ==
  [p \in Slots |-> {pg \in DOMAIN space[p] : "A" \in Entry(root[p], pg).flags}]

-----------------------------------------------------------------------------
\* Processes

\* allocproc() and proc_pagetable() with the pid id: the trapframe, the page
\* with the pid, the root, and the three mappings at the top, which have one
\* table in common.
AllocProc(m0, id) ==
  LET m1 == Take(m0, Fill(Junk))
      m2 == Take(m1, [Fill(Junk) EXCEPT ![0] = Num(id)])
      m3 == Take(m2, Fill(Zero))
      rt == Page(m2)
      a  == Mappages(m3, rt, TRAMPOLINE, KernelText, {"R", "X"})
      b  == Mappages(a.m, rt, TRAPFRAME, Page(m0), {"R", "W"})
      c  == Mappages(b.m, rt, USYSCALL, Page(m1), {"R", "U"})
  IN  IF Cardinality(m0.free) < 3 \/ ~ a.ok
      THEN [m |-> m0, rt |-> rt, ok |-> FALSE]
      ELSE [m |-> c.m, rt |-> rt, ok |-> TRUE]

\* userinit(): one page for the first process.
Init ==
  LET start == [mem |-> [q \in Phys |-> Fill(Junk)], free |-> Phys]
      a == AllocProc(start, 1)
      u == MapNew(a.m, a.rt, 0, Fill(Zero), {"R", "W", "X", "U"})
  IN  /\ mem = u.m.mem /\ free = u.m.free
      /\ root = [p \in Slots |-> IF p = First THEN a.rt ELSE Null]
      /\ sz   = [p \in Slots |-> IF p = First THEN 1 ELSE 0]
      /\ nextpid = 2
      /\ result = Done
      /\ panicked = FALSE
      /\ space = Spaces /\ touched = Marks
      /\ changes = 0

\* Mutant of Fork: the child gets the table of the parent.
ForkShares(p, q) ==
  /\ root[q] = Null /\ free # {} /\ nextpid <= MaxPid
  /\ nextpid' = nextpid + 1
  /\ root' = [root EXCEPT ![q] = root[p]]
  /\ sz' = [sz EXCEPT ![q] = sz[p]]
  /\ result' = Done
  /\ UNCHANGED <<mem, free>>

\* fork(): uvmcopy() copies the flags of an entry as they are, also "A".  When
\* it fails everything goes back to the allocator, the junk on it again.
\* Bound: fork() is not called when not even a trapframe is to be had; what
\* freeproc() does then is the matter of UserPages.
Fork(p, q) ==
  LET a == AllocProc(Memory, nextpid)
      copied == [pg \in 0 .. sz[p] - 1 |-> mem[Entry(root[p], pg).pa]]
      flags  == [pg \in 0 .. sz[p] - 1 |-> Entry(root[p], pg).flags]
      c == MapAll(a.m, a.rt, 0, sz[p], copied, flags)
  IN  /\ root[q] = Null
      /\ free # {}
      /\ nextpid <= MaxPid
      /\ nextpid' = nextpid + 1
      /\ IF a.ok /\ c.ok
         THEN /\ Becomes(c.m)
              /\ root' = [root EXCEPT ![q] = a.rt]
              /\ sz' = [sz EXCEPT ![q] = sz[p]]
              /\ result' = Done
         ELSE UNCHANGED <<mem, free, root, sz>> /\ result' = Failed

\* growproc() with n > 0.
Grow(p, n) ==
  LET new   == sz[p] .. sz[p] + n - 1
      blank == [pg \in new |-> Fill(Zero)]
      perm  == [pg \in new |-> {"R", "U", "W"}]
      r == MapAll(Memory, root[p], sz[p], sz[p] + n, blank, perm)
  IN  /\ sz[p] + n <= MaxSz
      /\ Becomes(r.m)
      /\ sz' = IF r.ok THEN [sz EXCEPT ![p] = @ + n] ELSE sz
      /\ result' = IF r.ok THEN Done ELSE Failed
      /\ UNCHANGED <<root, nextpid>>

\* growproc() with n < 0, through uvmdealloc().
Shrink(p, n) ==
  /\ n <= sz[p]
  /\ Becomes(Unmap(Memory, root[p], sz[p] - n .. sz[p] - 1))
  /\ sz' = [sz EXCEPT ![p] = @ - n]
  /\ result' = Done
  /\ UNCHANGED <<root, nextpid>>

\* uvmclear(): exec() calls it for the guard page below the stack.
Uvmclear(p, pg) ==
  LET t == Table(mem, root[p], pg)
  IN  /\ mem' = [mem EXCEPT ![t][PX(0, pg)].flags = @ \ {"U"}]
      /\ result' = Done
      /\ UNCHANGED <<free, root, sz, nextpid>>

\* The tables freewalk() goes through, and the pages that are mapped.
Below(t) == {e.pa : e \in {f \in {mem[t][x] : x \in Offsets} :
                             "V" \in f.flags /\ f.flags \cap {"R", "W", "X"} = {}}}
Tables(rt) == {rt} \cup Below(rt) \cup UNION {Below(t) : t \in Below(rt)}
Pages(p)   == {Entry(root[p], pg).pa : pg \in 0 .. sz[p] - 1}
Extras(p)  == {Entry(root[p], pg).pa : pg \in {TRAPFRAME, USYSCALL}}
Owned(p)   == Tables(root[p]) \cup Pages(p) \cup Extras(p)

\* exit(), and freeproc() when the parent waits.  Below sz everything is mapped
\* and above nothing is, so that neither uvmunmap() nor freewalk() panics (see
\* UserPages).
Exit(p) ==
  /\ p # First
  /\ Becomes(Give(Memory, Owned(p)))
  /\ root' = [root EXCEPT ![p] = Null]
  /\ sz'   = [sz EXCEPT ![p] = 0]
  /\ result' = Done
  /\ UNCHANGED nextpid

-----------------------------------------------------------------------------
\* The program

ByteAt(rt, a) == Value(mem[Entry(rt, PageOf(a)).pa][a % PGSIZE])

\* The bytes s at a, where all pages are mapped.
Written(m, rt, a, s) ==
  [m EXCEPT !.mem = [q \in Phys |-> [o \in Offsets |->
     LET ks == {k \in DOMAIN s : /\ Entry(rt, PageOf(a + k - 1)).pa = q
                                 /\ (a + k - 1) % PGSIZE = o}
     IN  IF ks = {} THEN m.mem[q][o] ELSE Num(s[CHOOSE k \in ks : TRUE])]]]

\* The hardware lets the program at page pg and sets the accessed bit.
Access(p, pg, perm) == {"V", "U", perm} \subseteq Entry(root[p], pg).flags
Accessed(m, p, pg) ==
  [m EXCEPT !.mem[Table(mem, root[p], pg)][PX(0, pg)].flags = @ \cup {"A"}]

Load(p, a) ==
  /\ Access(p, PageOf(a), "R")
  /\ Becomes(Accessed(Memory, p, PageOf(a)))
  /\ result' = [Done EXCEPT !.bytes = <<ByteAt(root[p], a)>>]
  /\ UNCHANGED <<root, sz, nextpid>>

Store(p, a, b) ==
  /\ Access(p, PageOf(a), "W")
  /\ Becomes(Written(Accessed(Memory, p, PageOf(a)), root[p], a, <<b>>))
  /\ result' = Done
  /\ UNCHANGED <<root, sz, nextpid>>

-----------------------------------------------------------------------------
\* Copies between user and kernel memory

\* The loops of copyout(), copyin() and copyinstr(): page after page, up to
\* the first without the flags; so many of the n bytes at a are reached.
Reached(rt, a, n, flags) ==
  LET ok(pg) == pg < MaxVaPage /\ flags \subseteq Entry(rt, pg).flags
      pages  == {pg \in PageOf(a) .. PageOf(a + n - 1) :
                   \A below \in PageOf(a) .. pg : ok(below)}
  IN  IF pages = {} THEN 0 ELSE Min({n, (Max(pages) + 1) * PGSIZE - a})

\* Mutant of CopyoutFlags: PTE_W is not looked at.
CopyoutAnywhere == {"V", "U"}

CopyoutFlags == {"V", "U", "W"}

\* walkaddr().
CopyinFlags == {"V", "U"}

Copyout(p, a, s) ==
  LET n == Reached(root[p], a, Len(s), CopyoutFlags)
  IN  /\ Becomes(Written(Memory, root[p], a, SubSeq(s, 1, n)))
      /\ result' = IF n = Len(s) THEN Done ELSE Failed
      /\ UNCHANGED <<root, sz, nextpid>>

Copyin(p, a, n) ==
  /\ result' = IF Reached(root[p], a, n, CopyinFlags) = n
               THEN [Done EXCEPT !.bytes = [k \in 1 .. n |-> ByteAt(root[p], a + k - 1)]]
               ELSE Failed
  /\ UNCHANGED <<mem, free, root, sz, nextpid>>

Copyinstr(p, a, max) ==
  LET n == Reached(root[p], a, max, CopyinFlags)
      nul == {k \in 1 .. n : ByteAt(root[p], a + k - 1) = 0}
  IN  /\ result' = IF nul = {} THEN Failed
                   ELSE [Done EXCEPT !.bytes =
                           [k \in 1 .. Min(nul) |-> ByteAt(root[p], a + k - 1)]]
      /\ UNCHANGED <<mem, free, root, sz, nextpid>>

-----------------------------------------------------------------------------
\* The page tables lab

\* The bits `bitmask | (1 << i)' sets: the shift is that of an int, by i modulo
\* its width, and its sign is extended.
Bits(i) == IF i % IntBits = IntBits - 1 THEN i % IntBits .. LongBits - 1
                                        ELSE {i % IntBits}

MaskOf(bits) ==
  LET from[b \in 0 .. LongBits] ==   \* what the bits b and above make
        IF b = LongBits THEN 0 ELSE (IF b \in bits THEN 1 ELSE 0) + 2 * from[b + 1]
  IN  from[0]

\* pgaccss(): it reads through the null pointer walk() returns when there is no
\* table, and walk() panics past the end.  When copyout() fails it has the table
\* of its process freed as if there were one page: freewalk() panics at the leaves
\* of more, and kfree() at buf, a user address.  The mask is one byte here.
Pgaccss(p, first, n, a) ==
  LET rt    == root[p]
      pages == first .. first + n - 1
      hit   == {pg \in pages : "A" \in Entry(rt, pg).flags}
      mask  == MaskOf(UNION {Bits(pg - first) : pg \in hit})
      m == [Memory EXCEPT !.mem = [q \in Phys |-> [x \in Offsets |->
              IF \E pg \in hit : Table(mem, rt, pg) = q /\ PX(0, pg) = x
              THEN [mem[q][x] EXCEPT !.flags = @ \ {"A"}] ELSE mem[q][x]]]]
  IN  /\ pages \cap {TRAPFRAME, TRAMPOLINE} = {} \* the kernel's own accesses
      /\ IF \/ \E pg \in pages : pg >= MaxVaPage \/ Table(mem, rt, pg) = Null
            \/ Reached(rt, a, 1, CopyoutFlags) = 0
         THEN panicked' = TRUE /\ UNCHANGED <<mem, free, result>>
         ELSE /\ Becomes(Written(m, rt, a, <<mask>>))
              /\ result' = Done
              /\ UNCHANGED panicked
      /\ UNCHANGED <<root, sz, nextpid>>

\* dfs(): a line for every valid entry, with its depth and index, and after
\* that of a table those of the table.
Dfs[level \in 0 .. 2, t \in Phys] ==
  FlattenSeq([k \in 1 .. PGSIZE |->
    LET e == mem[t][k - 1]
        line == [level |-> level, i |-> k - 1, flags |-> e.flags]
    IN  IF "V" \notin e.flags THEN <<>>
        ELSE IF e.flags \cap {"R", "W", "X"} = {}
        THEN <<line>> \o Dfs[level + 1, e.pa]
        ELSE <<line>>])

Vmprint(p) ==
  /\ result' = [Done EXCEPT !.printed = Dfs[0, root[p]]]
  /\ UNCHANGED <<mem, free, root, sz, nextpid>>

-----------------------------------------------------------------------------
OwnCall(p) ==
  \/ Exit(p)
  \/ \E n \in Counts : Grow(p, n) \/ Shrink(p, n)
  \/ \E pg \in 0 .. sz[p] - 1 : Uvmclear(p, pg)
  \/ \E a \in Addrs :
       Load(p, a) \/ \E s \in Data : Store(p, a, s[1]) \/ Copyout(p, a, s)

Change(p) == OwnCall(p) \/ \E q \in Slots : Fork(p, q)

AskAccess(p) == \E a, b \in Addrs, n \in Spans : Pgaccss(p, PageOf(b), n, a)

ReadOnly(p) ==
  \/ Vmprint(p)
  \/ \E a \in Addrs, n \in Counts : Copyin(p, a, n) \/ Copyinstr(p, a, n)

\* The caller has its result.
Return == result # Done /\ result' = Done /\ UNCHANGED <<mem, free, root, sz, nextpid>>

Next ==
  /\ ~ panicked
  /\ \/ UNCHANGED <<panicked, changes>> /\ Return
     \/ \E p \in Live : /\ result = Done
                        /\ ReadOnly(p)
                        /\ UNCHANGED <<panicked, changes>>
     \/ \E p \in Live :
          /\ result = Done /\ changes < MaxChanges
          /\ changes' = changes + 1
          /\ \/ Change(p) /\ UNCHANGED panicked
             \/ AskAccess(p)
  /\ space' = Spaces' /\ touched' = Marks'

Spec == Init /\ [][Next]_vars

-----------------------------------------------------------------------------
\* Properties

Cells == [flags : SUBSET {"V", "R", "W", "X", "U", "A"}, pa : Nat]

\* Every variable keeps its type, and free pages hold nothing but junk.
TypeOK ==
  /\ mem \in [Phys -> [Offsets -> Cells]]
  /\ free \subseteq Phys
  /\ root \in [Slots -> Phys \cup {Null}] /\ sz \in [Slots -> 0 .. MaxSz]
  /\ nextpid \in Nat /\ panicked \in BOOLEAN
  /\ \A q \in free : mem[q] = Fill(Junk)

\* The pages of p that walkaddr() and the kernel count on.
Needed(p) == (0 .. sz[p] - 1) \cup {TRAPFRAME, USYSCALL}

\* Whatever mappages(), uvmunmap(), uvmcopy() and their failures have done, no
\* page of memory has two uses: it is not free as well, it is not another
\* process's, it is not a table and data, and it is not mapped twice.
PagesApart ==
  \A p \in Live :
    /\ Owned(p) \subseteq Phys \ free
    /\ \A q \in Live \ {p} : Owned(p) \cap Owned(q) = {}
    /\ Tables(root[p]) \cap (Pages(p) \cup Extras(p)) = {}
    /\ \A pg, pn \in Needed(p) : Entry(root[p], pg).pa = Entry(root[p], pn).pa => pg = pn

\* A process's memory: what is mapped where, with which flags, what is on it, and
\* its trap frame.
Mine(p) ==
  [pg \in {pn \in Needed(p) : root[p] # Null /\ "V" \in Entry(root[p], pn).flags} |->
     <<Entry(root[p], pg), mem[Entry(root[p], pg).pa]>>]

\* A process's memory changes by its own calls only, but for the one it begins
\* with, which is fork()'s; and with it, nobody else's.  So what a call does to
\* tables, and to the pages it takes and gives back, is never seen by others, and
\* fork() leaves the parent's memory as it is.
OwnCallsOnly ==
  [][\A p \in Slots : Mine(p)' # Mine(p) =>
       /\ IF root[p] = Null THEN \E q \in Live : Fork(q, p)
                            ELSE OwnCall(p) \/ AskAccess(p)
       /\ \A q \in Slots \ {p} : Mine(q)' = Mine(q)]_vars

\* What vmprint() printed, as somebody reads it who knows how pages are
\* numbered: the last lines with less depth say which table a line is of.
ReadBack(lines) ==
  LET TableLine(k, d) == Max({l \in 1 .. k : lines[l].level = d})
      Number(k) == (lines[TableLine(k, 0)].i * PGSIZE + lines[TableLine(k, 1)].i) * PGSIZE
                   + lines[k].i
      leaves == {k \in DOMAIN lines : lines[k].level = 2 /\ Number(k) < TRAPFRAME}
  IN  {<<Number(k), "U" \in lines[k].flags, "W" \in lines[k].flags>> : k \in leaves}

Flat == INSTANCE FlatMem WITH
  Procs   <- Slots,
  Usys    <- USYSCALL,
  result  <- [err |-> result.err, bytes |-> result.bytes,
              pages |-> ReadBack(result.printed)]

\* The page tables give every process memory of its own: what it stores and
\* what the kernel copies to it is what is read from it later, new memory is 0
\* whoever had the page before, a child begins with its parent's memory and its
\* own pid, no call writes where the program may not, and pgaccess() tells what
\* the program has accessed since it last asked, up to 31 pages at a time.
FlatSpec == Flat!Spec
=============================================================================
