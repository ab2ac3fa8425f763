------------------------------ MODULE UserPages ------------------------------
(***************************************************************************)
(* The physical pages a process is made of: what fork(), sbrk(), exit()    *)
(* and wait() take from the allocator and give back, when every kalloc()   *)
(* can fail.                                                               *)
(*                                                                         *)
(* Two labs add one page to each process: trapframesv (traps) and usysro   *)
(* (page tables).  Both are `extra' here; the labs differ in what          *)
(* freeproc() does with the pointer and in whether the page is mapped.     *)
(*                                                                         *)
(* One step takes at most one page from the allocator, so a process can    *)
(* find it empty between any two of its kalloc() calls.  The pages one     *)
(* call of freeproc(), uvmdealloc() or an error path gives back are given  *)
(* back in one step.  The free list is the bag of its pages, and kalloc()  *)
(* takes the lowest of them: which page it is makes no difference here     *)
(* (the list itself is the matter of Sysinfo).  A virtual user page is named by  *)
(* its number, va / PGSIZE.                                                *)
(***************************************************************************)
EXTENDS Integers, Sequences, FiniteSets

CONSTANTS
  Inner,   \* directory pages on a path of a page table, below its root
  PGSIZE,  \* bytes of a page
  Builds,  \* the kernels: which lab, NPROC, and how many pages kinit() frees
  Steps,   \* the arguments of sbrk()
  MaxSz    \* bound on the model: no sbrk() takes a process beyond MaxSz bytes

\* A page table has at least two levels, and kinit() frees enough pages for
\* the first process.
ASSUME UserPagesAssumption ==
  /\ Inner \in Nat \ {0}
  /\ PGSIZE \in Nat \ {0}
  /\ Steps \subseteq Int
  /\ MaxSz \in Nat /\ PGSIZE <= MaxSz
  /\ \A b \in Builds : /\ b.NPROC \in Nat \ {0}
                       /\ b.npages \in Nat /\ 4 + 2 * Inner <= b.npages

VARIABLES
  build,                            \* the kernel that runs: never changes
  freelist,                         \* kmem.freelist: how often each page is in it
  pstate, sz, trapframe, extra,     \* struct proc, by slot
  root,                             \* its page table: the root page,
  dirs,                             \*   the directory pages of its two ends,
  top,                              \*   the mappings at the top end
  leaf,                             \*   and those of user memory
  pc, np, va, mem, goal,            \* a process's call: the locals of fork()
                                    \*   and growproc()
  panic                             \* what panic() was called with

procVars  == <<pstate, sz, trapframe, extra>>
tableVars == <<root, dirs, top, leaf>>
callVars  == <<pc, np, va, mem, goal>>
vars == <<build, freelist, procVars, tableVars, callVars, panic>>

Slots == 0 .. build.NPROC - 1
Pages == 1 .. build.npages
Null  == 0
initproc == 0

Ends     == {"low", "top"}
NoDirs   == [e \in Ends |-> <<>>]
NoLeaves == <<>>
TopNames == {"TRAMPOLINE", "TRAPFRAME"} \cup
            (IF build.lab = "pgtbl" THEN {"USYSCALL"} ELSE {})

\* What proc_pagetable() maps at the top end.  The trampoline is kernel text.
TopOf(tf, x) ==
  [n \in TopNames |-> CASE n = "TRAMPOLINE" -> Null
                        [] n = "TRAPFRAME"  -> tf
                        [] n = "USYSCALL"   -> x]

\* PGROUNDUP(s) / PGSIZE
PageCount(s) == (s + PGSIZE - 1) \div PGSIZE

\* The virtual pages of a process of s bytes.
Memory(s) == 0 .. PageCount(s) - 1

\* userinit(): allocproc() and uvmfirst() take the first pages.
Init ==
  LET pte == 4 + Inner          \* after trapframe, extra, root, top end
  IN
  /\ build \in Builds
  /\ freelist  = [r \in Pages |-> IF r <= pte + Inner THEN 0 ELSE 1]
  /\ pstate    = [p \in Slots |-> IF p = initproc THEN "LIVE" ELSE "UNUSED"]
  /\ sz        = [p \in Slots |-> IF p = initproc THEN PGSIZE ELSE 0]
  /\ trapframe = [p \in Slots |-> IF p = initproc THEN 1 ELSE Null]
  /\ extra     = [p \in Slots |-> IF p = initproc THEN 2 ELSE Null]
  /\ root      = [p \in Slots |-> IF p = initproc THEN 3 ELSE Null]
  /\ dirs = [p \in Slots |-> IF p = initproc
                THEN [e \in Ends |-> [k \in 1 .. Inner |->
                        IF e = "top" THEN 3 + k ELSE pte + k]]
                ELSE NoDirs]
  /\ top  = [p \in Slots |-> IF p = initproc THEN TopOf(1, 2) ELSE <<>>]
  /\ leaf = [p \in Slots |-> IF p = initproc THEN [v \in {0} |-> pte]
                                             ELSE NoLeaves]
  /\ pc   = [p \in Slots |-> IF p = initproc THEN "user" ELSE "dead"]
  /\ np   = [p \in Slots |-> p]
  /\ va   = [p \in Slots |-> 0]
  /\ mem  = [p \in Slots |-> Null]
  /\ goal = [p \in Slots |-> 0]
  /\ panic = ""

-----------------------------------------------------------------------------
\* The allocator

\* kalloc() returns page r.
Kalloc(r) ==
  /\ freelist[r] > 0
  /\ \A s \in 1 .. r - 1 : freelist[s] = 0
  /\ freelist' = [freelist EXCEPT ![r] = @ - 1]

\* kalloc() returns 0.
Exhausted == \A r \in Pages : freelist[r] = 0

\* kfree() of the pages of s, one after the other; it is not called for a
\* null pointer.
Kfree(s) ==
  freelist' = [r \in Pages |-> freelist[r] + Cardinality({k \in DOMAIN s : s[k] = r})]

-----------------------------------------------------------------------------
\* Page tables

\* The pages mapped at f, from virtual page a up to, not including, b.
Run(f, a, b) == [k \in 1 .. (IF b > a THEN b - a ELSE 0) |-> f[a + k - 1]]

\* uvmunmap() panics unless all of vs is mapped in f.
Mapped(f, vs) == vs \subseteq DOMAIN f

Without(f, vs) == [v \in DOMAIN f \ vs |-> f[v]]
With(f, v, r)  == [w \in DOMAIN f \cup {v} |-> IF w = v THEN r ELSE f[w]]

\* The pages freewalk() frees: the directories of q, and the root.
TablePages(q) == dirs[q]["low"] \o dirs[q]["top"] \o <<root[q]>>

\* proc_freepagetable(): the pages it frees, and the panic it ends in when
\* the page table maps f and the process is thought to have size s.
FreedTable(q, f, s) == Run(f, 0, PageCount(s)) \o TablePages(q)
TablePanic(q, f, s) ==
  IF ~ Mapped(top[q], TopNames) \/ ~ Mapped(f, Memory(s))
  THEN "uvmunmap: not mapped"
  ELSE IF DOMAIN f # Memory(s) THEN "freewalk: leaf" ELSE ""

NoTable(q) ==
  /\ root' = [root EXCEPT ![q] = Null]
  /\ dirs' = [dirs EXCEPT ![q] = NoDirs]
  /\ top'  = [top EXCEPT ![q] = <<>>]
  /\ leaf' = [leaf EXCEPT ![q] = NoLeaves]

\* The pointers of a freed slot: the page tables lab leaves usysro as it is.
ClearSlot(q, x) ==
  /\ trapframe' = [trapframe EXCEPT ![q] = Null]
  /\ extra'  = [extra EXCEPT ![q] = IF build.lab = "traps" THEN Null ELSE x]
  /\ sz'     = [sz EXCEPT ![q] = 0]
  /\ pstate' = [pstate EXCEPT ![q] = "UNUSED"]

\* freeproc() of a slot without a page table whose extra pointer is x, after
\* the pages of first have been freed.
FreeBare(q, x, first) ==
  /\ Kfree(first \o <<trapframe[q], x>>)
  /\ ClearSlot(q, x)
  /\ NoTable(q)
  /\ UNCHANGED panic

\* freeproc() of a slot with a page table that maps f, after the pages of
\* first have been freed.
FreeProc(q, f, first) ==
  IF TablePanic(q, f, sz[q]) # ""
  THEN /\ panic' = TablePanic(q, f, sz[q])
       /\ UNCHANGED <<freelist, procVars, tableVars>>
  ELSE /\ Kfree(first \o <<trapframe[q], extra[q]>> \o FreedTable(q, f, sz[q]))
       /\ ClearSlot(q, extra[q])
       /\ NoTable(q)
       /\ UNCHANGED panic

Goto(p, l) == pc' = [pc EXCEPT ![p] = l]

\* p is back in user space: its locals are gone.
Return(p) ==
  /\ Goto(p, "user")
  /\ np'   = [np EXCEPT ![p] = p]
  /\ va'   = [va EXCEPT ![p] = 0]
  /\ mem'  = [mem EXCEPT ![p] = Null]
  /\ goal' = [goal EXCEPT ![p] = 0]

\* mappages() of page mem[p] at va[p] in the table of q: walk() takes one
\* directory page after another, then the entry is written and p goes on at
\* l with the next page.
MapStep(p, q, l) ==
  IF Len(dirs[q]["low"]) < Inner
  THEN /\ \E r \in Pages :
            /\ Kalloc(r)
            /\ dirs' = [dirs EXCEPT ![q]["low"] = Append(@, r)]
       /\ UNCHANGED <<leaf, pc, va, mem, panic>>
  ELSE /\ IF va[p] \in DOMAIN leaf[q]
          THEN panic' = "mappages: remap" /\ UNCHANGED leaf
          ELSE /\ leaf' = [leaf EXCEPT ![q] = With(@, va[p], mem[p])]
               /\ UNCHANGED panic
       /\ va'  = [va EXCEPT ![p] = @ + 1]
       /\ mem' = [mem EXCEPT ![p] = Null]
       /\ Goto(p, l)
       /\ UNCHANGED <<freelist, dirs>>

\* walk() needs a directory page and there is none.
MapFails(q) == Len(dirs[q]["low"]) < Inner /\ Exhausted

-----------------------------------------------------------------------------
\* fork()

\* allocproc() takes the first free slot.
ForkSlot(p) ==
  /\ pc[p] = "user"
  /\ \E q \in Slots :
       /\ pstate[q] = "UNUSED"
       /\ \A s \in Slots : s < q => pstate[s] # "UNUSED"
       /\ pstate' = [pstate EXCEPT ![q] = "USED"]
       /\ np' = [np EXCEPT ![p] = q]
  /\ Goto(p, "trapframe")
  /\ UNCHANGED <<freelist, sz, trapframe, extra, tableVars, va, mem, goal,
                 panic>>

\* The trapframe page.
ForkTrapframe(p) ==
  /\ pc[p] = "trapframe"
  /\ \/ /\ \E r \in Pages :
             /\ Kalloc(r)
             /\ trapframe' = [trapframe EXCEPT ![np[p]] = r]
        /\ Goto(p, "extra")
        /\ UNCHANGED <<pstate, sz, extra, tableVars, np, va, mem, goal, panic>>
     \/ /\ Exhausted
        /\ FreeBare(np[p], extra[np[p]], <<>>)
        /\ Return(p)

\* The lab's page: the pointer is overwritten whether or not there is one.
ForkExtra(p) ==
  /\ pc[p] = "extra"
  /\ \/ /\ \E r \in Pages :
             /\ Kalloc(r)
             /\ extra' = [extra EXCEPT ![np[p]] = r]
        /\ Goto(p, "root")
        /\ UNCHANGED <<pstate, sz, trapframe, tableVars, np, va, mem, goal,
                       panic>>
     \/ /\ Exhausted
        /\ FreeBare(np[p], Null, <<>>)
        /\ Return(p)

\* proc_pagetable(): uvmcreate().
ForkRoot(p) ==
  /\ pc[p] = "root"
  /\ \/ /\ \E r \in Pages :
             /\ Kalloc(r)
             /\ root' = [root EXCEPT ![np[p]] = r]
        /\ Goto(p, "top")
        /\ UNCHANGED <<procVars, dirs, top, leaf, np, va, mem, goal, panic>>
     \/ /\ Exhausted
        /\ FreeBare(np[p], extra[np[p]], <<>>)
        /\ Return(p)

\* proc_pagetable(): the path to the top end is made for TRAMPOLINE; the
\* other pages there are on the same path, so mapping them cannot fail.
ForkTop(p) ==
  LET q == np[p] IN
  /\ pc[p] = "top"
  /\ \/ \E r \in Pages :
          /\ Kalloc(r)
          /\ dirs' = [dirs EXCEPT ![q]["top"] = Append(@, r)]
          /\ IF Len(dirs[q]["top"]) + 1 < Inner
             THEN UNCHANGED <<top, pc>>
             ELSE /\ top' = [top EXCEPT ![q] = TopOf(trapframe[q], extra[q])]
                  /\ Goto(p, "copy")
          /\ UNCHANGED <<procVars, root, leaf, np, va, mem, goal, panic>>
     \/ /\ Exhausted
        /\ FreeBare(q, extra[q], TablePages(q))
        /\ Return(p)

\* uvmcopy() fails: it frees what it has copied, and fork() frees the slot.
CopyFails(p, first) ==
  LET q == np[p]
      copied == 0 .. va[p] - 1
  IN
  /\ IF ~ Mapped(leaf[q], copied)
     THEN /\ panic' = "uvmunmap: not mapped"
          /\ UNCHANGED <<freelist, procVars, tableVars>>
     ELSE FreeProc(q, Without(leaf[q], copied),
                   first \o Run(leaf[q], 0, va[p]))
  /\ Return(p)

\* uvmcopy(): the next page of the parent is copied into a new one.
CopyAlloc(p) ==
  /\ pc[p] = "copy"
  /\ va[p] * PGSIZE < sz[p]
  /\ \/ /\ \E r \in Pages :
             /\ Kalloc(r)
             /\ mem' = [mem EXCEPT ![p] = r]
        /\ Goto(p, "copymap")
        /\ UNCHANGED <<procVars, tableVars, np, va, goal, panic>>
     \/ /\ Exhausted
        /\ CopyFails(p, <<>>)

\* Mutant of CopyMap: mappages() fails and mem is not freed.
CopyMapLeak(p) ==
  /\ pc[p] = "copymap"
  /\ \/ /\ MapStep(p, np[p], "copy")
        /\ UNCHANGED <<procVars, root, top, np, goal>>
     \/ /\ MapFails(np[p])
        /\ CopyFails(p, <<>>)

CopyMap(p) ==
  /\ pc[p] = "copymap"
  /\ \/ /\ MapStep(p, np[p], "copy")
        /\ UNCHANGED <<procVars, root, top, np, goal>>
     \/ /\ MapFails(np[p])
        /\ CopyFails(p, <<mem[p]>>)

\* All is copied: the child is set up and becomes RUNNABLE.
ForkDone(p) ==
  LET q == np[p] IN
  /\ pc[p] = "copy"
  /\ va[p] * PGSIZE >= sz[p]
  /\ sz'     = [sz EXCEPT ![q] = sz[p]]
  /\ pstate' = [pstate EXCEPT ![q] = "LIVE"]
  /\ pc'     = [pc EXCEPT ![p] = "user", ![q] = "user"]
  /\ np'     = [np EXCEPT ![p] = p]
  /\ va'     = [va EXCEPT ![p] = 0]
  /\ UNCHANGED <<freelist, trapframe, extra, tableVars, mem, goal, panic>>

-----------------------------------------------------------------------------
\* growproc()

\* The pages of p from virtual page a up to b are unmapped and freed, after
\* those of first: uvmdealloc().
Dealloc(p, a, b, first) ==
  IF ~ Mapped(leaf[p], a .. b - 1)
  THEN /\ panic' = "uvmunmap: not mapped"
       /\ UNCHANGED <<freelist, leaf>>
  ELSE /\ Kfree(first \o Run(leaf[p], a, b))
       /\ leaf' = [leaf EXCEPT ![p] = Without(@, a .. b - 1)]
       /\ UNCHANGED panic

\* sbrk(n) with n > 0 enters uvmalloc().
Grow(p, n) ==
  /\ pc[p] = "user"
  /\ n > 0 /\ sz[p] + n <= MaxSz
  /\ Goto(p, "grow")
  /\ goal' = [goal EXCEPT ![p] = sz[p] + n]
  /\ va'   = [va EXCEPT ![p] = PageCount(sz[p])]
  /\ UNCHANGED <<freelist, procVars, tableVars, np, mem, panic>>

\* Mutant of GrowFails: uvmdealloc() also takes the page that is not there.
GrowFailsPastEnd(p, first) ==
  /\ Dealloc(p, PageCount(sz[p]), va[p] + 1, first)
  /\ Return(p)
  /\ UNCHANGED <<procVars, root, dirs, top>>

\* Mutant of GrowFails: the pages added so far stay mapped.
GrowFailsPartly(p, first) ==
  /\ Kfree(first)
  /\ Return(p)
  /\ UNCHANGED <<procVars, tableVars, panic>>

\* uvmalloc() fails: what it added goes, and the size stays.
GrowFails(p, first) ==
  /\ Dealloc(p, PageCount(sz[p]), va[p], first)
  /\ Return(p)
  /\ UNCHANGED <<procVars, root, dirs, top>>

GrowAlloc(p) ==
  /\ pc[p] = "grow"
  /\ va[p] * PGSIZE < goal[p]
  /\ \/ /\ \E r \in Pages :
             /\ Kalloc(r)
             /\ mem' = [mem EXCEPT ![p] = r]
        /\ Goto(p, "growmap")
        /\ UNCHANGED <<procVars, tableVars, np, va, goal, panic>>
     \/ /\ Exhausted
        /\ GrowFails(p, <<>>)

GrowMap(p) ==
  /\ pc[p] = "growmap"
  /\ \/ /\ MapStep(p, p, "grow")
        /\ UNCHANGED <<procVars, root, top, np, goal>>
     \/ /\ MapFails(p)
        /\ GrowFails(p, <<mem[p]>>)

GrowDone(p) ==
  /\ pc[p] = "grow"
  /\ va[p] * PGSIZE >= goal[p]
  /\ sz' = [sz EXCEPT ![p] = goal[p]]
  /\ Return(p)
  /\ UNCHANGED <<freelist, pstate, trapframe, extra, tableVars, panic>>

\* Mutant of Shrink: the size is signed, and can be below zero.
ShrinkSigned(p, n) ==
  /\ pc[p] = "user"
  /\ n < 0
  /\ Dealloc(p, PageCount(sz[p] + n), PageCount(sz[p]), <<>>)
  /\ sz' = [sz EXCEPT ![p] = @ + n]
  /\ UNCHANGED <<pstate, trapframe, extra, root, dirs, top, callVars>>

\* sbrk(n) with n < 0.  sz is unsigned: below zero it wraps to a size larger
\* than the old one, and uvmdealloc() leaves everything as it is.
Shrink(p, n) ==
  /\ pc[p] = "user"
  /\ n < 0 /\ sz[p] + n >= 0
  /\ Dealloc(p, PageCount(sz[p] + n), PageCount(sz[p]), <<>>)
  /\ sz' = [sz EXCEPT ![p] = @ + n]
  /\ UNCHANGED <<pstate, trapframe, extra, root, dirs, top, callVars>>

-----------------------------------------------------------------------------
\* exit() and wait()

\* An exited process keeps its pages until it is waited for.
Exit(p) ==
  /\ pc[p] = "user"
  /\ p # initproc
  /\ pstate' = [pstate EXCEPT ![p] = "ZOMBIE"]
  /\ Goto(p, "dead")
  /\ UNCHANGED <<freelist, sz, trapframe, extra, tableVars, np, va, mem, goal,
                 panic>>

\* wait() of p finds the zombie q.  Who is whose parent is ProcTable's
\* matter: any process may be.
Reap(p, q) ==
  /\ pc[p] = "user"
  /\ pstate[q] = "ZOMBIE"
  /\ FreeProc(q, leaf[q], <<>>)
  /\ UNCHANGED callVars

Fork(p) ==
  \/ ForkSlot(p) \/ ForkTrapframe(p) \/ ForkExtra(p) \/ ForkRoot(p)
  \/ ForkTop(p) \/ CopyAlloc(p) \/ CopyMap(p) \/ ForkDone(p)

Sbrk(p) ==
  \/ \E n \in Steps : Grow(p, n) \/ Shrink(p, n)
  \/ GrowAlloc(p) \/ GrowMap(p) \/ GrowDone(p)

Next ==
  /\ panic = ""
  /\ UNCHANGED build
  /\ \E p \in Slots : Fork(p) \/ Sbrk(p) \/ Exit(p) \/ (\E q \in Slots : Reap(p, q))

Spec == Init /\ [][Next]_vars

-----------------------------------------------------------------------------
\* Properties

Calls == {"dead", "user", "trapframe", "extra", "root", "top", "copy",
          "copymap", "grow", "growmap"}

\* Every variable keeps its type.
TypeOK ==
  LET MaybePage == Pages \cup {Null}
      Virtual   == 0 .. PageCount(MaxSz)
  IN
  /\ build \in Builds
  /\ freelist \in [Pages -> Nat]
  /\ pstate \in [Slots -> {"UNUSED", "USED", "LIVE", "ZOMBIE"}]
  /\ sz \in [Slots -> 0 .. MaxSz]
  /\ trapframe \in [Slots -> MaybePage] /\ extra \in [Slots -> MaybePage]
  /\ root \in [Slots -> MaybePage]
  /\ \A q \in Slots :
       /\ dirs[q] \in [Ends -> Seq(Pages)]
       /\ \A e \in Ends : Len(dirs[q][e]) <= Inner
       /\ DOMAIN top[q] \in {{}, TopNames}
       /\ DOMAIN leaf[q] \subseteq Virtual
       /\ \A v \in DOMAIN leaf[q] : leaf[q][v] \in Pages
  /\ pc \in [Slots -> Calls]
  /\ np \in [Slots -> Slots]
  /\ va \in [Slots -> Virtual]
  /\ mem \in [Slots -> MaybePage]
  /\ goal \in [Slots -> 0 .. MaxSz]

\* A fork() has taken slot q and not yet got to its lab's page: what extra[q]
\* points to is not q's.
BeforeExtra(q) == \E p \in Slots : np[p] = q /\ pc[p] \in {"trapframe", "extra"}

\* The places that have page r: a pointer of a slot or of a call,
At(name, f, r) == {<<name, p>> : p \in {q \in Slots : f[q] = r}}

ExtraAt(r) ==
  {<<"extra", p>> : p \in {q \in Slots : /\ extra[q] = r
                                        /\ pstate[q] # "UNUSED"
                                        /\ ~ BeforeExtra(q)}}

\* an entry of a table, a mapping of user memory,
DirAt(q, e, r) == {<<"dir", q, e, k>> : k \in {i \in DOMAIN dirs[q][e] : dirs[q][e][i] = r}}
LeafAt(q, r)   == {<<"memory", q, v>> : v \in {w \in DOMAIN leaf[q] : leaf[q][w] = r}}

\* or the free list.
Owners(r) ==
  {<<"free", k>> : k \in 1 .. freelist[r]}
  \cup At("trapframe", trapframe, r) \cup ExtraAt(r)
  \cup At("root", root, r)
  \cup (UNION {DirAt(q, e, r) : q \in Slots, e \in Ends})
  \cup (UNION {LeafAt(q, r) : q \in Slots})
  \cup At("local", mem, r)

\* Every page is at exactly one place: nothing is lost or handed out twice,
\* whichever kalloc() fails and however calls interleave.  This is the
\* promise of uvmcopy() ("frees any allocated pages on failure") and of
\* freeproc() ("free a proc structure and the data hanging from it"), and
\* what kfree() expects of its argument, "which normally should have been
\* returned by a call to kalloc()".
OneOwner == \A r \in Pages : Cardinality(Owners(r)) = 1

\* uvmunmap(), mappages() and freewalk() never find a page table that is not
\* what their caller takes it for.
NoPanic == panic = ""

\* A process that is not inside sbrk() has exactly the virtual pages of its
\* size: what uvmcopy(), uvmdealloc() and uvmfree() rely on without testing
\* it, also after a failed uvmalloc().
SizeMapped ==
  \A p \in Slots :
    pstate[p] \in {"LIVE", "ZOMBIE"} /\ pc[p] \notin {"grow", "growmap"}
      => DOMAIN leaf[p] = Memory(sz[p])

\* A process traps into its own trapframe and reads its own page: whatever
\* failed before, a live process has all of its pages, mapped at the top end.
OwnTop ==
  \A p \in Slots :
    pstate[p] \in {"LIVE", "ZOMBIE"} =>
      /\ Null \notin {trapframe[p], extra[p], root[p]}
      /\ top[p] = TopOf(trapframe[p], extra[p])

\* A process has what it runs on, whichever allocation failed before: the
\* pages of its size, and its own pages where trampoline.S and the user look.
MemoryWhole == SizeMapped /\ OwnTop
=============================================================================
