--------------------------- MODULE UserPagesProofs ---------------------------
(***************************************************************************)
(* Proofs about the pages of a process: whichever kalloc() fails, and      *)
(* however the calls of several processes interleave, a page table is what *)
(* fork(), sbrk(), exit() and wait() take it for, so that none of them     *)
(* ends in a panic, and every page of the traps lab's kernel is at exactly *)
(* one place.                                                              *)
(***************************************************************************)
EXTENDS UserPages, FiniteSetTheorems, SequenceTheorems, TLAPS

-----------------------------------------------------------------------------
\* Numbers of pages

\* PGROUNDUP: as many pages as the bytes need, and no more.
LEMMA PagesNeeded ==
  ASSUME UserPagesAssumption, NEW s \in Nat, NEW k \in Int
  PROVE  /\ PageCount(s) \in Nat
         /\ k * PGSIZE >= s <=> k >= PageCount(s)
<1>1. PGSIZE \in Nat \ {0}
  BY DEF UserPagesAssumption
<1>2. PageCount(s) \in Nat
  BY <1>1 DEF PageCount
<1>3. k * PGSIZE >= s <=> k >= PageCount(s)
  BY <1>1 DEF PageCount
<1> QED
  BY <1>2, <1>3

\* More bytes need no fewer pages.
LEMMA PagesGrow ==
  ASSUME UserPagesAssumption, NEW s \in Nat, NEW t \in Nat, s <= t
  PROVE  PageCount(s) <= PageCount(t)
<1>1. PGSIZE \in Nat \ {0}
  BY DEF UserPagesAssumption
<1> QED
  BY <1>1 DEF PageCount

\* No bytes need no page, and the first process's program one.
LEMMA FewPages ==
  ASSUME UserPagesAssumption PROVE PageCount(0) = 0 /\ PageCount(PGSIZE) = 1
<1>1. PGSIZE \in Nat \ {0}
  BY DEF UserPagesAssumption
<1>2. PageCount(0) = 0
  BY <1>1 DEF PageCount
<1>3. PageCount(PGSIZE) = 1
  BY <1>1 DEF PageCount
<1> QED
  BY <1>2, <1>3

-----------------------------------------------------------------------------
\* The allocator and the page tables

MaybePage == Pages \cup {Null}
Virtual   == 0 .. PageCount(MaxSz)

\* kfree() only puts pages into the free list.
LEMMA KfreeKeepsType ==
  ASSUME freelist \in [Pages -> Nat], NEW s \in Seq(MaybePage), Kfree(s)
  PROVE  freelist' \in [Pages -> Nat]
<1>1. ASSUME NEW r \in Pages PROVE Cardinality({k \in DOMAIN s : s[k] = r}) \in Nat
  <2>1. IsFiniteSet(DOMAIN s)
    BY FS_Interval
  <2>2. IsFiniteSet({k \in DOMAIN s : s[k] = r})
    BY <2>1, FS_Subset
  <2> QED
    BY <2>2, FS_CardinalityType
<1> QED
  BY <1>1 DEF Kfree

\* What is mapped at f, from page a up to b, is a sequence of pages.
LEMMA RunIsSeq ==
  ASSUME NEW f, NEW a \in Int, NEW b \in Int,
         \A v \in a .. b - 1 : f[v] \in Pages
  PROVE  Run(f, a, b) \in Seq(MaybePage)
<1> DEFINE n == IF b > a THEN b - a ELSE 0
<1>1. n \in Nat
  OBVIOUS
<1>2. \A k \in 1 .. n : f[a + k - 1] \in MaybePage
  BY DEF MaybePage
<1> HIDE DEF n
<1>3. [k \in 1 .. n |-> f[a + k - 1]] \in Seq(MaybePage)
  BY <1>1, <1>2
<1> QED
  BY <1>3 DEF Run, n

\* The kernel that runs never changes.
LEMMA Unmoved ==
  ASSUME build' = build
  PROVE  /\ Slots' = Slots /\ Pages' = Pages /\ TopNames' = TopNames
         /\ \A a, b : TopOf(a, b)' = TopOf(a, b)
  BY DEF Slots, Pages, TopNames, TopOf

-----------------------------------------------------------------------------
\* The invariant

Forking == {"trapframe", "extra", "root", "top", "copy", "copymap"}
Growing == {"grow", "growmap"}

\* The slots are the domains of the fields of struct proc.
Shape ==
  /\ DOMAIN dirs = Slots
  /\ DOMAIN top = Slots
  /\ DOMAIN leaf = Slots

\* A slot without a page table, and one with all of its pages.
Bare(q) ==
  /\ root[q] = Null
  /\ dirs[q] = NoDirs
  /\ top[q] = <<>>
  /\ leaf[q] = NoLeaves
  /\ sz[q] = 0

Whole(q) ==
  /\ trapframe[q] # Null /\ extra[q] # Null /\ root[q] # Null
  /\ top[q] = TopOf(trapframe[q], extra[q])

\* How far the fork() of p has got with slot q.
Filling(p, q) ==
  /\ pstate[q] = "USED" /\ sz[q] = 0
  /\ pc[p] \in {"trapframe", "extra", "root"} => Bare(q)
  /\ pc[p] = "trapframe" => trapframe[q] = Null
  /\ pc[p] \in {"extra", "root", "top"} => trapframe[q] # Null
  /\ pc[p] \in {"root", "top"} => extra[q] # Null
  /\ pc[p] = "top" => /\ root[q] # Null
                      /\ dirs[q]["low"] = <<>> /\ Len(dirs[q]["top"]) < Inner
                      /\ top[q] = <<>> /\ leaf[q] = NoLeaves
  /\ pc[p] \in {"copy", "copymap"} => /\ Whole(q)
                                      /\ DOMAIN leaf[q] = 0 .. va[p] - 1
                                      /\ va[p] <= PageCount(sz[p])
  /\ pc[p] = "copymap" => va[p] < PageCount(sz[p])

\* How far the sbrk() of p has got.
Extending(p) ==
  /\ sz[p] <= goal[p]
  /\ PageCount(sz[p]) <= va[p] /\ va[p] <= PageCount(goal[p])
  /\ DOMAIN leaf[p] = 0 .. va[p] - 1
  /\ pc[p] = "growmap" => va[p] < PageCount(goal[p])

\* A slot is what its state, and the call its process is in, say.
Good(p) ==
  /\ pc[p] # "dead" <=> pstate[p] = "LIVE"
  /\ pstate[p] = "UNUSED" => Bare(p) /\ trapframe[p] = Null
  /\ pstate[p] \in {"LIVE", "ZOMBIE"} => Whole(p)
  /\ pstate[p] \in {"LIVE", "ZOMBIE"} /\ pc[p] \notin Growing =>
       DOMAIN leaf[p] = Memory(sz[p])
  /\ pc[p] \notin Forking => np[p] = p
  /\ pc[p] \in Forking => Filling(p, np[p])
  /\ pc[p] \in Growing => Extending(p)
  /\ pc[p] \notin Growing \cup {"copy", "copymap"} => va[p] = 0
  /\ mem[p] # Null <=> pc[p] \in {"copymap", "growmap"}

\* Two forks never fill the same slot.
Alone ==
  \A p, u \in Slots :
    pc[p] \in Forking /\ pc[u] \in Forking /\ np[p] = np[u] => p = u

IInv ==
  /\ TypeOK /\ Shape
  /\ NoPanic
  /\ Alone
  /\ \A p \in Slots : Good(p)

-----------------------------------------------------------------------------
\* Who a step disturbs

\* Nothing of slot u changes, or nothing of the call its process is in.
SameSlot(u) ==
  /\ pstate'[u] = pstate[u] /\ sz'[u] = sz[u]
  /\ trapframe'[u] = trapframe[u] /\ extra'[u] = extra[u]
  /\ root'[u] = root[u] /\ dirs'[u] = dirs[u]
  /\ top'[u] = top[u] /\ leaf'[u] = leaf[u]

SameCall(u) ==
  /\ pc'[u] = pc[u] /\ np'[u] = np[u] /\ va'[u] = va[u]
  /\ mem'[u] = mem[u] /\ goal'[u] = goal[u]

\* What a step leaves alone stays good.
LEMMA SameIsGood ==
  ASSUME build' = build, NEW u \in Slots, Good(u), SameCall(u), SameSlot(u),
         pc[u] \in Forking => SameSlot(np[u])
  PROVE  Good(u)'
<1>1. pc[u] \in Forking => Filling(u, np[u])'
  <2> SUFFICES ASSUME pc[u] \in Forking PROVE Filling(u, np[u])'
    OBVIOUS
  <2>1. Filling(u, np[u])
    BY DEF Good
  <2> DEFINE q0 == np[u]
  <2>2. np'[u] = q0 /\ SameSlot(q0)
    BY DEF SameCall
  <2>3. Filling(u, q0)
    BY <2>1
  <2>4. \A a, b : TopOf(a, b)' = TopOf(a, b)
    BY Unmoved
  <2> QED
    BY <2>2, <2>3, <2>4
    DEF SameCall, SameSlot, Filling, Bare, Whole, PageCount, NoDirs, NoLeaves, Null
<1>2. pc[u] \in Growing => Extending(u)'
  BY DEF Good, Extending, SameCall, SameSlot, PageCount
<1>3. pstate[u] \in {"LIVE", "ZOMBIE"} => Whole(u)'
  BY Unmoved DEF Good, Whole, SameSlot, Null
<1>4. pstate[u] = "UNUSED" => Bare(u)'
  BY DEF Good, Bare, SameSlot, NoDirs, NoLeaves, Null
<1> QED
  BY <1>1, <1>2, <1>3, <1>4
  DEF Good, SameCall, SameSlot, Memory, PageCount, Null

\* p writes to its own slot, to the one its fork() fills, to one that is free
\* or to a zombie: no other call is about that one.
LEMMA OthersStayGood ==
  ASSUME IInv, build' = build, NEW p \in Slots, pc[p] # "dead", NEW q \in Slots,
         \/ q = p
         \/ pc[p] \in Forking /\ q = np[p]
         \/ pstate[q] \in {"UNUSED", "ZOMBIE"},
         NEW u \in Slots, u # p, u # q,
         SameCall(u), \A w \in Slots \ {p, q} : SameSlot(w)
  PROVE  Good(u)'
<1>1. Good(u) /\ Good(p)
  BY DEF IInv
<1>2. pc[u] \in Forking => np[u] \in Slots /\ np[u] # p /\ np[u] # q
  <2> SUFFICES ASSUME pc[u] \in Forking PROVE np[u] \in Slots /\ np[u] # p /\ np[u] # q
    OBVIOUS
  <2>1. np[u] \in Slots
    BY DEF IInv, TypeOK
  <2>2. pstate[np[u]] = "USED"
    BY <1>1 DEF Good, Filling
  <2>3. pstate[p] = "LIVE"
    BY <1>1 DEF Good
  <2>4. pc[p] \in Forking => np[p] # np[u]
    BY DEF IInv, Alone
  <2> QED
    BY <2>1, <2>2, <2>3, <2>4
<1>3. pc[u] \in Forking => SameSlot(np[u])
  BY <1>2
<1> QED
  BY <1>1, <1>3, SameIsGood

-----------------------------------------------------------------------------
\* freeproc()

\* Slot q has been freed: all that can differ is what its extra pointer is.
Freed(q) ==
  /\ freelist' \in [Pages -> Nat]
  /\ pstate' = [pstate EXCEPT ![q] = "UNUSED"]
  /\ sz' = [sz EXCEPT ![q] = 0]
  /\ trapframe' = [trapframe EXCEPT ![q] = Null]
  /\ \E x \in MaybePage : extra' = [extra EXCEPT ![q] = x]
  /\ NoTable(q)
  /\ panic' = panic

\* The types of one slot.
LEMMA SlotTypes ==
  ASSUME TypeOK, NEW q \in Slots
  PROVE  /\ freelist \in [Pages -> Nat]
         /\ trapframe[q] \in MaybePage /\ extra[q] \in MaybePage
         /\ root[q] \in MaybePage
         /\ dirs[q]["low"] \in Seq(MaybePage) /\ dirs[q]["top"] \in Seq(MaybePage)
         /\ \A v \in DOMAIN leaf[q] : leaf[q][v] \in Pages
         /\ sz[q] \in 0 .. MaxSz /\ goal[q] \in 0 .. MaxSz
         /\ mem[q] \in MaybePage
         /\ np[q] \in Slots /\ va[q] \in Virtual
<1>1. \A e \in Ends : dirs[q][e] \in Seq(Pages)
  BY DEF TypeOK
<1>2. dirs[q]["low"] \in Seq(Pages) /\ dirs[q]["top"] \in Seq(Pages)
  BY <1>1 DEF Ends
<1>3. dirs[q]["low"] \in Seq(MaybePage) /\ dirs[q]["top"] \in Seq(MaybePage)
  BY <1>2, SeqMonotonic DEF MaybePage
<1>4. \A v \in DOMAIN leaf[q] : leaf[q][v] \in Pages
  BY DEF TypeOK
<1> QED
  BY <1>3, <1>4 DEF TypeOK, MaybePage, Virtual

\* The pages of the two ends of a table and its root.
LEMMA TablePagesAreSeq ==
  ASSUME TypeOK, NEW q \in Slots PROVE TablePages(q) \in Seq(MaybePage)
<1>1. <<root[q]>> \in Seq(MaybePage)
  BY SlotTypes
<1> QED
  BY <1>1, SlotTypes, ConcatProperties DEF TablePages

\* freeproc() of a slot without a page table frees the slot.
LEMMA FreeBareFrees ==
  ASSUME TypeOK, NEW q \in Slots, NEW x \in MaybePage,
         NEW first \in Seq(MaybePage), FreeBare(q, x, first)
  PROVE  Freed(q)
<1>1. <<trapframe[q], x>> \in Seq(MaybePage)
  BY SlotTypes
<1>2. first \o <<trapframe[q], x>> \in Seq(MaybePage)
  BY <1>1, ConcatProperties
<1>3. freelist' \in [Pages -> Nat]
  BY <1>2, SlotTypes, KfreeKeepsType DEF FreeBare
<1>4. \E y \in MaybePage : extra' = [extra EXCEPT ![q] = y]
  BY DEF FreeBare, ClearSlot, MaybePage
<1> QED
  BY <1>3, <1>4 DEF FreeBare, ClearSlot, Freed

\* proc_freepagetable() does not panic over a table that has its top end and
\* the virtual pages of its size,
LEMMA NoTablePanic ==
  ASSUME NEW q \in Slots, NEW f, Whole(q), DOMAIN f = Memory(sz[q])
  PROVE  TablePanic(q, f, sz[q]) = ""
<1>1. DOMAIN top[q] = TopNames
  BY DEF Whole, TopOf
<1> QED
  BY <1>1 DEF TablePanic, Mapped

\* so that freeproc() frees a slot with such a table, too.
LEMMA FreeProcFrees ==
  ASSUME UserPagesAssumption, TypeOK, NEW q \in Slots, NEW f,
         Whole(q), DOMAIN f = Memory(sz[q]), \A v \in DOMAIN f : f[v] \in Pages,
         NEW first \in Seq(MaybePage), FreeProc(q, f, first)
  PROVE  Freed(q)
<1>1. TablePanic(q, f, sz[q]) = ""
  BY NoTablePanic
<1>2. FreedTable(q, f, sz[q]) \in Seq(MaybePage)
  <2>1. PageCount(sz[q]) \in Int
    <3>1. sz[q] \in Nat
      BY SlotTypes DEF UserPagesAssumption
    <3> QED
      BY <3>1, PagesNeeded
  <2>2. Run(f, 0, PageCount(sz[q])) \in Seq(MaybePage)
    BY <2>1, RunIsSeq DEF Memory
  <2> QED
    BY <2>2, TablePagesAreSeq, ConcatProperties DEF FreedTable
<1>3. <<trapframe[q], extra[q]>> \in Seq(MaybePage)
  BY SlotTypes
<1>4. first \o <<trapframe[q], extra[q]>> \in Seq(MaybePage)
  BY <1>3, ConcatProperties
<1> DEFINE all == first \o <<trapframe[q], extra[q]>> \o FreedTable(q, f, sz[q])
<1>5. all \in Seq(MaybePage)
  BY <1>2, <1>4, ConcatProperties
<1>6. /\ Kfree(all)
      /\ ClearSlot(q, extra[q]) /\ NoTable(q) /\ UNCHANGED panic
  BY <1>1 DEF FreeProc
<1> HIDE DEF all
<1>7. freelist' \in [Pages -> Nat]
  BY <1>5, <1>6, SlotTypes, KfreeKeepsType
<1>8. extra[q] \in MaybePage /\ Null \in MaybePage
  BY SlotTypes DEF MaybePage
<1>9. \E y \in MaybePage : extra' = [extra EXCEPT ![q] = y]
  BY <1>6, <1>8 DEF ClearSlot
<1> QED
  BY <1>6, <1>7, <1>9 DEF ClearSlot, Freed

\* After that the invariant holds: fork() gives back the slot it could not
\* fill, or wait() frees a zombie.
LEMMA AfterFree ==
  ASSUME UserPagesAssumption, IInv, build' = build,
         NEW p \in Slots, NEW q \in Slots, Freed(q),
         \/ pc[p] \in Forking /\ q = np[p] /\ Return(p)
         \/ pc[p] = "user" /\ pstate[q] = "ZOMBIE" /\ UNCHANGED callVars
  PROVE  IInv'
<1>0. TypeOK /\ Shape /\ NoPanic /\ Alone /\ \A u \in Slots : Good(u)
  BY DEF IInv
<1>1. /\ p # q /\ pc[q] = "dead" /\ np[q] = q /\ pstate[q] \in {"USED", "ZOMBIE"}
      /\ pc[p] \notin Growing /\ pc[p] # "dead" /\ pstate[p] = "LIVE"
  <2>1. pstate[p] = "LIVE" /\ pstate[q] \in {"USED", "ZOMBIE"}
    BY <1>0 DEF Good, Filling, Forking
  <2> QED
    BY <1>0, <2>1 DEF Good, Forking, Growing
<1>2. 0 \in Virtual /\ Null \in MaybePage /\ 0 \in 0 .. MaxSz
  BY PagesNeeded DEF UserPagesAssumption, Virtual, MaybePage
<1>3. /\ pc' \in [Slots -> Calls] /\ np' \in [Slots -> Slots]
      /\ va' \in [Slots -> Virtual] /\ mem' \in [Slots -> MaybePage]
      /\ goal' \in [Slots -> 0 .. MaxSz]
  <2>1. /\ pc \in [Slots -> Calls] /\ np \in [Slots -> Slots]
        /\ va \in [Slots -> Virtual] /\ mem \in [Slots -> MaybePage]
        /\ goal \in [Slots -> 0 .. MaxSz]
    BY <1>0 DEF TypeOK, Virtual, MaybePage
  <2>2. CASE Return(p)
    BY <1>2, <2>1, <2>2 DEF Return, Goto, Calls
  <2>3. CASE UNCHANGED callVars
    BY <2>1, <2>3 DEF callVars
  <2> QED
    BY <2>2, <2>3
<1>4. /\ \A u \in Slots \ {p} : SameCall(u)
      /\ pc'[p] = "user" /\ np'[p] = p /\ va'[p] = 0 /\ mem'[p] = Null
  BY <1>0, <1>1 DEF TypeOK, Return, Goto, callVars, SameCall, Good, Forking, Growing
<1>5. \A w \in Slots \ {q} : SameSlot(w)
  BY <1>0 DEF TypeOK, Shape, Freed, NoTable, SameSlot
<1>6. /\ pstate'[q] = "UNUSED" /\ trapframe'[q] = Null /\ sz'[q] = 0
      /\ root'[q] = Null /\ dirs'[q] = NoDirs /\ top'[q] = <<>>
      /\ leaf'[q] = NoLeaves
  BY <1>0 DEF TypeOK, Shape, Freed, NoTable
<1>7. TypeOK'
  <2>1. /\ freelist' \in [Pages -> Nat]
        /\ pstate' \in [Slots -> {"UNUSED", "USED", "LIVE", "ZOMBIE"}]
        /\ sz' \in [Slots -> 0 .. MaxSz]
        /\ trapframe' \in [Slots -> MaybePage] /\ extra' \in [Slots -> MaybePage]
        /\ root' \in [Slots -> MaybePage]
    BY <1>0, <1>2 DEF TypeOK, Freed, NoTable, MaybePage
  <2>2. NoDirs \in [Ends -> Seq(Pages)] /\ \A e \in Ends : Len(NoDirs[e]) <= Inner
    BY DEF NoDirs, UserPagesAssumption
  <2>3. DOMAIN NoLeaves = {} /\ DOMAIN <<>> = {}
    BY DEF NoLeaves
  <2>4. ASSUME NEW w \in Slots
        PROVE  /\ dirs'[w] \in [Ends -> Seq(Pages)]
               /\ \A e \in Ends : Len(dirs'[w][e]) <= Inner
               /\ DOMAIN top'[w] \in {{}, TopNames}
               /\ DOMAIN leaf'[w] \subseteq Virtual
               /\ \A v \in DOMAIN leaf'[w] : leaf'[w][v] \in Pages
    <3>1. CASE w = q
      BY <1>6, <2>2, <2>3, <3>1
    <3>2. CASE w # q
      BY <1>0, <1>5, <3>2 DEF TypeOK, SameSlot, Virtual
    <3> QED
      BY <3>1, <3>2
  <2> QED
    BY <1>0, <1>3, <2>1, <2>4, Unmoved
    DEF TypeOK, MaybePage, Virtual, PageCount, Calls, Ends, Null
<1>8. Shape'
  BY <1>0, Unmoved DEF Shape, Freed, NoTable
<1>9. NoPanic'
  BY <1>0 DEF NoPanic, Freed
<1>10. Alone'
  BY <1>0, <1>4, Unmoved DEF Alone, SameCall, Forking
<1>11. Good(p)'
  <2>1. Good(p) /\ SameSlot(p)
    BY <1>0, <1>1, <1>5
  <2> QED
    BY <1>1, <1>4, <2>1, Unmoved
    DEF Good, SameSlot, Whole, Forking, Growing, Memory, PageCount, Null
<1>12. Good(q)'
  BY <1>0, <1>1, <1>4, <1>6
  DEF Good, SameCall, Bare, Forking, Growing, NoDirs, NoLeaves, Null
<1>13. \A u \in Slots \ {p, q} : Good(u)'
  BY <1>1, <1>4, <1>5, OthersStayGood
<1> QED
  BY <1>7, <1>8, <1>9, <1>10, <1>11, <1>12, <1>13, Unmoved DEF IInv

-----------------------------------------------------------------------------
\* Steps of one process

\* A step of p that is not in fork() is about its own slot and call.
LEMMA OwnStep ==
  ASSUME IInv, build' = build, TypeOK', Shape', panic' = panic,
         NEW p \in Slots, pc[p] \notin Forking \cup {"dead"}, pc'[p] \notin Forking,
         \A u \in Slots \ {p} : SameCall(u) /\ SameSlot(u),
         Good(p)'
  PROVE  IInv'
<1>1. NoPanic'
  BY DEF IInv, NoPanic
<1>2. Alone'
  BY Unmoved DEF IInv, Alone, SameCall, Forking
<1>3. \A u \in Slots \ {p} : Good(u)'
  BY OthersStayGood
<1> QED
  BY <1>1, <1>2, <1>3, Unmoved DEF IInv

\* One of a fork() that goes on is about the slot it fills.
LEMMA ForkGoesOn ==
  ASSUME IInv, build' = build, TypeOK', Shape', panic' = panic,
         NEW p \in Slots, pc[p] \in Forking, pc'[p] \in Forking, np' = np,
         pstate' = pstate, \A u \in Slots \ {p} : SameCall(u),
         \A w \in Slots \ {np[p]} : SameSlot(w),
         Filling(p, np[p])',
         pc'[p] \notin {"copy", "copymap"} => va'[p] = 0,
         mem'[p] # Null <=> pc'[p] = "copymap"
  PROVE  IInv'
<1>0. Good(p) /\ Good(np[p]) /\ np[p] \in Slots
  BY DEF IInv, TypeOK
<1>1. NoPanic'
  BY DEF IInv, NoPanic
<1>2. Alone'
  BY Unmoved DEF IInv, Alone, SameCall, Forking
<1>3. /\ pstate[np[p]] = "USED" /\ pc[np[p]] = "dead" /\ np[np[p]] = np[p]
      /\ pstate[p] = "LIVE" /\ np[p] # p
  BY <1>0 DEF Good, Filling, Forking
<1>4. Good(p)'
  BY <1>0, <1>3, Unmoved
  DEF Good, SameSlot, Whole, Forking, Growing, Memory, PageCount, Null
<1>5. Good(np[p])'
  BY <1>0, <1>3 DEF Good, SameCall, Forking, Growing
<1>6. \A u \in Slots \ {p, np[p]} : Good(u)'
  BY <1>0, <1>3, OthersStayGood DEF Forking
<1> QED
  BY <1>1, <1>2, <1>4, <1>5, <1>6, Unmoved DEF IInv

\* kalloc() returns a page, and the free list stays what it is.
LEMMA KallocKeepsType ==
  ASSUME freelist \in [Pages -> Nat], NEW r \in Pages, Kalloc(r)
  PROVE  freelist' \in [Pages -> Nat] /\ r # Null
  BY DEF Kalloc, Pages, Null

\* The types, when page tables are told apart from the rest.
TableTypes(q) ==
  /\ dirs[q] \in [Ends -> Seq(Pages)]
  /\ \A e \in Ends : Len(dirs[q][e]) <= Inner
  /\ DOMAIN top[q] \in {{}, TopNames}
  /\ DOMAIN leaf[q] \subseteq Virtual
  /\ \A v \in DOMAIN leaf[q] : leaf[q][v] \in Pages

SlotsTyped ==
  /\ freelist \in [Pages -> Nat]
  /\ pstate \in [Slots -> {"UNUSED", "USED", "LIVE", "ZOMBIE"}]
  /\ sz \in [Slots -> 0 .. MaxSz]
  /\ trapframe \in [Slots -> MaybePage] /\ extra \in [Slots -> MaybePage]
  /\ root \in [Slots -> MaybePage]

CallsTyped ==
  /\ pc \in [Slots -> Calls]
  /\ np \in [Slots -> Slots]
  /\ va \in [Slots -> Virtual]
  /\ mem \in [Slots -> MaybePage]
  /\ goal \in [Slots -> 0 .. MaxSz]

\* The types taken apart,
LEMMA Types ==
  TypeOK <=> build \in Builds /\ SlotsTyped /\ CallsTyped /\ \A q \in Slots : TableTypes(q)
  BY DEF TypeOK, SlotsTyped, CallsTyped, TableTypes, MaybePage, Virtual

\* and put together after a step.
LEMMA TypesAgain ==
  ASSUME TypeOK, build' = build, SlotsTyped', CallsTyped',
         \A q \in Slots : TableTypes(q)'
  PROVE  TypeOK'
<1>1. build' \in Builds
  BY DEF TypeOK
<1>2. \A q \in Slots' : TableTypes(q)'
  BY Unmoved
<1>3. SlotsTyped' /\ CallsTyped'
  OBVIOUS
<1> QED
  BY <1>1, <1>2, <1>3
  DEF TypeOK, SlotsTyped, CallsTyped, TableTypes, MaybePage, Virtual

\* The numbers of a call, and when one of uvmcopy()'s and uvmalloc()'s loops ends.
LEMMA Numbers ==
  ASSUME UserPagesAssumption, SlotsTyped, CallsTyped, NEW p \in Slots
  PROVE  /\ sz[p] \in Nat /\ goal[p] \in Nat /\ va[p] \in Nat
         /\ 0 \in Virtual /\ PageCount(0) = 0
         /\ PageCount(sz[p]) \in Nat /\ PageCount(goal[p]) \in Nat
         /\ va[p] * PGSIZE < sz[p] => va[p] < PageCount(sz[p])
         /\ va[p] * PGSIZE >= sz[p] => va[p] >= PageCount(sz[p])
         /\ va[p] * PGSIZE < goal[p] => va[p] < PageCount(goal[p])
         /\ va[p] * PGSIZE >= goal[p] => va[p] >= PageCount(goal[p])
<1>1. MaxSz \in Nat /\ PGSIZE \in Nat
  BY DEF UserPagesAssumption
<1>2. PageCount(MaxSz) \in Nat
  BY <1>1, PagesNeeded
<1>3. va[p] \in Nat /\ 0 \in Virtual
  BY <1>2 DEF CallsTyped, Virtual
<1>4. sz[p] \in Nat /\ goal[p] \in Nat
  BY <1>1 DEF SlotsTyped, CallsTyped
<1>5. \A s \in Nat : /\ PageCount(s) \in Nat
                     /\ va[p] * PGSIZE >= s <=> va[p] >= PageCount(s)
  BY <1>3, PagesNeeded
<1>6. va[p] * PGSIZE \in Nat
  BY <1>1, <1>3
<1>7. ASSUME NEW s \in Nat
      PROVE  /\ va[p] * PGSIZE < s => va[p] < PageCount(s)
             /\ va[p] * PGSIZE >= s => va[p] >= PageCount(s)
  <2>1. PageCount(s) \in Nat /\ (va[p] * PGSIZE >= s <=> va[p] >= PageCount(s))
    BY <1>5
  <2> DEFINE b == va[p] * PGSIZE
  <2>2. b \in Nat
    BY <1>6
  <2> HIDE DEF b
  <2>3. ~ (b >= s) <=> b < s
    BY <2>2
  <2>4. ~ (va[p] >= PageCount(s)) <=> va[p] < PageCount(s)
    BY <1>3, <2>1
  <2> QED
    BY <2>1, <2>3, <2>4 DEF b
<1> QED
  BY <1>3, <1>4, <1>5, <1>7, FewPages

\* The page table of q is as it was, or one of its fields is not.
LEMMA TablesAgain ==
  ASSUME TypeOK, build' = build, NEW q \in Slots,
         \A w \in Slots \ {q} : SameSlot(w), TableTypes(q)'
  PROVE  \A w \in Slots : TableTypes(w)'
<1> SUFFICES ASSUME NEW w \in Slots, w # q PROVE TableTypes(w)'
  OBVIOUS
<1>1. TableTypes(w)
  BY Types
<1> QED
  BY <1>1, Unmoved DEF TableTypes, SameSlot, Ends, Virtual, PageCount

-----------------------------------------------------------------------------
\* fork()

\* allocproc() takes a free slot, which no other fork() fills.
LEMMA ForkSlotStep ==
  ASSUME UserPagesAssumption, IInv, build' = build,
         NEW p \in Slots, ForkSlot(p)
  PROVE  IInv'
<1>0. TypeOK /\ Shape /\ NoPanic /\ Alone /\ \A u \in Slots : Good(u)
  BY DEF IInv
<1>1. SlotsTyped /\ CallsTyped /\ \A w \in Slots : TableTypes(w)
  BY <1>0, Types
<1>2. PICK q \in Slots : /\ pstate[q] = "UNUSED"
                         /\ pstate' = [pstate EXCEPT ![q] = "USED"]
                         /\ np' = [np EXCEPT ![p] = q]
  BY DEF ForkSlot
<1>3. /\ pc[p] = "user" /\ pc' = [pc EXCEPT ![p] = "trapframe"]
      /\ UNCHANGED <<freelist, sz, trapframe, extra, root, dirs, top, leaf,
                     va, mem, goal, panic>>
  BY DEF ForkSlot, Goto, tableVars
<1>4. pstate[p] = "LIVE" /\ p # q /\ pc[q] = "dead" /\ np[q] = q
  BY <1>0, <1>2, <1>3 DEF Good, Forking
<1>5. /\ \A w \in Slots \ {q} : SameSlot(w)
      /\ \A u \in Slots \ {p} : SameCall(u)
  BY <1>1, <1>2, <1>3 DEF SlotsTyped, CallsTyped, SameSlot, SameCall
<1>6. pc'[p] = "trapframe" /\ np'[p] = q /\ pstate'[q] = "USED" /\ pstate'[p] = "LIVE"
  BY <1>1, <1>2, <1>3, <1>4 DEF SlotsTyped, CallsTyped
<1>7. TypeOK'
  <2>1. SlotsTyped'
    BY <1>1, <1>2, <1>3, Unmoved DEF SlotsTyped, MaybePage, Null
  <2>2. CallsTyped'
    BY <1>1, <1>2, <1>3, Unmoved
    DEF CallsTyped, Calls, MaybePage, Null, Virtual, PageCount
  <2>3. \A w \in Slots : TableTypes(w)'
    BY <1>1, <1>3, Unmoved DEF TableTypes, Ends, Virtual, PageCount
  <2> QED
    BY <1>0, <2>1, <2>2, <2>3, TypesAgain
<1>8. Shape' /\ NoPanic'
  BY <1>0, <1>3, Unmoved DEF Shape, NoPanic
<1>9. Alone'
  <2>1. \A u \in Slots : pc[u] \in Forking => np[u] # q
    BY <1>0, <1>2 DEF Good, Filling
  <2> QED
    BY <1>0, <1>5, <1>6, <2>1, Unmoved DEF Alone, SameCall
<1>10. Good(p)'
  <2>1. Bare(q) /\ trapframe[q] = Null
    BY <1>0, <1>2 DEF Good
  <2>2. Filling(p, q)'
    BY <1>3, <1>6, <2>1 DEF Filling, Bare, NoDirs, NoLeaves, Null
  <2>3. Whole(p)'
    BY <1>0, <1>3, <1>4, Unmoved DEF Good, Whole, Null
  <2>4. DOMAIN leaf'[p] = Memory(sz[p])'
    BY <1>0, <1>3, <1>4 DEF Good, Growing, Memory, PageCount
  <2> QED
    BY <1>0, <1>3, <1>6, <2>2, <2>3, <2>4 DEF Good, Forking, Growing, Null
<1>11. Good(q)'
  BY <1>0, <1>2, <1>4, <1>5, <1>6 DEF Null, Good, SameCall, Forking, Growing
<1>12. \A u \in Slots \ {p, q} : Good(u)'
  BY <1>2, <1>3, <1>5, OthersStayGood
<1> QED
  BY <1>7, <1>8, <1>9, <1>10, <1>11, <1>12, Unmoved DEF IInv

\* A kalloc() fails before there is a page table: what there is goes back.
LEMMA ForkGivesUp ==
  ASSUME UserPagesAssumption, IInv, build' = build,
         NEW p \in Slots, pc[p] \in Forking, Return(p),
         NEW x \in MaybePage, NEW first \in Seq(MaybePage),
         FreeBare(np[p], x, first)
  PROVE  IInv'
<1>1. np[p] \in Slots /\ TypeOK
  BY DEF IInv, TypeOK
<1>2. Freed(np[p])
  BY <1>1, FreeBareFrees
<1> QED
  BY <1>1, <1>2, AfterFree

\* No page is mapped.
LEMMA NothingIsSeq == <<>> \in Seq(MaybePage)
  OBVIOUS

\* The trapframe, the lab's page, and the root of the page table.
LEMMA ForkPagesStep ==
  ASSUME UserPagesAssumption, IInv, build' = build, NEW p \in Slots,
         ForkTrapframe(p) \/ ForkExtra(p) \/ ForkRoot(p)
  PROVE  IInv'
<1>0. TypeOK /\ Shape /\ NoPanic /\ Alone /\ \A u \in Slots : Good(u)
  BY DEF IInv
<1>1. SlotsTyped /\ CallsTyped /\ \A w \in Slots : TableTypes(w)
  BY <1>0, Types
<1> PICK q \in Slots : q = np[p]
  BY <1>1 DEF CallsTyped
<1>2. pc[p] \in Forking /\ Filling(p, q)
  BY <1>0, <1>1 DEF Good, Forking, ForkTrapframe, ForkExtra, ForkRoot
<1>3. extra[q] \in MaybePage /\ Null \in MaybePage
  BY <1>1, <1>2 DEF SlotsTyped, MaybePage
<1>4. ASSUME Exhausted, \E x \in MaybePage : FreeBare(q, x, <<>>), Return(p)
      PROVE  IInv'
  BY <1>2, <1>4, NothingIsSeq, ForkGivesUp
<1>5. ASSUME NEW r \in Pages, Kalloc(r), NEW l \in {"extra", "root", "top"},
             pc' = [pc EXCEPT ![p] = l],
             UNCHANGED <<pstate, sz, dirs, top, leaf, np, va, mem, goal, panic>>,
             \/ /\ pc[p] = "trapframe" /\ l = "extra"
                /\ trapframe' = [trapframe EXCEPT ![q] = r]
                /\ UNCHANGED <<extra, root>>
             \/ /\ pc[p] = "extra" /\ l = "root"
                /\ extra' = [extra EXCEPT ![q] = r]
                /\ UNCHANGED <<trapframe, root>>
             \/ /\ pc[p] = "root" /\ l = "top"
                /\ root' = [root EXCEPT ![q] = r]
                /\ UNCHANGED <<trapframe, extra>>
      PROVE  IInv'
  <2>1. freelist' \in [Pages -> Nat] /\ r # Null
    BY <1>1, <1>5, KallocKeepsType DEF SlotsTyped
  <2>2. SlotsTyped'
    BY <1>1, <1>2, <1>5, <2>1, Unmoved DEF SlotsTyped, MaybePage, Null
  <2>3. CallsTyped'
    BY <1>1, <1>2, <1>5, Unmoved
    DEF CallsTyped, Calls, MaybePage, Null, Virtual, PageCount
  <2>4. \A w \in Slots : TableTypes(w)'
    BY <1>1, <1>5, Unmoved DEF TableTypes, Ends, Virtual, PageCount
  <2>5. TypeOK'
    BY <1>0, <2>2, <2>3, <2>4, TypesAgain
  <2>6. Shape'
    BY <1>0, <1>5, Unmoved DEF Shape
  <2>7. /\ \A w \in Slots \ {q} : SameSlot(w)
        /\ \A u \in Slots \ {p} : SameCall(u)
    BY <1>1, <1>5 DEF SlotsTyped, CallsTyped, SameSlot, SameCall
  <2>8. Filling(p, q)'
    <3>1. pc'[p] = l
      BY <1>1, <1>5 DEF CallsTyped
    <3>2. NoDirs["low"] = <<>> /\ Len(NoDirs["top"]) < Inner
      BY DEF NoDirs, Ends, UserPagesAssumption
    <3>3. Bare(q) /\ pstate[q] = "USED"
      BY <1>2, <1>5 DEF Filling
    <3>4. CASE l = "extra"
      BY <1>1, <1>2, <1>5, <2>1, <3>1, <3>3, <3>4
      DEF Filling, Bare, SlotsTyped, NoDirs, NoLeaves, Null
    <3>5. CASE l = "root"
      BY <1>1, <1>2, <1>5, <2>1, <3>1, <3>3, <3>5
      DEF Filling, Bare, SlotsTyped, NoDirs, NoLeaves, Null
    <3>6. CASE l = "top"
      BY <1>1, <1>2, <1>5, <2>1, <3>1, <3>2, <3>3, <3>6
      DEF Filling, Bare, SlotsTyped, NoLeaves, Null
    <3> QED
      BY <1>5, <3>4, <3>5, <3>6
  <2>9. pc'[p] \in Forking
    BY <1>1, <1>5 DEF CallsTyped, Forking
  <2>10. Filling(p, np[p])'
    BY <1>5, <2>8
  <2>11. va'[p] = 0 /\ mem'[p] = Null /\ pc'[p] = l
    BY <1>0, <1>1, <1>5 DEF Good, Growing, CallsTyped
  <2> QED
    BY <1>2, <1>5, <2>5, <2>6, <2>7, <2>9, <2>10, <2>11, ForkGoesOn
<1>6. CASE ForkTrapframe(p)
  BY <1>3, <1>4, <1>5, <1>6 DEF ForkTrapframe, Goto, tableVars
<1>7. CASE ForkExtra(p)
  BY <1>3, <1>4, <1>5, <1>7 DEF ForkExtra, Goto, tableVars
<1>8. CASE ForkRoot(p)
  BY <1>3, <1>4, <1>5, <1>8 DEF ForkRoot, Goto, procVars
<1> QED
  BY <1>6, <1>7, <1>8

\* The top end of the table, one directory page after another.
LEMMA ForkTopStep ==
  ASSUME UserPagesAssumption, IInv, build' = build,
         NEW p \in Slots, ForkTop(p)
  PROVE  IInv'
<1>0. TypeOK /\ Shape /\ NoPanic /\ Alone /\ \A u \in Slots : Good(u)
  BY DEF IInv
<1>1. SlotsTyped /\ CallsTyped /\ \A w \in Slots : TableTypes(w)
  BY <1>0, Types
<1> PICK q \in Slots : q = np[p]
  BY <1>1 DEF CallsTyped
<1>2. pc[p] = "top" /\ pc[p] \in Forking /\ Filling(p, q)
  BY <1>0, <1>1 DEF Good, Forking, ForkTop
<1>3. CASE /\ Exhausted
           /\ FreeBare(q, extra[q], TablePages(q))
           /\ Return(p)
  <2>1. extra[q] \in MaybePage
    BY <1>1 DEF SlotsTyped
  <2> QED
    BY <1>0, <1>2, <1>3, <2>1, TablePagesAreSeq, ForkGivesUp
<1>4. ASSUME NEW r \in Pages, Kalloc(r),
             dirs' = [dirs EXCEPT ![q]["top"] = Append(@, r)],
             UNCHANGED <<procVars, root, leaf, np, va, mem, goal, panic>>,
             \/ Len(dirs[q]["top"]) + 1 < Inner /\ UNCHANGED <<top, pc>>
             \/ /\ top' = [top EXCEPT ![q] = TopOf(trapframe[q], extra[q])]
                /\ pc' = [pc EXCEPT ![p] = "copy"]
      PROVE  IInv'
  <2>0. UNCHANGED <<pstate, sz, trapframe, extra>>
    BY <1>4 DEF procVars
  <2>1. freelist' \in [Pages -> Nat]
    BY <1>1, <1>4, KallocKeepsType DEF SlotsTyped
  <2>2. SlotsTyped'
    BY <1>1, <1>4, <2>0, <2>1, Unmoved DEF SlotsTyped, MaybePage, Null
  <2>3. CallsTyped'
    BY <1>1, <1>4, Unmoved
    DEF CallsTyped, Calls, MaybePage, Null, Virtual, PageCount
  <2>4. /\ dirs[q]["top"] \in Seq(Pages) /\ dirs[q]["low"] = <<>>
        /\ Len(dirs[q]["top"]) < Inner /\ dirs[q] \in [Ends -> Seq(Pages)]
    BY <1>1, <1>2 DEF TableTypes, Ends, Filling
  <2>5. /\ dirs'[q] = [dirs[q] EXCEPT !["top"] = Append(@, r)]
        /\ \A w \in Slots \ {q} : dirs'[w] = dirs[w]
    BY <1>0, <1>4 DEF Shape
  <2>6. /\ dirs'[q]["low"] = <<>> /\ dirs'[q]["top"] = Append(dirs[q]["top"], r)
        /\ dirs'[q] \in [Ends -> Seq(Pages)]
    BY <1>4, <2>4, <2>5 DEF Ends
  <2>7. Len(dirs'[q]["top"]) = Len(dirs[q]["top"]) + 1
    BY <1>4, <2>4, <2>6
  <2>8. \A e \in Ends : Len(dirs'[q][e]) <= Inner
    BY <2>4, <2>6, <2>7 DEF Ends, UserPagesAssumption
  <2>9. /\ \A w \in Slots \ {q} : SameSlot(w)
        /\ \A u \in Slots \ {p} : SameCall(u)
    BY <1>0, <1>1, <1>4, <2>0, <2>5 DEF Shape, CallsTyped, SameSlot, SameCall
  <2>10. \/ /\ Len(dirs'[q]["top"]) < Inner
            /\ top' = top /\ pc' = pc
         \/ /\ top'[q] = TopOf(trapframe[q], extra[q]) /\ pc'[p] = "copy"
            /\ DOMAIN top'[q] = TopNames
    BY <1>0, <1>1, <1>4, <2>7 DEF Shape, CallsTyped, TopOf
  <2>11. TableTypes(q)'
    BY <1>1, <1>4, <2>6, <2>8, <2>10, Unmoved
    DEF TableTypes, Virtual, PageCount, Ends
  <2>12. TypeOK'
    BY <1>0, <2>2, <2>3, <2>9, <2>11, TablesAgain, TypesAgain
  <2>13. Shape'
    BY <1>0, <1>4, Unmoved DEF Shape
  <2>14. Filling(p, np[p])'
    <3>1. /\ pstate[q] = "USED" /\ sz[q] = 0 /\ trapframe[q] # Null
          /\ extra[q] # Null /\ root[q] # Null /\ leaf[q] = NoLeaves
          /\ top[q] = <<>>
      BY <1>2 DEF Filling
    <3>2. CASE Len(dirs'[q]["top"]) < Inner /\ top' = top /\ pc' = pc
      BY <1>2, <1>4, <2>0, <2>6, <3>1, <3>2 DEF Filling, NoLeaves, Null
    <3>3. CASE top'[q] = TopOf(trapframe[q], extra[q]) /\ pc'[p] = "copy"
      <4>1. Whole(q)'
        BY <1>4, <2>0, <3>1, <3>3, Unmoved DEF Whole, Null
      <4>2. va[p] = 0
        BY <1>0, <1>2 DEF Good, Growing
      <4>3. DOMAIN leaf'[q] = 0 .. va'[p] - 1
        BY <1>4, <3>1, <4>2 DEF NoLeaves
      <4>4. PageCount(sz[p]) \in Nat
        BY <1>1, Numbers
      <4>5. va'[p] <= PageCount(sz'[p])
        BY <1>4, <2>0, <4>2, <4>4
      <4> QED
        BY <1>4, <2>0, <3>1, <3>3, <4>1, <4>3, <4>5 DEF Filling, PageCount
    <3> QED
      BY <2>10, <3>2, <3>3
  <2>15. va'[p] = 0 /\ mem'[p] = Null
    BY <1>0, <1>2, <1>4 DEF Good, Growing
  <2> QED
    BY <1>0, <1>2, <1>4, <2>0, <2>9, <2>10, <2>12, <2>13, <2>14, <2>15, ForkGoesOn
    DEF Forking
<1> QED
  BY <1>3, <1>4 DEF ForkTop, Goto

\* mappages() of the page after those that are mapped: it takes a directory
\* page, or maps that page; it does not panic.
LEMMA MapStepMaps ==
  ASSUME UserPagesAssumption, IInv, build' = build,
         NEW p \in Slots, NEW q \in Slots, NEW l \in {"copy", "grow"},
         DOMAIN leaf[q] = 0 .. va[p] - 1, mem[p] # Null,
         NEW s \in 0 .. MaxSz, va[p] < PageCount(s),
         MapStep(p, q, l), UNCHANGED <<procVars, root, top, np, goal>>
  PROVE  /\ TypeOK' /\ Shape' /\ panic' = panic
         /\ \A u \in Slots \ {p} : SameCall(u)
         /\ \A w \in Slots \ {q} : SameSlot(w)
         /\ \/ pc' = pc /\ va' = va /\ mem' = mem /\ leaf' = leaf
            \/ /\ pc'[p] = l /\ va'[p] = va[p] + 1 /\ mem'[p] = Null
               /\ va'[p] \in Nat
               /\ DOMAIN leaf'[q] = 0 .. va'[p] - 1
<1>0. TypeOK /\ Shape
  BY DEF IInv
<1>1. SlotsTyped /\ CallsTyped /\ \A w \in Slots : TableTypes(w)
  BY <1>0, Types
<1>2. UNCHANGED <<pstate, sz, trapframe, extra, root, top, np, goal>>
  BY DEF procVars
<1>3. /\ PageCount(MaxSz) \in Nat /\ PageCount(s) \in Nat
      /\ va[p] + 1 <= PageCount(MaxSz) /\ va[p] \in Nat
  <2>1. PageCount(s) <= PageCount(MaxSz) /\ PageCount(MaxSz) \in Nat
        /\ PageCount(s) \in Nat
    <3>1. s \in Nat /\ MaxSz \in Nat /\ s <= MaxSz
      BY DEF UserPagesAssumption
    <3> QED
      BY <3>1, PagesGrow, PagesNeeded
  <2>2. va[p] \in Nat
    BY <1>1, <2>1 DEF CallsTyped, Virtual
  <2> QED
    BY <2>1, <2>2
<1>4. CASE Len(dirs[q]["low"]) < Inner
  <2>1. PICK r \in Pages : Kalloc(r) /\ dirs' = [dirs EXCEPT ![q]["low"] = Append(@, r)]
    BY <1>4 DEF MapStep
  <2>2. UNCHANGED <<leaf, pc, va, mem, panic>>
    BY <1>4 DEF MapStep
  <2>3. freelist' \in [Pages -> Nat]
    BY <1>1, <2>1, KallocKeepsType DEF SlotsTyped
  <2>4. SlotsTyped'
    BY <1>1, <1>2, <2>3, Unmoved DEF SlotsTyped, MaybePage, Null
  <2>5. CallsTyped'
    BY <1>1, <1>2, <2>2, Unmoved
    DEF CallsTyped, Calls, MaybePage, Null, Virtual, PageCount
  <2>6. /\ dirs[q] \in [Ends -> Seq(Pages)] /\ dirs[q]["low"] \in Seq(Pages)
        /\ \A e \in Ends : Len(dirs[q][e]) <= Inner
    BY <1>1 DEF TableTypes, Ends
  <2>7. /\ dirs'[q] = [dirs[q] EXCEPT !["low"] = Append(@, r)]
        /\ \A w \in Slots \ {q} : dirs'[w] = dirs[w]
    BY <1>0, <2>1 DEF Shape
  <2>8. Append(dirs[q]["low"], r) \in Seq(Pages)
        /\ Len(Append(dirs[q]["low"], r)) = Len(dirs[q]["low"]) + 1
        /\ Len(dirs[q]["low"]) \in Nat
    BY <2>1, <2>6
  <2>9. /\ dirs'[q] \in [Ends -> Seq(Pages)]
        /\ \A e \in Ends : Len(dirs'[q][e]) <= Inner
    BY <1>4, <2>6, <2>7, <2>8 DEF Ends, UserPagesAssumption
  <2>10. TableTypes(q)'
    BY <1>1, <1>2, <2>2, <2>9, Unmoved DEF TableTypes, Virtual, PageCount, Ends
  <2>11. /\ \A w \in Slots \ {q} : SameSlot(w)
         /\ \A u \in Slots \ {p} : SameCall(u)
    BY <1>2, <2>2, <2>7 DEF SameSlot, SameCall
  <2>12. TypeOK'
    BY <1>0, <2>4, <2>5, <2>10, <2>11, TablesAgain, TypesAgain
  <2>13. Shape'
    BY <1>0, <1>2, <2>1, <2>2, Unmoved DEF Shape
  <2> QED
    BY <2>2, <2>11, <2>12, <2>13
<1>5. CASE ~ (Len(dirs[q]["low"]) < Inner)
  <2>1. va[p] \notin DOMAIN leaf[q]
    BY <1>3
  <2>2. /\ leaf' = [leaf EXCEPT ![q] = With(@, va[p], mem[p])]
        /\ va'  = [va EXCEPT ![p] = @ + 1]
        /\ mem' = [mem EXCEPT ![p] = Null]
        /\ pc'  = [pc EXCEPT ![p] = l]
        /\ UNCHANGED <<freelist, dirs, panic>>
    BY <1>5, <2>1 DEF MapStep, Goto
  <2>3. SlotsTyped'
    BY <1>1, <1>2, <2>2, Unmoved DEF SlotsTyped, MaybePage, Null
  <2>4. CallsTyped'
    <3>1. /\ pc' \in [Slots -> Calls] /\ np' \in [Slots -> Slots]
          /\ mem' \in [Slots -> MaybePage] /\ goal' \in [Slots -> 0 .. MaxSz]
      BY <1>1, <1>2, <2>2 DEF CallsTyped, Calls, MaybePage
    <3>2. va' \in [Slots -> Virtual]
      BY <1>1, <1>3, <2>2 DEF CallsTyped, Virtual
    <3> QED
      BY <3>1, <3>2, Unmoved
      DEF CallsTyped, Calls, MaybePage, Null, Virtual, PageCount
  <2>5. leaf'[q] = With(leaf[q], va[p], mem[p])
        /\ \A w \in Slots \ {q} : leaf'[w] = leaf[w]
    BY <1>0, <2>2 DEF Shape
  <2>6. /\ pc'[p] = l /\ va'[p] = va[p] + 1 /\ mem'[p] = Null
        /\ \A u \in Slots \ {p} : SameCall(u)
    BY <1>1, <1>2, <2>2 DEF CallsTyped, SameCall
  <2>7. \A w \in Slots \ {q} : SameSlot(w)
    BY <1>2, <2>2, <2>5 DEF SameSlot
  <2>8. DOMAIN leaf'[q] = 0 .. va'[p] - 1
    <3>1. DOMAIN leaf'[q] = DOMAIN leaf[q] \cup {va[p]}
      BY <2>5 DEF With
    <3> QED
      BY <1>3, <2>6, <3>1
  <2>9. mem[p] \in Pages
    BY <1>1 DEF CallsTyped, MaybePage
  <2>10. \A v \in DOMAIN leaf'[q] : leaf'[q][v] \in Pages
    <3>1. leaf'[q] = [w \in DOMAIN leaf[q] \cup {va[p]} |->
                        IF w = va[p] THEN mem[p] ELSE leaf[q][w]]
      BY <2>5 DEF With
    <3> QED
      BY <1>1, <2>9, <3>1 DEF TableTypes
  <2>11. TableTypes(q)'
    BY <1>1, <1>2, <1>3, <2>2, <2>6, <2>8, <2>10, Unmoved
    DEF TableTypes, Virtual, PageCount, Ends
  <2>12. TypeOK'
    BY <1>0, <2>3, <2>4, <2>7, <2>11, TablesAgain, TypesAgain
  <2>13. Shape'
    BY <1>0, <1>2, <2>2, Unmoved DEF Shape
  <2> QED
    BY <1>3, <2>2, <2>6, <2>7, <2>8, <2>12, <2>13
<1> QED
  BY <1>4, <1>5

\* uvmcopy() fails: the child has no more than what has been copied, and
\* fork() gives all of it back.
LEMMA CopyFailsStep ==
  ASSUME UserPagesAssumption, IInv, build' = build,
         NEW p \in Slots, pc[p] \in {"copy", "copymap"},
         NEW first \in Seq(MaybePage), CopyFails(p, first)
  PROVE  IInv'
<1>0. TypeOK /\ \A u \in Slots : Good(u)
  BY DEF IInv
<1>1. SlotsTyped /\ CallsTyped /\ \A w \in Slots : TableTypes(w)
  BY <1>0, Types
<1> PICK q \in Slots : q = np[p]
  BY <1>1 DEF CallsTyped
<1>2. /\ Whole(q) /\ sz[q] = 0 /\ DOMAIN leaf[q] = 0 .. va[p] - 1
      /\ pc[p] \in Forking
  BY <1>0 DEF Good, Filling, Forking
<1> DEFINE f == Without(leaf[q], 0 .. va[p] - 1)
           gone == Run(leaf[q], 0, va[p])
<1>3. DOMAIN f = {}
  BY <1>2 DEF Without
<1>4. Memory(sz[q]) = {}
  BY <1>2, FewPages DEF Memory
<1>5. va[p] \in Int
  BY <1>1, Numbers
<1>6. gone \in Seq(MaybePage)
  <2>1. \A v \in 0 .. va[p] - 1 : leaf[q][v] \in Pages
    BY <1>1, <1>2 DEF TableTypes
  <2>2. 0 \in Int /\ va[p] \in Int
    BY <1>5
  <2> QED
    BY <2>1, <2>2, RunIsSeq
<1>7. Mapped(leaf[q], 0 .. va[p] - 1)
  BY <1>2 DEF Mapped
<1>8. FreeProc(q, f, first \o gone) /\ Return(p)
  BY <1>7 DEF CopyFails
<1>9. first \o gone \in Seq(MaybePage)
  BY <1>6, ConcatProperties
<1> HIDE DEF f, gone
<1>10. Freed(q)
  BY <1>0, <1>2, <1>3, <1>4, <1>8, <1>9, FreeProcFrees
<1> QED
  BY <1>2, <1>8, <1>10, AfterFree

\* uvmcopy() takes a page for the next of the parent's,
LEMMA CopyAllocStep ==
  ASSUME UserPagesAssumption, IInv, build' = build,
         NEW p \in Slots, CopyAlloc(p)
  PROVE  IInv'
<1>0. TypeOK /\ Shape /\ \A u \in Slots : Good(u)
  BY DEF IInv
<1>1. SlotsTyped /\ CallsTyped /\ \A w \in Slots : TableTypes(w)
  BY <1>0, Types
<1>2. pc[p] = "copy" /\ va[p] * PGSIZE < sz[p]
  BY DEF CopyAlloc
<1> PICK q \in Slots : q = np[p]
  BY <1>1 DEF CallsTyped
<1>3. CASE CopyFails(p, <<>>)
  BY <1>2, <1>3, NothingIsSeq, CopyFailsStep
<1>4. ASSUME NEW r \in Pages, Kalloc(r),
             mem' = [mem EXCEPT ![p] = r], pc' = [pc EXCEPT ![p] = "copymap"],
             UNCHANGED <<procVars, tableVars, np, va, goal, panic>>
      PROVE  IInv'
  <2>0. UNCHANGED <<pstate, sz, trapframe, extra, root, dirs, top, leaf>>
    BY <1>4 DEF procVars, tableVars
  <2>1. freelist' \in [Pages -> Nat] /\ r # Null
    BY <1>1, <1>4, KallocKeepsType DEF SlotsTyped
  <2>2. SlotsTyped'
    BY <1>1, <2>0, <2>1, Unmoved DEF SlotsTyped, MaybePage, Null
  <2>3. CallsTyped'
    BY <1>1, <1>4, Unmoved
    DEF CallsTyped, Calls, MaybePage, Null, Virtual, PageCount
  <2>4. \A w \in Slots : TableTypes(w)'
    BY <1>1, <2>0, Unmoved DEF TableTypes, Ends, Virtual, PageCount
  <2>5. TypeOK' /\ Shape'
    BY <1>0, <2>0, <2>2, <2>3, <2>4, Unmoved, TypesAgain DEF Shape
  <2>6. /\ \A w \in Slots \ {q} : SameSlot(w)
        /\ \A u \in Slots \ {p} : SameCall(u)
        /\ pc'[p] = "copymap" /\ mem'[p] = r
    BY <1>1, <1>4, <2>0 DEF CallsTyped, SameSlot, SameCall
  <2>7. va[p] < PageCount(sz[p])
    BY <1>1, <1>2, Numbers
  <2>8. Filling(p, q)
    BY <1>0, <1>2 DEF Good, Forking
  <2>9. Filling(p, np[p])'
    <3>1. Whole(q)'
      BY <1>2, <2>0, <2>8, Unmoved DEF Filling, Whole, Null
    <3> QED
      BY <1>2, <1>4, <2>0, <2>6, <2>7, <2>8, <3>1 DEF Filling, PageCount
  <2> QED
    BY <1>2, <1>4, <2>0, <2>1, <2>5, <2>6, <2>9, ForkGoesOn DEF Forking
<1> QED
  BY <1>3, <1>4 DEF CopyAlloc, Goto

\* and maps it in the child.
LEMMA CopyMapStep ==
  ASSUME UserPagesAssumption, IInv, build' = build,
         NEW p \in Slots, CopyMap(p)
  PROVE  IInv'
<1>0. TypeOK /\ Shape /\ \A u \in Slots : Good(u)
  BY DEF IInv
<1>1. SlotsTyped /\ CallsTyped
  BY <1>0, Types
<1> PICK q \in Slots : q = np[p]
  BY <1>1 DEF CallsTyped
<1>2. /\ pc[p] = "copymap" /\ Filling(p, q) /\ mem[p] # Null
      /\ va[p] < PageCount(sz[p])
  BY <1>0 DEF CopyMap, Good, Forking, Filling
<1>3. CASE CopyFails(p, <<mem[p]>>)
  <2>1. <<mem[p]>> \in Seq(MaybePage)
    BY <1>1 DEF CallsTyped
  <2> QED
    BY <1>2, <1>3, <2>1, CopyFailsStep
<1>4. CASE MapStep(p, q, "copy") /\ UNCHANGED <<procVars, root, top, np, goal>>
  <2>1. DOMAIN leaf[q] = 0 .. va[p] - 1 /\ sz[p] \in 0 .. MaxSz
    BY <1>1, <1>2 DEF Filling, SlotsTyped
  <2>2. /\ TypeOK' /\ Shape' /\ panic' = panic
        /\ \A u \in Slots \ {p} : SameCall(u)
        /\ \A w \in Slots \ {q} : SameSlot(w)
        /\ \/ pc' = pc /\ va' = va /\ mem' = mem /\ leaf' = leaf
           \/ /\ pc'[p] = "copy" /\ va'[p] = va[p] + 1 /\ mem'[p] = Null
              /\ va'[p] \in Nat
              /\ DOMAIN leaf'[q] = 0 .. va'[p] - 1
    BY <1>2, <1>4, <2>1, MapStepMaps
  <2>3. /\ UNCHANGED <<pstate, sz, trapframe, extra, root, top, np>>
    BY <1>4 DEF procVars
  <2>4. Whole(q)'
    BY <1>2, <2>3, Unmoved DEF Filling, Whole, Null
  <2>5. PageCount(sz[p]) \in Nat /\ va[p] \in Int
    BY <1>1, Numbers
  <2>6. Filling(p, np[p])'
    <3>1. va[p] + 1 <= PageCount(sz[p])
      BY <1>2, <2>5
    <3> QED
      BY <1>2, <2>2, <2>3, <2>4, <3>1 DEF Filling, PageCount
  <2> QED
    BY <1>2, <2>2, <2>3, <2>6, ForkGoesOn DEF Forking
<1> QED
  BY <1>3, <1>4 DEF CopyMap

\* The child has as many pages as its parent.
LEMMA ForkDoneStep ==
  ASSUME UserPagesAssumption, IInv, build' = build,
         NEW p \in Slots, ForkDone(p)
  PROVE  IInv'
<1>0. TypeOK /\ Shape /\ NoPanic /\ Alone /\ \A u \in Slots : Good(u)
  BY DEF IInv
<1>1. SlotsTyped /\ CallsTyped /\ \A w \in Slots : TableTypes(w)
  BY <1>0, Types
<1> PICK q \in Slots : q = np[p]
  BY <1>1 DEF CallsTyped
<1>2. /\ pc[p] = "copy" /\ va[p] * PGSIZE >= sz[p] /\ pc[p] \in Forking
      /\ sz' = [sz EXCEPT ![q] = sz[p]]
      /\ pstate' = [pstate EXCEPT ![q] = "LIVE"]
      /\ pc' = [pc EXCEPT ![p] = "user", ![q] = "user"]
      /\ np' = [np EXCEPT ![p] = p]
      /\ va' = [va EXCEPT ![p] = 0]
      /\ UNCHANGED <<freelist, trapframe, extra, root, dirs, top, leaf, mem, goal,
                     panic>>
  BY DEF ForkDone, tableVars, Forking
<1>3. Filling(p, q)
  BY <1>0, <1>2 DEF Good
<1>4. /\ pstate[q] = "USED" /\ pstate[p] = "LIVE" /\ p # q
      /\ pc[q] = "dead" /\ np[q] = q /\ va[q] = 0 /\ mem[q] = Null
      /\ mem[p] = Null
  BY <1>0, <1>2, <1>3 DEF Good, Filling, Forking, Growing
<1>5. /\ \A w \in Slots \ {q} : SameSlot(w)
      /\ \A u \in Slots \ {p, q} : SameCall(u)
  BY <1>1, <1>2 DEF SlotsTyped, CallsTyped, SameSlot, SameCall
<1>6. /\ pc'[p] = "user" /\ np'[p] = p /\ va'[p] = 0 /\ mem'[p] = Null
      /\ pc'[q] = "user" /\ np'[q] = q /\ va'[q] = 0 /\ mem'[q] = Null
      /\ pstate'[q] = "LIVE" /\ sz'[q] = sz[p] /\ pstate'[p] = "LIVE"
      /\ sz'[p] = sz[p]
  BY <1>1, <1>2, <1>4 DEF SlotsTyped, CallsTyped
<1>7. TypeOK'
  <2>1. SlotsTyped'
    BY <1>1, <1>2, Unmoved DEF SlotsTyped, MaybePage, Null
  <2>2. 0 \in Virtual
    BY PagesNeeded DEF Virtual, UserPagesAssumption
  <2>3. CallsTyped'
    BY <1>1, <1>2, <2>2, Unmoved
    DEF CallsTyped, Calls, MaybePage, Null, Virtual, PageCount
  <2>4. \A w \in Slots : TableTypes(w)'
    BY <1>1, <1>2, Unmoved DEF TableTypes, Ends, Virtual, PageCount
  <2> QED
    BY <1>0, <2>1, <2>3, <2>4, TypesAgain
<1>8. Shape' /\ NoPanic'
  BY <1>0, <1>2, Unmoved DEF Shape, NoPanic
<1>9. Alone'
  BY <1>0, <1>5, <1>6, Unmoved DEF Alone, SameCall, Forking
<1>10. Good(p)'
  <2>1. Good(p) /\ SameSlot(p)
    BY <1>0, <1>4, <1>5
  <2> QED
    BY <1>2, <1>4, <1>6, <2>1, Unmoved
    DEF Good, SameSlot, Whole, Forking, Growing, Memory, PageCount, Null
<1>11. Good(q)'
  <2>1. Whole(q) /\ DOMAIN leaf[q] = 0 .. va[p] - 1 /\ va[p] <= PageCount(sz[p])
    BY <1>2, <1>3 DEF Filling
  <2>2. va[p] = PageCount(sz[p])
    BY <1>1, <1>2, <2>1, Numbers
  <2>3. Whole(q)'
    BY <1>2, <2>1, Unmoved DEF Whole, Null
  <2>4. DOMAIN leaf'[q] = Memory(sz'[q])
    BY <1>2, <1>6, <2>1, <2>2 DEF Memory
  <2> QED
    BY <1>6, <2>3, <2>4
    DEF Good, Forking, Growing, Memory, PageCount, Null
<1>12. \A u \in Slots \ {p, q} : Good(u)'
  BY <1>2, <1>5, OthersStayGood
<1> QED
  BY <1>7, <1>8, <1>9, <1>10, <1>11, <1>12, Unmoved DEF IInv

\* All of fork() keeps the invariant.
LEMMA ForkStep ==
  ASSUME UserPagesAssumption, IInv, build' = build, NEW p \in Slots, Fork(p)
  PROVE  IInv'
  BY ForkSlotStep, ForkPagesStep, ForkTopStep, CopyAllocStep, CopyMapStep,
     ForkDoneStep
  DEF Fork

-----------------------------------------------------------------------------
\* growproc()

\* A step of sbrk() that leaves the tables and the allocator alone.
LEMMA SbrkTypes ==
  ASSUME UserPagesAssumption, IInv, build' = build, NEW p \in Slots, SlotsTyped',
         \A w \in Slots : dirs'[w] = dirs[w] /\ top'[w] = top[w],
         \A v \in DOMAIN leaf'[p] : v \in DOMAIN leaf[p] /\ leaf'[p][v] = leaf[p][v],
         \A w \in Slots \ {p} : leaf'[w] = leaf[w],
         CallsTyped'
  PROVE  TypeOK'
<1>1. TypeOK /\ \A w \in Slots : TableTypes(w)
  BY Types DEF IInv
<1>2. \A w \in Slots : TableTypes(w)'
  <2> TAKE w \in Slots
  <2>1. TableTypes(w) /\ dirs'[w] = dirs[w] /\ top'[w] = top[w]
    BY <1>1
  <2>2. DOMAIN leaf'[w] \subseteq DOMAIN leaf[w]
        /\ \A v \in DOMAIN leaf'[w] : leaf'[w][v] = leaf[w][v]
    OBVIOUS
  <2> QED
    BY <2>1, <2>2, Unmoved DEF TableTypes, Ends, Virtual, PageCount
<1> QED
  BY <1>1, <1>2, TypesAgain

\* Memory is given back from page a on: what is below it stays.
LEMMA DeallocUnmaps ==
  ASSUME UserPagesAssumption, TypeOK, Shape, build' = build, NEW p \in Slots,
         NEW a \in Nat, NEW b \in Nat, a <= b, DOMAIN leaf[p] = 0 .. b - 1,
         NEW first \in Seq(MaybePage), Dealloc(p, a, b, first)
  PROVE  /\ freelist' \in [Pages -> Nat] /\ panic' = panic
         /\ DOMAIN leaf' = Slots
         /\ DOMAIN leaf'[p] = 0 .. a - 1
         /\ \A v \in DOMAIN leaf'[p] :
              v \in DOMAIN leaf[p] /\ leaf'[p][v] = leaf[p][v]
         /\ \A w \in Slots \ {p} : leaf'[w] = leaf[w]
<1>1. Mapped(leaf[p], a .. b - 1)
  BY DEF Mapped
<1>2. /\ Kfree(first \o Run(leaf[p], a, b)) /\ panic' = panic
      /\ leaf' = [leaf EXCEPT ![p] = Without(@, a .. b - 1)]
  BY <1>1 DEF Dealloc
<1>3. Run(leaf[p], a, b) \in Seq(MaybePage)
  BY SlotTypes, RunIsSeq
<1>4. first \o Run(leaf[p], a, b) \in Seq(MaybePage)
  BY <1>3, ConcatProperties
<1>5. freelist' \in [Pages -> Nat]
  BY <1>2, <1>4, SlotTypes, KfreeKeepsType
<1>6. leaf'[p] = [v \in DOMAIN leaf[p] \ (a .. b - 1) |-> leaf[p][v]]
  BY <1>2 DEF Shape, Without
<1>7. DOMAIN leaf'[p] = 0 .. a - 1
  BY <1>6
<1> QED
  BY <1>2, <1>5, <1>6, <1>7 DEF Shape

\* uvmalloc() fails: the process has the pages of its old size again.
LEMMA GrowFailsStep ==
  ASSUME UserPagesAssumption, IInv, build' = build,
         NEW p \in Slots, pc[p] \in Growing,
         NEW first \in Seq(MaybePage), GrowFails(p, first)
  PROVE  IInv'
<1>0. TypeOK /\ Shape /\ Good(p)
  BY DEF IInv
<1>1. SlotsTyped /\ CallsTyped
  BY <1>0, Types
<1>2. /\ Dealloc(p, PageCount(sz[p]), va[p], first) /\ Return(p)
      /\ UNCHANGED <<pstate, sz, trapframe, extra, root, dirs, top>>
  BY DEF GrowFails, procVars
<1>3. /\ PageCount(sz[p]) <= va[p] /\ DOMAIN leaf[p] = 0 .. va[p] - 1
      /\ pstate[p] = "LIVE" /\ np[p] = p /\ Whole(p)
  BY <1>0 DEF Good, Extending, Growing, Forking
<1>4. PageCount(sz[p]) \in Nat /\ va[p] \in Nat /\ 0 \in Virtual
  BY <1>1, Numbers
<1>5. /\ freelist' \in [Pages -> Nat] /\ panic' = panic
      /\ DOMAIN leaf' = Slots
      /\ DOMAIN leaf'[p] = 0 .. PageCount(sz[p]) - 1
      /\ \A v \in DOMAIN leaf'[p] :
           v \in DOMAIN leaf[p] /\ leaf'[p][v] = leaf[p][v]
      /\ \A w \in Slots \ {p} : leaf'[w] = leaf[w]
  BY <1>0, <1>2, <1>3, <1>4, DeallocUnmaps
<1>6. SlotsTyped'
  BY <1>1, <1>2, <1>5, Unmoved DEF SlotsTyped, MaybePage, Null
<1>7. CallsTyped'
  <2>1. /\ pc' \in [Slots -> Calls] /\ np' \in [Slots -> Slots]
        /\ va' \in [Slots -> Virtual] /\ mem' \in [Slots -> MaybePage]
        /\ goal' \in [Slots -> 0 .. MaxSz]
    BY <1>1, <1>2, <1>4
    DEF CallsTyped, Return, Goto, Calls, MaybePage, UserPagesAssumption
  <2> QED
    BY <2>1, Unmoved DEF CallsTyped, Calls, MaybePage, Null, Virtual, PageCount
<1>8. TypeOK'
  BY <1>2, <1>5, <1>6, <1>7, SbrkTypes
<1>9. Shape'
  BY <1>0, <1>2, <1>5, Unmoved DEF Shape
<1>10. /\ \A u \in Slots \ {p} : SameCall(u) /\ SameSlot(u)
       /\ pc'[p] = "user" /\ np'[p] = p /\ va'[p] = 0 /\ mem'[p] = Null
  BY <1>1, <1>2, <1>5 DEF CallsTyped, Return, Goto, SameCall, SameSlot
<1>11. Good(p)'
  BY <1>2, <1>3, <1>5, <1>10, Unmoved
  DEF Good, Whole, Forking, Growing, Memory, PageCount, Null
<1> QED
  BY <1>5, <1>8, <1>9, <1>10, <1>11, OwnStep DEF Forking, Growing

\* uvmalloc() begins with the page after the last one,
LEMMA GrowStep ==
  ASSUME UserPagesAssumption, IInv, build' = build,
         NEW p \in Slots, NEW n \in Steps, Grow(p, n)
  PROVE  IInv'
<1>0. TypeOK /\ Shape /\ Good(p)
  BY DEF IInv
<1>1. SlotsTyped /\ CallsTyped
  BY <1>0, Types
<1>2. /\ pc[p] = "user" /\ n > 0 /\ sz[p] + n <= MaxSz
      /\ pc' = [pc EXCEPT ![p] = "grow"]
      /\ goal' = [goal EXCEPT ![p] = sz[p] + n]
      /\ va' = [va EXCEPT ![p] = PageCount(sz[p])]
      /\ UNCHANGED <<freelist, pstate, sz, trapframe, extra, root, dirs, top, leaf,
                     np, mem, panic>>
  BY DEF Grow, Goto, procVars, tableVars
<1>3. /\ n \in Int /\ sz[p] \in 0 .. MaxSz /\ sz[p] \in Nat
      /\ MaxSz \in Nat
  BY <1>1 DEF SlotsTyped, UserPagesAssumption
<1>4. sz[p] + n \in 0 .. MaxSz /\ sz[p] <= sz[p] + n /\ sz[p] + n \in Nat
  BY <1>2, <1>3
<1>5. /\ PageCount(sz[p]) \in Nat /\ PageCount(sz[p]) \in Virtual
      /\ PageCount(sz[p]) <= PageCount(sz[p] + n)
  BY <1>3, <1>4, PagesNeeded, PagesGrow DEF Virtual
<1>6. SlotsTyped'
  BY <1>1, <1>2, Unmoved DEF SlotsTyped, MaybePage, Null
<1>7. CallsTyped'
  BY <1>1, <1>2, <1>4, <1>5, Unmoved
  DEF CallsTyped, Calls, MaybePage, Null, Virtual, PageCount
<1>8. TypeOK' /\ Shape'
  BY <1>0, <1>2, <1>6, <1>7, SbrkTypes, Unmoved DEF Shape
<1>9. /\ \A u \in Slots \ {p} : SameCall(u) /\ SameSlot(u)
      /\ pc'[p] = "grow" /\ goal'[p] = sz[p] + n /\ va'[p] = PageCount(sz[p])
  BY <1>1, <1>2 DEF CallsTyped, SameCall, SameSlot
<1>10. /\ pstate[p] = "LIVE" /\ np[p] = p /\ Whole(p) /\ mem[p] = Null
       /\ DOMAIN leaf[p] = Memory(sz[p])
  BY <1>0, <1>2 DEF Good, Forking, Growing
<1>11. Extending(p)'
  BY <1>2, <1>4, <1>5, <1>9, <1>10 DEF Extending, Memory, PageCount
<1>12. Whole(p)'
  BY <1>2, <1>10, Unmoved DEF Whole, Null
<1>13. Good(p)'
  BY <1>2, <1>9, <1>10, <1>11, <1>12 DEF Good, Forking, Growing, Null
<1> QED
  BY <1>2, <1>8, <1>9, <1>13, OwnStep DEF Forking

\* takes a page,
LEMMA GrowAllocStep ==
  ASSUME UserPagesAssumption, IInv, build' = build,
         NEW p \in Slots, GrowAlloc(p)
  PROVE  IInv'
<1>0. TypeOK /\ Shape /\ Good(p)
  BY DEF IInv
<1>1. SlotsTyped /\ CallsTyped
  BY <1>0, Types
<1>2. pc[p] = "grow" /\ va[p] * PGSIZE < goal[p]
  BY DEF GrowAlloc
<1>3. CASE GrowFails(p, <<>>)
  BY <1>2, <1>3, NothingIsSeq, GrowFailsStep DEF Growing
<1>4. ASSUME NEW r \in Pages, Kalloc(r),
             mem' = [mem EXCEPT ![p] = r], pc' = [pc EXCEPT ![p] = "growmap"],
             UNCHANGED <<procVars, tableVars, np, va, goal, panic>>
      PROVE  IInv'
  <2>0. UNCHANGED <<pstate, sz, trapframe, extra, root, dirs, top, leaf>>
    BY <1>4 DEF procVars, tableVars
  <2>1. freelist' \in [Pages -> Nat] /\ r # Null
    BY <1>1, <1>4, KallocKeepsType DEF SlotsTyped
  <2>2. SlotsTyped'
    BY <1>1, <2>0, <2>1, Unmoved DEF SlotsTyped, MaybePage, Null
  <2>3. CallsTyped'
    BY <1>1, <1>4, Unmoved
    DEF CallsTyped, Calls, MaybePage, Null, Virtual, PageCount
  <2>4. TypeOK' /\ Shape'
    BY <1>0, <2>0, <2>2, <2>3, SbrkTypes, Unmoved DEF Shape
  <2>5. /\ \A u \in Slots \ {p} : SameCall(u) /\ SameSlot(u)
        /\ pc'[p] = "growmap" /\ mem'[p] = r
    BY <1>1, <1>4, <2>0 DEF CallsTyped, SameCall, SameSlot
  <2>6. va[p] < PageCount(goal[p])
    BY <1>1, <1>2, Numbers
  <2>7. /\ pstate[p] = "LIVE" /\ np[p] = p /\ Whole(p) /\ Extending(p)
    BY <1>0, <1>2 DEF Good, Forking, Growing
  <2>8. Extending(p)'
    BY <1>4, <2>0, <2>5, <2>6, <2>7 DEF Extending, PageCount
  <2>9. Whole(p)'
    BY <2>0, <2>7, Unmoved DEF Whole, Null
  <2>10. Good(p)'
    BY <1>4, <2>0, <2>1, <2>5, <2>7, <2>8, <2>9 DEF Good, Forking, Growing, Null
  <2> QED
    BY <1>2, <1>4, <2>4, <2>5, <2>10, OwnStep DEF Forking
<1> QED
  BY <1>3, <1>4 DEF GrowAlloc, Goto

\* maps it,
LEMMA GrowMapStep ==
  ASSUME UserPagesAssumption, IInv, build' = build,
         NEW p \in Slots, GrowMap(p)
  PROVE  IInv'
<1>0. TypeOK /\ Shape /\ Good(p)
  BY DEF IInv
<1>1. SlotsTyped /\ CallsTyped
  BY <1>0, Types
<1>2. /\ pc[p] = "growmap" /\ Extending(p) /\ mem[p] # Null
      /\ pstate[p] = "LIVE" /\ np[p] = p /\ Whole(p)
  BY <1>0 DEF GrowMap, Good, Growing, Forking
<1>3. CASE GrowFails(p, <<mem[p]>>)
  <2>1. <<mem[p]>> \in Seq(MaybePage)
    BY <1>1 DEF CallsTyped
  <2> QED
    BY <1>2, <1>3, <2>1, GrowFailsStep DEF Growing
<1>4. CASE MapStep(p, p, "grow") /\ UNCHANGED <<procVars, root, top, np, goal>>
  <2>1. /\ DOMAIN leaf[p] = 0 .. va[p] - 1 /\ goal[p] \in 0 .. MaxSz
        /\ va[p] < PageCount(goal[p])
    BY <1>1, <1>2 DEF Extending, CallsTyped
  <2>2. /\ TypeOK' /\ Shape' /\ panic' = panic
        /\ \A u \in Slots \ {p} : SameCall(u)
        /\ \A w \in Slots \ {p} : SameSlot(w)
        /\ \/ pc' = pc /\ va' = va /\ mem' = mem /\ leaf' = leaf
           \/ /\ pc'[p] = "grow" /\ va'[p] = va[p] + 1 /\ mem'[p] = Null
              /\ va'[p] \in Nat
              /\ DOMAIN leaf'[p] = 0 .. va'[p] - 1
    BY <1>2, <1>4, <2>1, MapStepMaps
  <2>3. UNCHANGED <<pstate, sz, trapframe, extra, root, top, np, goal>>
    BY <1>4 DEF procVars
  <2>4. Whole(p)'
    BY <1>2, <2>3, Unmoved DEF Whole, Null
  <2>5. PageCount(goal[p]) \in Nat /\ PageCount(sz[p]) \in Nat /\ va[p] \in Int
    BY <1>1, Numbers
  <2>6. Extending(p)'
    <3>1. va[p] + 1 <= PageCount(goal[p]) /\ PageCount(sz[p]) <= va[p] + 1
      BY <1>2, <2>1, <2>5 DEF Extending
    <3> QED
      BY <1>2, <2>2, <2>3, <3>1 DEF Extending, PageCount
  <2>7. pc'[p] \in {"growmap", "grow"} /\ (mem'[p] # Null <=> pc'[p] = "growmap")
    BY <1>2, <2>2
  <2>8. Good(p)'
    BY <1>2, <2>3, <2>4, <2>6, <2>7 DEF Good, Forking, Growing, Null
  <2> QED
    BY <1>2, <2>2, <2>7, <2>8, OwnStep DEF Forking
<1> QED
  BY <1>3, <1>4 DEF GrowMap

\* and is done when the process has the pages of its new size.
LEMMA GrowDoneStep ==
  ASSUME UserPagesAssumption, IInv, build' = build,
         NEW p \in Slots, GrowDone(p)
  PROVE  IInv'
<1>0. TypeOK /\ Shape /\ Good(p)
  BY DEF IInv
<1>1. SlotsTyped /\ CallsTyped
  BY <1>0, Types
<1>2. /\ pc[p] = "grow" /\ va[p] * PGSIZE >= goal[p]
      /\ sz' = [sz EXCEPT ![p] = goal[p]] /\ Return(p)
      /\ UNCHANGED <<freelist, pstate, trapframe, extra, root, dirs, top, leaf,
                     panic>>
  BY DEF GrowDone, tableVars
<1>3. /\ pstate[p] = "LIVE" /\ np[p] = p /\ Whole(p) /\ Extending(p)
  BY <1>0, <1>2 DEF Good, Forking, Growing
<1>4. va[p] = PageCount(goal[p]) /\ 0 \in Virtual
  BY <1>1, <1>2, <1>3, Numbers DEF Extending
<1>5. SlotsTyped'
  BY <1>1, <1>2, Unmoved DEF SlotsTyped, CallsTyped, MaybePage, Null
<1>6. CallsTyped'
  <2>1. /\ pc' \in [Slots -> Calls] /\ np' \in [Slots -> Slots]
        /\ va' \in [Slots -> Virtual] /\ mem' \in [Slots -> MaybePage]
        /\ goal' \in [Slots -> 0 .. MaxSz]
    BY <1>1, <1>2, <1>4
    DEF CallsTyped, Return, Goto, Calls, MaybePage, UserPagesAssumption
  <2> QED
    BY <2>1, Unmoved DEF CallsTyped, Calls, MaybePage, Null, Virtual, PageCount
<1>7. TypeOK' /\ Shape'
  BY <1>0, <1>2, <1>5, <1>6, SbrkTypes, Unmoved DEF Shape
<1>8. /\ \A u \in Slots \ {p} : SameCall(u) /\ SameSlot(u)
      /\ pc'[p] = "user" /\ np'[p] = p /\ va'[p] = 0 /\ mem'[p] = Null
      /\ sz'[p] = goal[p]
  BY <1>1, <1>2 DEF SlotsTyped, CallsTyped, Return, Goto, SameCall, SameSlot
<1>9. Whole(p)'
  BY <1>2, <1>3, Unmoved DEF Whole, Null
<1>10. DOMAIN leaf'[p] = Memory(sz'[p])
  BY <1>2, <1>3, <1>4, <1>8 DEF Extending, Memory
<1>11. Good(p)'
  BY <1>2, <1>3, <1>8, <1>9, <1>10
  DEF Good, Forking, Growing, Memory, PageCount, Null
<1> QED
  BY <1>2, <1>7, <1>8, <1>11, OwnStep DEF Forking

\* sbrk() of a negative number gives the last pages back.
LEMMA ShrinkStep ==
  ASSUME UserPagesAssumption, IInv, build' = build,
         NEW p \in Slots, NEW n \in Steps, Shrink(p, n)
  PROVE  IInv'
<1>0. TypeOK /\ Shape /\ Good(p)
  BY DEF IInv
<1>1. SlotsTyped /\ CallsTyped
  BY <1>0, Types
<1>2. /\ pc[p] = "user" /\ n < 0 /\ sz[p] + n >= 0
      /\ Dealloc(p, PageCount(sz[p] + n), PageCount(sz[p]), <<>>)
      /\ sz' = [sz EXCEPT ![p] = sz[p] + n]
      /\ UNCHANGED <<pstate, trapframe, extra, root, dirs, top,
                     pc, np, va, mem, goal>>
  BY DEF Shrink, callVars
<1>3. /\ n \in Int /\ sz[p] \in 0 .. MaxSz /\ sz[p] \in Nat
      /\ MaxSz \in Nat
  BY <1>1 DEF SlotsTyped, UserPagesAssumption
<1>4. sz[p] + n \in 0 .. MaxSz /\ sz[p] + n <= sz[p] /\ sz[p] + n \in Nat
  BY <1>2, <1>3
<1>5. /\ PageCount(sz[p] + n) \in Nat /\ PageCount(sz[p]) \in Nat
      /\ PageCount(sz[p] + n) <= PageCount(sz[p])
  BY <1>3, <1>4, PagesNeeded, PagesGrow
<1>6. /\ pstate[p] = "LIVE" /\ np[p] = p /\ Whole(p) /\ va[p] = 0 /\ mem[p] = Null
      /\ DOMAIN leaf[p] = 0 .. PageCount(sz[p]) - 1
  BY <1>0, <1>2 DEF Good, Forking, Growing, Memory
<1>7. /\ freelist' \in [Pages -> Nat] /\ panic' = panic
      /\ DOMAIN leaf' = Slots
      /\ DOMAIN leaf'[p] = 0 .. PageCount(sz[p] + n) - 1
      /\ \A v \in DOMAIN leaf'[p] :
           v \in DOMAIN leaf[p] /\ leaf'[p][v] = leaf[p][v]
      /\ \A w \in Slots \ {p} : leaf'[w] = leaf[w]
  BY <1>0, <1>2, <1>5, <1>6, NothingIsSeq, DeallocUnmaps
<1>8. SlotsTyped'
  BY <1>1, <1>2, <1>4, <1>7, Unmoved DEF SlotsTyped, MaybePage, Null
<1>9. CallsTyped'
  BY <1>1, <1>2, Unmoved DEF CallsTyped, Calls, MaybePage, Null, Virtual, PageCount
<1>10. TypeOK' /\ Shape'
  BY <1>0, <1>2, <1>7, <1>8, <1>9, SbrkTypes, Unmoved DEF Shape
<1>11. /\ \A u \in Slots \ {p} : SameCall(u) /\ SameSlot(u)
       /\ sz'[p] = sz[p] + n
  BY <1>1, <1>2, <1>7 DEF SlotsTyped, SameCall, SameSlot
<1>12. Whole(p)'
  BY <1>2, <1>6, Unmoved DEF Whole, Null
<1>13. DOMAIN leaf'[p] = Memory(sz'[p])
  BY <1>7, <1>11 DEF Memory
<1>14. Good(p)'
  BY <1>2, <1>6, <1>12, <1>13 DEF Good, Forking, Growing, Memory, PageCount, Null
<1> QED
  BY <1>2, <1>7, <1>10, <1>11, <1>14, OwnStep DEF Forking

\* All of sbrk() keeps the invariant.
LEMMA SbrkStep ==
  ASSUME UserPagesAssumption, IInv, build' = build, NEW p \in Slots, Sbrk(p)
  PROVE  IInv'
  BY GrowStep, ShrinkStep, GrowAllocStep, GrowMapStep, GrowDoneStep DEF Sbrk

-----------------------------------------------------------------------------
\* exit() and wait()

\* exit() leaves the pages to wait(),
LEMMA ExitStep ==
  ASSUME UserPagesAssumption, IInv, build' = build, NEW p \in Slots, Exit(p)
  PROVE  IInv'
<1>0. TypeOK /\ Shape /\ Good(p)
  BY DEF IInv
<1>1. SlotsTyped /\ CallsTyped
  BY <1>0, Types
<1>2. /\ pc[p] = "user" /\ pc' = [pc EXCEPT ![p] = "dead"]
      /\ pstate' = [pstate EXCEPT ![p] = "ZOMBIE"]
      /\ UNCHANGED <<freelist, sz, trapframe, extra, root, dirs, top, leaf,
                     np, va, mem, goal, panic>>
  BY DEF Exit, Goto, tableVars
<1>3. SlotsTyped'
  BY <1>1, <1>2, Unmoved DEF SlotsTyped, MaybePage, Null
<1>4. CallsTyped'
  BY <1>1, <1>2, Unmoved DEF CallsTyped, Calls, MaybePage, Null, Virtual, PageCount
<1>5. TypeOK' /\ Shape'
  BY <1>0, <1>2, <1>3, <1>4, SbrkTypes, Unmoved DEF Shape
<1>6. /\ \A u \in Slots \ {p} : SameCall(u) /\ SameSlot(u)
      /\ pc'[p] = "dead" /\ pstate'[p] = "ZOMBIE"
  BY <1>1, <1>2 DEF SlotsTyped, CallsTyped, SameCall, SameSlot
<1>7. /\ np[p] = p /\ Whole(p) /\ va[p] = 0 /\ mem[p] = Null
      /\ DOMAIN leaf[p] = Memory(sz[p])
  BY <1>0, <1>2 DEF Good, Forking, Growing
<1>8. Whole(p)'
  BY <1>2, <1>7, Unmoved DEF Whole, Null
<1>9. Good(p)'
  BY <1>2, <1>6, <1>7, <1>8 DEF Good, Forking, Growing, Memory, PageCount, Null
<1> QED
  BY <1>2, <1>5, <1>6, <1>9, OwnStep DEF Forking

\* which frees them with the slot.
LEMMA ReapStep ==
  ASSUME UserPagesAssumption, IInv, build' = build,
         NEW p \in Slots, NEW q \in Slots, Reap(p, q)
  PROVE  IInv'
<1>0. TypeOK /\ Good(q)
  BY DEF IInv
<1>1. /\ pc[p] = "user" /\ pstate[q] = "ZOMBIE"
      /\ FreeProc(q, leaf[q], <<>>) /\ UNCHANGED callVars
  BY DEF Reap
<1>2. Whole(q) /\ DOMAIN leaf[q] = Memory(sz[q])
  BY <1>0, <1>1 DEF Good, Growing
<1>3. Freed(q)
  BY <1>0, <1>1, <1>2, SlotTypes, NothingIsSeq, FreeProcFrees
<1> QED
  BY <1>1, <1>3, AfterFree

-----------------------------------------------------------------------------
\* The theorems

\* userinit() has made the first process, and there is no other.
LEMMA Initially == ASSUME UserPagesAssumption, Init PROVE IInv
<1> DEFINE pte == 4 + Inner
<1>1. /\ build \in Builds /\ build.NPROC \in Nat \ {0} /\ build.npages \in Nat
      /\ Inner \in Nat \ {0} /\ MaxSz \in Nat /\ PGSIZE \in Nat \ {0}
      /\ PGSIZE <= MaxSz
      /\ 1 \in Pages /\ 2 \in Pages /\ 3 \in Pages /\ pte \in Pages
      /\ \A k \in 1 .. Inner : 3 + k \in Pages /\ pte + k \in Pages
  <2>1. build \in Builds
    BY DEF Init
  <2>2. /\ build.NPROC \in Nat \ {0} /\ build.npages \in Nat
        /\ Inner \in Nat \ {0} /\ MaxSz \in Nat /\ PGSIZE \in Nat \ {0}
        /\ PGSIZE <= MaxSz /\ 4 + 2 * Inner <= build.npages
    BY <2>1 DEF UserPagesAssumption
  <2>3. \A k \in 1 .. 4 + 2 * Inner : k \in Pages
    BY <2>2 DEF Pages
  <2> QED
    BY <2>1, <2>2, <2>3
<1>2. 0 \in Slots /\ initproc = 0 /\ Null = 0
  BY <1>1 DEF Slots, initproc, Null
<1>3. /\ 0 \in Virtual /\ PageCount(0) = 0 /\ PageCount(PGSIZE) = 1
  BY <1>1, PagesNeeded, FewPages DEF Virtual
<1>4. SlotsTyped
  <2>1. freelist \in [Pages -> Nat]
    BY DEF Init
  <2>2. pstate \in [Slots -> {"UNUSED", "USED", "LIVE", "ZOMBIE"}]
    BY DEF Init
  <2>3. sz = [p \in Slots |-> IF p = 0 THEN PGSIZE ELSE 0]
    BY <1>2 DEF Init
  <2>4. PGSIZE \in 0 .. MaxSz /\ 0 \in 0 .. MaxSz
    BY <1>1
  <2>5. sz \in [Slots -> 0 .. MaxSz]
    BY <2>3, <2>4
  <2>6. /\ trapframe = [p \in Slots |-> IF p = 0 THEN 1 ELSE Null]
        /\ extra = [p \in Slots |-> IF p = 0 THEN 2 ELSE Null]
        /\ root = [p \in Slots |-> IF p = 0 THEN 3 ELSE Null]
    BY <1>2 DEF Init
  <2>7. {1, 2, 3, Null} \subseteq MaybePage
    BY <1>1 DEF MaybePage
  <2> QED
    BY <2>1, <2>2, <2>5, <2>6, <2>7 DEF SlotsTyped
<1>5. CallsTyped
  <2>1. /\ pc \in [Slots -> Calls] /\ np \in [Slots -> Slots]
        /\ mem \in [Slots -> MaybePage]
    BY DEF Init, Calls, MaybePage
  <2>2. va = [p \in Slots |-> 0] /\ goal = [p \in Slots |-> 0]
    BY DEF Init
  <2>3. 0 \in 0 .. MaxSz
    BY <1>1
  <2> QED
    BY <1>3, <2>1, <2>2, <2>3 DEF CallsTyped
<1>6. Shape
  BY DEF Init, Shape
<1> DEFINE d == [e \in Ends |-> [k \in 1 .. Inner |->
                                   IF e = "top" THEN 3 + k ELSE pte + k]]
<1>7. /\ dirs[0] = d /\ top[0] = TopOf(1, 2) /\ leaf[0] = [v \in {0} |-> pte]
      /\ \A w \in Slots \ {0} :
           dirs[w] = NoDirs /\ top[w] = <<>> /\ leaf[w] = NoLeaves
  BY <1>2 DEF Init
<1>8. /\ \A e \in Ends : d[e] \in Seq(Pages) /\ Len(d[e]) <= Inner
      /\ d \in [Ends -> Seq(Pages)]
  <2>1. ASSUME NEW e \in Ends PROVE d[e] \in Seq(Pages) /\ Len(d[e]) <= Inner
    <3>1. d[e] = [k \in 1 .. Inner |-> IF e = "top" THEN 3 + k ELSE pte + k]
      OBVIOUS
    <3>2. \A k \in 1 .. Inner : (IF e = "top" THEN 3 + k ELSE pte + k) \in Pages
      BY <1>1
    <3>3. d[e] \in Seq(Pages) /\ Len(d[e]) = Inner
      BY <1>1, <3>1, <3>2
    <3> QED
      BY <1>1, <3>3
  <2> QED
    BY <2>1
<1> HIDE DEF d
<1>9. TableTypes(0)
  <2>1. DOMAIN top[0] = TopNames
    BY <1>7 DEF TopOf
  <2>2. DOMAIN leaf[0] = {0} /\ leaf[0][0] = pte
    BY <1>7
  <2> QED
    BY <1>1, <1>3, <1>7, <1>8, <2>1, <2>2 DEF TableTypes
<1>10. \A w \in Slots \ {0} : TableTypes(w)
  <2>1. NoDirs \in [Ends -> Seq(Pages)] /\ \A e \in Ends : Len(NoDirs[e]) <= Inner
    BY <1>1 DEF NoDirs
  <2>2. DOMAIN NoLeaves = {} /\ DOMAIN <<>> = {}
    BY DEF NoLeaves
  <2> QED
    BY <1>7, <2>1, <2>2 DEF TableTypes
<1>11. TypeOK
  BY <1>1, <1>4, <1>5, <1>9, <1>10, Types
<1>12. NoPanic /\ Alone
  BY DEF Init, NoPanic, Alone, Forking
<1>13. Good(0)
  <2>1. trapframe[0] = 1 /\ extra[0] = 2 /\ root[0] = 3 /\ sz[0] = PGSIZE
    BY <1>2 DEF Init
  <2>2. Whole(0)
    BY <1>2, <1>7, <2>1 DEF Whole
  <2>3. DOMAIN leaf[0] = Memory(sz[0])
    BY <1>3, <1>7, <2>1 DEF Memory
  <2> QED
    BY <1>2, <2>2, <2>3 DEF Init, Good, Forking, Growing
<1>14. \A w \in Slots \ {0} : Good(w)
  BY <1>2, <1>7 DEF Init, Good, Bare, Forking, Growing
<1> QED
  BY <1>6, <1>11, <1>12, <1>13, <1>14 DEF IInv

\* What fork(), sbrk(), exit() and wait() rely on holds between any two of
\* their kalloc() calls, whichever of them fails.
THEOREM Invariant == Spec => []IInv
<1>1. Init => IInv
  BY UserPagesAssumption, Initially
<1>2. ASSUME IInv, [Next]_vars PROVE IInv'
  <2>1. CASE UNCHANGED vars
    <3> USE <1>2, <2>1
        DEF vars, procVars, tableVars, callVars, IInv, Slots, Pages, Null,
            PageCount, TopNames
    <3>1. TypeOK'
      BY DEF TypeOK, Calls, Ends
    <3>2. Shape' /\ NoPanic' /\ Alone'
      BY DEF Shape, NoPanic, Alone, Forking
    <3>3. \A p \in Slots : Good(p) /\ np[p] \in Slots
      BY DEF TypeOK
    <3>4. \A p \in Slots : SameSlot(p) /\ SameCall(p)
      BY DEF SameSlot, SameCall
    <3>5. \A p \in Slots : Good(p)'
      BY <3>3, <3>4, SameIsGood
    <3> QED
      BY <3>1, <3>2, <3>5
  <2>2. CASE Next
    BY <1>2, <2>2, UserPagesAssumption, ForkStep, SbrkStep, ExitStep, ReapStep
    DEF Next
  <2> QED
    BY <1>2, <2>1, <2>2
<1> QED
  BY <1>1, <1>2, PTL DEF Spec

\* Every variable keeps its type, for any number of slots and pages, pages of
\* any size and page tables of any depth.
THEOREM TypeCorrect == Spec => []TypeOK
<1>1. IInv => TypeOK
  BY DEF IInv
<1> QED
  BY <1>1, Invariant, PTL

\* fork(), sbrk(), exit() and wait() never panic over a page table.
THEOREM TablesAsExpected == Spec => []NoPanic
<1>1. IInv => NoPanic
  BY DEF IInv
<1> QED
  BY <1>1, Invariant, PTL

\* A process has the virtual pages of its size, also after a failed sbrk(),
\* and a live one has all of its own pages, mapped where it looks for them.
THEOREM PagesAsPromised == Spec => []MemoryWhole
<1>1. IInv => SizeMapped
  BY DEF IInv, SizeMapped, Good, Growing
<1>2. IInv => OwnTop
  BY DEF IInv, OwnTop, Good, Whole
<1>3. IInv => MemoryWhole
  BY <1>1, <1>2 DEF MemoryWhole
<1> QED
  BY <1>3, Invariant, PTL

-----------------------------------------------------------------------------
(***************************************************************************)
(* The proof that every page of the traps lab's kernel is at exactly one   *)
(* place.  A step of fork(), sbrk(), exit() or wait() takes a page from    *)
(* the free list to a place that had none, moves it from one place to      *)
(* another, or gives back what is at some places; a page that has one      *)
(* owner before any of these has one after it.  The page tables lab's      *)
(* kernel is no matter of this proof: it frees its page twice.             *)
(***************************************************************************)

\* Places

\* The places of page r, other than the free list, if every slot's extra page
\* is its own.
held ==
  [r \in Pages |->
     At("trapframe", trapframe, r) \cup At("extra", extra, r)
     \cup At("root", root, r) \cup At("local", mem, r)
     \cup (UNION {DirAt(q, e, r) : q \in Slots, e \in Ends})
     \cup (UNION {LeafAt(q, r) : q \in Slots})]

\* Page r is at place x.
HeldBy(x, r) ==
  \E q \in Slots :
    \/ x = <<"trapframe", q>> /\ trapframe[q] = r
    \/ x = <<"extra", q>> /\ extra[q] = r
    \/ x = <<"root", q>> /\ root[q] = r
    \/ x = <<"local", q>> /\ mem[q] = r
    \/ \E e \in Ends : \E k \in DOMAIN dirs[q][e] :
         x = <<"dir", q, e, k>> /\ dirs[q][e][k] = r
    \/ \E v \in DOMAIN leaf[q] : x = <<"memory", q, v>> /\ leaf[q][v] = r

HeldMeans == \A r \in Pages : \A x : x \in held[r] <=> HeldBy(x, r)

\* A page in use is at one place; one in the free list is there once, and at
\* no place.
Single ==
  \A r \in Pages : \/ freelist[r] = 0 /\ \E o : held[r] = {o}
                   \/ freelist[r] = 1 /\ held[r] = {}

\* A slot whose extra page is not its own has no pointer to one either.
NoStray ==
  \A q \in Slots : pstate[q] = "UNUSED" \/ BeforeExtra(q) => extra[q] = Null

\* This holds where freeproc() clears the pointer.
OwnerInv == build.lab = "traps" => Single /\ NoStray

\* What it is to be in each of the sets of places.
LEMMA InPlaces ==
  ASSUME NEW r, NEW x
  PROVE  /\ \A name, f : x \in At(name, f, r) <=> \E q \in Slots : x = <<name, q>> /\ f[q] = r
         /\ x \in UNION {DirAt(q, e, r) : q \in Slots, e \in Ends} <=>
              \E q \in Slots : \E e \in Ends : \E k \in DOMAIN dirs[q][e] :
                x = <<"dir", q, e, k>> /\ dirs[q][e][k] = r
         /\ x \in UNION {LeafAt(q, r) : q \in Slots} <=>
              \E q \in Slots : \E v \in DOMAIN leaf[q] :
                x = <<"memory", q, v>> /\ leaf[q][v] = r
<1>1. \A name, f : x \in At(name, f, r) <=> \E q \in Slots : x = <<name, q>> /\ f[q] = r
  BY DEF At
<1>2. \A y : y \in {DirAt(q, e, r) : q \in Slots, e \in Ends} <=>
             \E q \in Slots : \E e \in Ends : y = DirAt(q, e, r)
  OBVIOUS
<1>3. x \in UNION {DirAt(q, e, r) : q \in Slots, e \in Ends} <=>
      \E y \in {DirAt(q, e, r) : q \in Slots, e \in Ends} : x \in y
  OBVIOUS
<1>4. \A q, e : x \in DirAt(q, e, r) <=>
                \E k \in DOMAIN dirs[q][e] : x = <<"dir", q, e, k>> /\ dirs[q][e][k] = r
  BY DEF DirAt
<1>5. \A q : x \in LeafAt(q, r) <=>
             \E v \in DOMAIN leaf[q] : x = <<"memory", q, v>> /\ leaf[q][v] = r
  BY DEF LeafAt
<1> QED
  BY <1>1, <1>2, <1>3, <1>4, <1>5

LEMMA Held == HeldMeans
<1> SUFFICES ASSUME NEW r \in Pages, NEW x PROVE x \in held[r] <=> HeldBy(x, r)
  BY DEF HeldMeans
<1>1. x \in held[r] <=>
        \/ x \in At("trapframe", trapframe, r) \/ x \in At("extra", extra, r)
        \/ x \in At("root", root, r) \/ x \in At("local", mem, r)
        \/ x \in UNION {DirAt(q, e, r) : q \in Slots, e \in Ends}
        \/ x \in UNION {LeafAt(q, r) : q \in Slots}
  BY DEF held
<1> QED
  BY <1>1, InPlaces DEF HeldBy

\* It holds before and after a step.
LEMMA HeldAgain == HeldMeans'
  BY Held, PTL

\* The places Owners names are these and the free list.
LEMMA OneIsOwner ==
  ASSUME Single, NoStray PROVE OneOwner
<1> SUFFICES ASSUME NEW r \in Pages PROVE Cardinality(Owners(r)) = 1
  BY DEF OneOwner
<1>1. r # Null
  BY DEF Pages, Null
<1>2. ExtraAt(r) = At("extra", extra, r)
  <2>1. \A p \in Slots : extra[p] = r => pstate[p] # "UNUSED" /\ ~ BeforeExtra(p)
    BY <1>1 DEF NoStray
  <2>2. {q \in Slots : extra[q] = r /\ pstate[q] # "UNUSED" /\ ~ BeforeExtra(q)}
          = {q \in Slots : extra[q] = r}
    BY <2>1
  <2> QED
    BY <2>2 DEF ExtraAt, At
<1>3. Owners(r) = {<<"free", k>> : k \in 1 .. freelist[r]} \cup held[r]
  BY <1>2 DEF Owners, held
<1>4. CASE freelist[r] = 1 /\ held[r] = {}
  <2>1. 1 .. freelist[r] = {1}
    BY <1>4
  <2>2. Owners(r) = {<<"free", 1>>}
    BY <1>3, <1>4, <2>1
  <2> QED
    BY <2>2, FS_Singleton
<1>5. CASE freelist[r] = 0 /\ \E o : held[r] = {o}
  <2> PICK o : held[r] = {o}
    BY <1>5
  <2>1. 1 .. freelist[r] = {}
    BY <1>5
  <2>2. Owners(r) = {o}
    BY <1>3, <2>1
  <2> QED
    BY <2>2, FS_Singleton
<1> QED
  BY <1>4, <1>5 DEF Single

-----------------------------------------------------------------------------
\* What a step does to the owner of each page

\* kalloc() takes a page to a place that has none.
LEMMA Taken ==
  ASSUME Single, build' = build, NEW r \in Pages, freelist \in [Pages -> Nat],
         Kalloc(r), NEW o,
         \A s \in Pages : held'[s] = held[s] \cup (IF s = r THEN {o} ELSE {})
  PROVE  Single'
<1>1. freelist[r] # 0 /\ freelist'[r] = freelist[r] - 1
  BY DEF Kalloc
<1>2. freelist[r] = 1 /\ held[r] = {}
  BY <1>1 DEF Single
<1>3. freelist'[r] = 0 /\ held'[r] = {o}
  BY <1>1, <1>2
<1>4. \A s \in Pages \ {r} : freelist'[s] = freelist[s] /\ held'[s] = held[s]
  BY DEF Kalloc
<1> QED
  BY <1>3, <1>4, Unmoved DEF Single

\* A page goes from one place to another.
LEMMA Moved ==
  ASSUME Single, build' = build, freelist' = freelist, NEW r \in Pages,
         NEW o, NEW to, o \in held[r],
         \A s \in Pages : held'[s] = (held[s] \ {o}) \cup (IF s = r THEN {to} ELSE {}),
         \A s \in Pages \ {r} : o \notin held[s]
  PROVE  Single'
<1>1. freelist[r] = 0 /\ held[r] = {o}
  BY DEF Single
<1>2. held'[r] = {to}
  BY <1>1
<1>3. \A s \in Pages \ {r} : held'[s] = held[s]
  OBVIOUS
<1>4. freelist'[r] = 0 /\ \A s \in Pages : freelist'[s] = freelist[s]
  BY <1>1
<1>5. ASSUME NEW s \in Pages
      PROVE  \/ freelist'[s] = 0 /\ \E x : held'[s] = {x}
             \/ freelist'[s] = 1 /\ held'[s] = {}
  BY <1>2, <1>3, <1>4 DEF Single
<1> QED
  BY <1>5, Unmoved DEF Single

\* No page changes its place.
LEMMA Stays ==
  ASSUME Single, build' = build, freelist' = freelist,
         UNCHANGED <<trapframe, extra, root, dirs, leaf, mem>>
  PROVE  Single'
<1>1. held' = held
  BY Unmoved DEF held, At, DirAt, LeafAt, Ends
<1> QED
  BY <1>1, Unmoved DEF Single

-----------------------------------------------------------------------------
\* kfree()

\* The sequence s has what is at the places of T, each page once.
Gives(s, T) ==
  /\ \A r \in Pages : (\E o \in T : o \in held[r]) <=> (\E k \in DOMAIN s : s[k] = r)
  /\ \A k, l \in DOMAIN s : s[k] \in Pages /\ s[k] = s[l] => k = l

\* What was at places of T is in the free list.
LEMMA GivenBack ==
  ASSUME Single, build' = build, freelist \in [Pages -> Nat], NEW T,
         NEW s \in Seq(MaybePage), Gives(s, T), Kfree(s),
         \A r \in Pages : held'[r] = held[r] \ T
  PROVE  Single'
<1> SUFFICES ASSUME NEW r \in Pages
             PROVE  \/ freelist'[r] = 0 /\ \E o : held'[r] = {o}
                    \/ freelist'[r] = 1 /\ held'[r] = {}
  BY Unmoved DEF Single
<1> DEFINE K == {k \in DOMAIN s : s[k] = r}
<1>1. freelist'[r] = freelist[r] + Cardinality(K)
  BY DEF Kfree
<1>2. CASE \E k \in DOMAIN s : s[k] = r
  <2> PICK k \in DOMAIN s : s[k] = r
    BY <1>2
  <2>1. K = {k}
    BY DEF Gives
  <2>2. Cardinality(K) = 1
    BY <2>1, FS_Singleton
  <2> PICK o \in T : o \in held[r]
    BY DEF Gives
  <2>3. freelist[r] = 0 /\ held[r] = {o}
    BY DEF Single
  <2> HIDE DEF K
  <2>4. freelist'[r] = 1
    BY <1>1, <2>2, <2>3
  <2> QED
    BY <2>3, <2>4
<1>3. CASE ~ \E k \in DOMAIN s : s[k] = r
  <2>1. K = {}
    BY <1>3
  <2>2. Cardinality(K) = 0
    BY <2>1, FS_EmptySet
  <2> HIDE DEF K
  <2>3. freelist'[r] = freelist[r]
    BY <1>1, <2>2
  <2>4. \A o \in T : o \notin held[r]
    BY <1>3 DEF Gives
  <2>5. held'[r] = held[r]
    BY <2>4
  <2> QED
    BY <2>3, <2>5 DEF Single
<1> QED
  BY <1>2, <1>3

\* Nothing is at no place, and one pointer at one.
LEMMA GivesNothing == Gives(<<>>, {})
  BY DEF Gives

LEMMA GivesOne ==
  ASSUME NEW x, NEW o, \A r \in Pages : o \in held[r] <=> x = r
  PROVE  Gives(<<x>>, {o})
<1>1. DOMAIN <<x>> = {1} /\ <<x>>[1] = x
  OBVIOUS
<1> QED
  BY <1>1 DEF Gives

\* First one, then the other: no page twice, since each is at one place.
LEMMA GivesBoth ==
  ASSUME Single, NEW s \in Seq(MaybePage), NEW t \in Seq(MaybePage),
         NEW T, NEW U, T \cap U = {}, Gives(s, T), Gives(t, U)
  PROVE  Gives(s \o t, T \cup U)
<1> DEFINE st == s \o t
<1>1. /\ Len(s) \in Nat /\ Len(t) \in Nat
      /\ DOMAIN s = 1 .. Len(s) /\ DOMAIN t = 1 .. Len(t)
  BY LenProperties
<1>2. /\ st \in Seq(MaybePage) /\ Len(st) = Len(s) + Len(t)
      /\ \A k \in 1 .. Len(s) + Len(t) :
           st[k] = IF k <= Len(s) THEN s[k] ELSE t[k - Len(s)]
  BY ConcatProperties
<1>3. DOMAIN st = 1 .. Len(s) + Len(t)
  BY <1>2, LenProperties
<1> HIDE DEF st
<1>4. \A k \in DOMAIN st : \/ k \in DOMAIN s /\ st[k] = s[k]
                           \/ k - Len(s) \in DOMAIN t /\ st[k] = t[k - Len(s)]
  BY <1>1, <1>2, <1>3
<1>5. /\ \A k \in DOMAIN s : k \in DOMAIN st /\ st[k] = s[k]
      /\ \A k \in DOMAIN t : k + Len(s) \in DOMAIN st /\ st[k + Len(s)] = t[k]
  BY <1>1, <1>2, <1>3
<1>6. ASSUME NEW r \in Pages
      PROVE  (\E o \in T \cup U : o \in held[r]) <=> \E k \in DOMAIN st : st[k] = r
  <2>1. ASSUME NEW o \in T \cup U, o \in held[r] PROVE \E k \in DOMAIN st : st[k] = r
    BY <1>5, <2>1 DEF Gives
  <2>2. ASSUME NEW k \in DOMAIN st, st[k] = r PROVE \E o \in T \cup U : o \in held[r]
    BY <1>4, <2>2 DEF Gives
  <2> QED
    BY <2>1, <2>2
<1>7. ASSUME NEW k \in DOMAIN s, NEW l \in DOMAIN t, s[k] = t[l], s[k] \in Pages
      PROVE  FALSE
  <2>1. PICK o \in T : o \in held[s[k]]
    BY <1>7 DEF Gives
  <2>2. PICK u \in U : u \in held[s[k]]
    BY <1>7 DEF Gives
  <2>3. o = u
    BY <1>7, <2>1, <2>2 DEF Single
  <2> QED
    BY <2>3
<1>8. ASSUME NEW k \in DOMAIN st, NEW l \in DOMAIN st, st[k] \in Pages, st[k] = st[l]
      PROVE  k = l
  <2>1. CASE k \in DOMAIN s /\ st[k] = s[k] /\ l \in DOMAIN s /\ st[l] = s[l]
    BY <1>8, <2>1 DEF Gives
  <2>2. CASE /\ k - Len(s) \in DOMAIN t /\ st[k] = t[k - Len(s)]
             /\ l - Len(s) \in DOMAIN t /\ st[l] = t[l - Len(s)]
    <3>1. k - Len(s) = l - Len(s)
      BY <1>8, <2>2 DEF Gives
    <3> QED
      BY <1>1, <1>3, <3>1
  <2> QED
    BY <1>4, <1>7, <1>8, <2>1, <2>2
<1> QED
  BY <1>6, <1>8 DEF Gives, st

-----------------------------------------------------------------------------
\* kalloc(), and where its page goes

\* To the pointer of a slot or a call, which was null,
LEMMA PointerTaken ==
  ASSUME Single, TypeOK, build' = build, NEW r \in Pages, Kalloc(r), NEW q \in Slots,
         UNCHANGED <<dirs, leaf>>,
         \/ /\ trapframe[q] = Null /\ trapframe' = [trapframe EXCEPT ![q] = r]
            /\ UNCHANGED <<extra, root, mem>>
         \/ /\ extra[q] = Null /\ extra' = [extra EXCEPT ![q] = r]
            /\ UNCHANGED <<trapframe, root, mem>>
         \/ /\ root[q] = Null /\ root' = [root EXCEPT ![q] = r]
            /\ UNCHANGED <<trapframe, extra, mem>>
         \/ /\ mem[q] = Null /\ mem' = [mem EXCEPT ![q] = r]
            /\ UNCHANGED <<trapframe, extra, root>>
  PROVE  Single'
<1> DEFINE New(o) == \A s \in Pages : held'[s] = held[s] \cup (IF s = r THEN {o} ELSE {})
<1>1. ASSUME NEW o, New(o) PROVE Single'
  <2>1. freelist \in [Pages -> Nat]
    BY DEF TypeOK
  <2> QED
    BY <1>1, <2>1, Taken
<1> DEFINE Adds(o) == \A s \in Pages : \A x :
                        x \in held'[s] <=> x \in held[s] \/ (s = r /\ x = o)
<1>2. ASSUME NEW o, Adds(o) PROVE Single'
  <2>1. New(o)
    BY <1>2
  <2> HIDE DEF New
  <2> QED
    BY <1>1, <2>1
<1> HIDE DEF New, Adds
<1>3. Slots' = Slots /\ Pages' = Pages /\ Null \notin Pages
  BY Unmoved DEF Pages, Null
<1>4. /\ DOMAIN trapframe = Slots /\ DOMAIN extra = Slots
      /\ DOMAIN root = Slots /\ DOMAIN mem = Slots
  BY DEF TypeOK
<1>5. CASE trapframe[q] = Null /\ trapframe' = [trapframe EXCEPT ![q] = r]
           /\ UNCHANGED <<extra, root, mem>>
  <2>1. Adds(<<"trapframe", q>>)
    BY <1>3, <1>4, <1>5, Held, HeldAgain DEF Adds, HeldMeans, HeldBy, Ends
  <2> QED
    BY <1>2, <2>1
<1>6. CASE extra[q] = Null /\ extra' = [extra EXCEPT ![q] = r]
           /\ UNCHANGED <<trapframe, root, mem>>
  <2>1. Adds(<<"extra", q>>)
    BY <1>3, <1>4, <1>6, Held, HeldAgain DEF Adds, HeldMeans, HeldBy, Ends
  <2> QED
    BY <1>2, <2>1
<1>7. CASE root[q] = Null /\ root' = [root EXCEPT ![q] = r]
           /\ UNCHANGED <<trapframe, extra, mem>>
  <2>1. Adds(<<"root", q>>)
    BY <1>3, <1>4, <1>7, Held, HeldAgain DEF Adds, HeldMeans, HeldBy, Ends
  <2> QED
    BY <1>2, <2>1
<1>8. CASE mem[q] = Null /\ mem' = [mem EXCEPT ![q] = r]
           /\ UNCHANGED <<trapframe, extra, root>>
  <2>1. Adds(<<"local", q>>)
    BY <1>3, <1>4, <1>8, Held, HeldAgain DEF Adds, HeldMeans, HeldBy, Ends
  <2> QED
    BY <1>2, <2>1
<1> QED
  BY <1>5, <1>6, <1>7, <1>8

\* to one more directory page of a table,
LEMMA DirTaken ==
  ASSUME Single, TypeOK, Shape, build' = build, NEW r \in Pages, Kalloc(r),
         NEW q \in Slots, NEW e \in Ends,
         dirs' = [dirs EXCEPT ![q][e] = Append(dirs[q][e], r)],
         UNCHANGED <<trapframe, extra, root, mem, leaf>>
  PROVE  Single'
<1> DEFINE d == dirs[q][e]
           n == Len(d) + 1
<1>1. d \in Seq(Pages) /\ DOMAIN dirs[q] = Ends /\ DOMAIN dirs = Slots
  BY DEF TypeOK, Shape
<1>2. Len(d) \in Nat /\ DOMAIN d = 1 .. Len(d)
  BY <1>1, LenProperties
<1>3. /\ DOMAIN Append(d, r) = 1 .. n /\ Append(d, r)[n] = r
      /\ \A k \in 1 .. Len(d) : Append(d, r)[k] = d[k]
  BY <1>1, AppendProperties, LenProperties
<1>4. \A s : \A k : k \in DOMAIN Append(d, r) /\ Append(d, r)[k] = s
                    <=> (k \in DOMAIN d /\ d[k] = s) \/ (k = n /\ r = s)
  BY <1>2, <1>3
<1>5. /\ dirs'[q][e] = Append(d, r)
      /\ \A p \in Slots : \A f \in Ends : p # q \/ f # e => dirs'[p][f] = dirs[p][f]
  BY <1>1
<1> HIDE DEF d, n
<1>6. ASSUME NEW s, NEW u \in Slots, NEW f \in Ends, NEW k
      PROVE  k \in DOMAIN dirs'[u][f] /\ dirs'[u][f][k] = s
               <=> \/ k \in DOMAIN dirs[u][f] /\ dirs[u][f][k] = s
                   \/ u = q /\ f = e /\ k = n /\ r = s
  <2>1. CASE u = q /\ f = e
    <3>1. dirs[u][f] = d /\ dirs'[u][f] = Append(d, r)
      BY <1>5, <2>1 DEF d
    <3> QED
      BY <1>4, <2>1, <3>1
  <2>2. CASE u # q \/ f # e
    BY <1>5, <2>2
  <2> QED
    BY <2>1, <2>2
<1>7. Slots' = Slots /\ Pages' = Pages
  BY Unmoved
<1>8. ASSUME NEW s \in Pages, NEW x
      PROVE  x \in held'[s] <=> x \in held[s] \/ (s = r /\ x = <<"dir", q, e, n>>)
  <2>1. (\E u \in Slots : \E f \in Ends : \E k \in DOMAIN dirs'[u][f] :
           x = <<"dir", u, f, k>> /\ dirs'[u][f][k] = s)
        <=> \/ \E u \in Slots : \E f \in Ends : \E k \in DOMAIN dirs[u][f] :
                 x = <<"dir", u, f, k>> /\ dirs[u][f][k] = s
            \/ s = r /\ x = <<"dir", q, e, n>>
    BY <1>6
  <2> QED
    BY <1>7, <2>1, Held, HeldAgain DEF HeldMeans, HeldBy, Ends
<1>9. \A s \in Pages : held'[s] = held[s] \cup (IF s = r THEN {<<"dir", q, e, n>>} ELSE {})
  BY <1>8
<1>10. freelist \in [Pages -> Nat]
  BY DEF TypeOK
<1> QED
  BY <1>9, <1>10, Taken

\* and from a call to the memory of a process.
LEMMA MemoryMoved ==
  ASSUME Single, TypeOK, Shape, build' = build, NEW p \in Slots, NEW q \in Slots,
         NEW v, v \notin DOMAIN leaf[q], mem[p] # Null,
         leaf' = [leaf EXCEPT ![q] = With(leaf[q], v, mem[p])],
         mem' = [mem EXCEPT ![p] = Null],
         UNCHANGED <<freelist, trapframe, extra, root, dirs>>
  PROVE  Single'
<1> PICK r \in Pages : r = mem[p]
  BY DEF TypeOK
<1>1. Slots' = Slots /\ Pages' = Pages /\ Null \notin Pages
  BY Unmoved DEF Pages, Null
<1>2. DOMAIN mem = Slots /\ DOMAIN leaf = Slots
  BY DEF TypeOK, Shape
<1>3. /\ \A u \in Slots \ {q} : leaf'[u] = leaf[u]
      /\ DOMAIN leaf'[q] = DOMAIN leaf[q] \cup {v} /\ leaf'[q][v] = r
      /\ \A w \in DOMAIN leaf[q] : leaf'[q][w] = leaf[q][w]
  BY <1>2 DEF With
<1>4. ASSUME NEW s, NEW u \in Slots, NEW w
      PROVE  w \in DOMAIN leaf'[u] /\ leaf'[u][w] = s
               <=> \/ w \in DOMAIN leaf[u] /\ leaf[u][w] = s
                   \/ u = q /\ w = v /\ r = s
  BY <1>3
<1>5. ASSUME NEW s \in Pages, NEW x
      PROVE  x \in held'[s] <=> \/ x \in held[s] /\ x # <<"local", p>>
                                \/ s = r /\ x = <<"memory", q, v>>
  <2>1. (\E u \in Slots : \E w \in DOMAIN leaf'[u] :
           x = <<"memory", u, w>> /\ leaf'[u][w] = s)
        <=> \/ \E u \in Slots : \E w \in DOMAIN leaf[u] :
                 x = <<"memory", u, w>> /\ leaf[u][w] = s
            \/ s = r /\ x = <<"memory", q, v>>
    BY <1>4
  <2> QED
    BY <1>1, <1>2, <2>1, Held, HeldAgain DEF HeldMeans, HeldBy, Ends
<1>6. \A s \in Pages : <<"local", p>> \in held[s] <=> s = r
  BY Held DEF HeldMeans, HeldBy
<1> DEFINE o == <<"local", p>>
           to == <<"memory", q, v>>
<1>7. \A s \in Pages : held'[s] = (held[s] \ {o}) \cup (IF s = r THEN {to} ELSE {})
  BY <1>5
<1>8. o \in held[r] /\ \A s \in Pages \ {r} : o \notin held[s]
  BY <1>6
<1> HIDE DEF o, to
<1> QED
  BY <1>7, <1>8, Moved

-----------------------------------------------------------------------------
\* What freeproc() and uvmdealloc() give back

Pointers(q) == {<<"trapframe", q>>, <<"extra", q>>}
DirPlaces(q, e) == {<<"dir", q, e, k>> : k \in DOMAIN dirs[q][e]}
TablePlaces(q) == DirPlaces(q, "low") \cup DirPlaces(q, "top") \cup {<<"root", q>>}
LeafPlaces(q, a, b) == {<<"memory", q, v>> : v \in a .. b - 1}

\* Places without a page do not matter.
LEMMA GivesMore ==
  ASSUME NEW s, NEW T, NEW U, Gives(s, T),
         \A r \in Pages : \A o \in U : o \in held[r] => o \in T
  PROVE  Gives(s, T \cup U)
  BY DEF Gives

\* The two pages freeproc() frees itself,
LEMMA PointersGiven ==
  ASSUME Single, TypeOK, NEW q \in Slots
  PROVE  Gives(<<trapframe[q], extra[q]>>, Pointers(q))
<1> DEFINE s == <<trapframe[q], extra[q]>>
<1>1. /\ \A r \in Pages : <<"trapframe", q>> \in held[r] <=> trapframe[q] = r
      /\ \A r \in Pages : <<"extra", q>> \in held[r] <=> extra[q] = r
  BY Held DEF HeldMeans, HeldBy
<1>2. DOMAIN s = {1, 2} /\ s[1] = trapframe[q] /\ s[2] = extra[q]
  OBVIOUS
<1> HIDE DEF s
<1>3. \A r \in Pages : (\E o \in Pointers(q) : o \in held[r]) <=> (\E k \in DOMAIN s : s[k] = r)
  BY <1>1, <1>2 DEF Pointers
<1>4. ~ (trapframe[q] \in Pages /\ trapframe[q] = extra[q])
  BY <1>1 DEF Single
<1>5. \A k, l \in DOMAIN s : s[k] \in Pages /\ s[k] = s[l] => k = l
  BY <1>2, <1>4
<1> QED
  BY <1>3, <1>5 DEF Gives, s

\* the directory pages of one end of a table,
LEMMA DirsGiven ==
  ASSUME Single, NEW q \in Slots, NEW e \in Ends
  PROVE  Gives(dirs[q][e], DirPlaces(q, e))
<1>1. \A r \in Pages : \A k : <<"dir", q, e, k>> \in held[r] <=>
                              k \in DOMAIN dirs[q][e] /\ dirs[q][e][k] = r
  BY Held DEF HeldMeans, HeldBy
<1>2. ASSUME NEW r \in Pages
      PROVE  (\E o \in DirPlaces(q, e) : o \in held[r]) <=>
             (\E k \in DOMAIN dirs[q][e] : dirs[q][e][k] = r)
  <2>1. ASSUME NEW o \in DirPlaces(q, e), o \in held[r]
        PROVE  \E k \in DOMAIN dirs[q][e] : dirs[q][e][k] = r
    <3>1. PICK k \in DOMAIN dirs[q][e] : o = <<"dir", q, e, k>>
      BY DEF DirPlaces
    <3> QED
      BY <1>1, <2>1, <3>1
  <2>2. ASSUME NEW k \in DOMAIN dirs[q][e], dirs[q][e][k] = r
        PROVE  \E o \in DirPlaces(q, e) : o \in held[r]
    <3>1. <<"dir", q, e, k>> \in DirPlaces(q, e)
      BY DEF DirPlaces
    <3> QED
      BY <1>1, <2>2, <3>1
  <2> QED
    BY <2>1, <2>2
<1>3. ASSUME NEW k \in DOMAIN dirs[q][e], NEW l \in DOMAIN dirs[q][e],
             dirs[q][e][k] \in Pages, dirs[q][e][k] = dirs[q][e][l]
      PROVE  k = l
  <2> PICK r \in Pages : r = dirs[q][e][k]
    BY <1>3
  <2>1. <<"dir", q, e, k>> \in held[r] /\ <<"dir", q, e, l>> \in held[r]
    BY <1>1, <1>3
  <2>2. <<"dir", q, e, k>> = <<"dir", q, e, l>>
    BY <2>1 DEF Single
  <2> QED
    BY <2>2
<1> QED
  BY <1>2, <1>3 DEF Gives

\* the whole table,
LEMMA TableGiven ==
  ASSUME Single, TypeOK, NEW q \in Slots
  PROVE  Gives(TablePages(q), TablePlaces(q))
<1>1. Gives(dirs[q]["low"], DirPlaces(q, "low")) /\ Gives(dirs[q]["top"], DirPlaces(q, "top"))
  BY DirsGiven DEF Ends
<1>2. \A r \in Pages : <<"root", q>> \in held[r] <=> root[q] = r
  BY Held DEF HeldMeans, HeldBy
<1>3. Gives(<<root[q]>>, {<<"root", q>>})
  BY <1>2, GivesOne
<1>4. /\ dirs[q]["low"] \in Seq(MaybePage) /\ dirs[q]["top"] \in Seq(MaybePage)
      /\ <<root[q]>> \in Seq(MaybePage)
  BY SlotTypes
<1>5. /\ DirPlaces(q, "low") \cap DirPlaces(q, "top") = {}
      /\ (DirPlaces(q, "low") \cup DirPlaces(q, "top")) \cap {<<"root", q>>} = {}
  BY DEF DirPlaces
<1>6. /\ dirs[q]["low"] \o dirs[q]["top"] \in Seq(MaybePage)
      /\ Gives(dirs[q]["low"] \o dirs[q]["top"], DirPlaces(q, "low") \cup DirPlaces(q, "top"))
  BY <1>1, <1>4, <1>5, GivesBoth, ConcatProperties
<1> QED
  BY <1>3, <1>4, <1>5, <1>6, GivesBoth DEF TablePages, TablePlaces

\* and user memory.
LEMMA MemoryGiven ==
  ASSUME Single, NEW q \in Slots, NEW a \in Int, NEW b \in Int,
         a .. b - 1 \subseteq DOMAIN leaf[q]
  PROVE  Gives(Run(leaf[q], a, b), LeafPlaces(q, a, b))
<1> DEFINE s == Run(leaf[q], a, b)
           n == IF b > a THEN b - a ELSE 0
<1>1. n \in Nat /\ \A k \in 1 .. n : a + k - 1 \in a .. b - 1
  OBVIOUS
<1>2. \A v \in a .. b - 1 : v - a + 1 \in 1 .. n /\ a + (v - a + 1) - 1 = v
  OBVIOUS
<1>3. DOMAIN s = 1 .. n /\ \A k \in 1 .. n : s[k] = leaf[q][a + k - 1]
  BY DEF Run
<1> HIDE DEF s, n
<1>4. \A v \in a .. b - 1 : v - a + 1 \in DOMAIN s /\ s[v - a + 1] = leaf[q][v]
  BY <1>2, <1>3
<1>5. \A k \in DOMAIN s : a + k - 1 \in a .. b - 1 /\ s[k] = leaf[q][a + k - 1]
  BY <1>1, <1>3
<1>6. \A r \in Pages : \A v \in a .. b - 1 : <<"memory", q, v>> \in held[r] <=> leaf[q][v] = r
  BY Held DEF HeldMeans, HeldBy
<1>7. ASSUME NEW r \in Pages
      PROVE  (\E o \in LeafPlaces(q, a, b) : o \in held[r]) <=> \E k \in DOMAIN s : s[k] = r
  <2>1. (\E o \in LeafPlaces(q, a, b) : o \in held[r]) <=> \E v \in a .. b - 1 : leaf[q][v] = r
    <3>1. ASSUME NEW o \in LeafPlaces(q, a, b), o \in held[r]
          PROVE  \E v \in a .. b - 1 : leaf[q][v] = r
      <4>1. PICK v \in a .. b - 1 : o = <<"memory", q, v>>
        BY DEF LeafPlaces
      <4> QED
        BY <1>6, <3>1, <4>1
    <3>2. ASSUME NEW v \in a .. b - 1, leaf[q][v] = r
          PROVE  \E o \in LeafPlaces(q, a, b) : o \in held[r]
      <4>1. <<"memory", q, v>> \in LeafPlaces(q, a, b)
        BY DEF LeafPlaces
      <4> QED
        BY <1>6, <3>2, <4>1
    <3> QED
      BY <3>1, <3>2
  <2> QED
    BY <1>4, <1>5, <2>1
<1>8. ASSUME NEW k \in DOMAIN s, NEW l \in DOMAIN s, s[k] \in Pages, s[k] = s[l]
      PROVE  k = l
  <2> PICK r \in Pages : r = s[k]
    BY <1>8
  <2> PICK v \in a .. b - 1 : v = a + k - 1
    BY <1>5
  <2> PICK w \in a .. b - 1 : w = a + l - 1
    BY <1>5
  <2>1. leaf[q][v] = r /\ leaf[q][w] = r
    BY <1>5, <1>8
  <2>2. <<"memory", q, v>> \in held[r] /\ <<"memory", q, w>> \in held[r]
    BY <1>6, <2>1
  <2>3. <<"memory", q, v>> = <<"memory", q, w>>
    BY <2>2 DEF Single
  <2>4. v = w /\ k \in Int /\ l \in Int
    BY <1>1, <1>3, <2>3
  <2> QED
    BY <2>4
<1> QED
  BY <1>7, <1>8 DEF Gives, s

\* A slot whose pointers and table go, and with it perhaps the page a call has
\* in its hands.
LEMMA SlotCleared ==
  ASSUME TypeOK, Shape, build' = build, NEW q \in Slots, NoTable(q), NEW T,
         trapframe' = [trapframe EXCEPT ![q] = Null],
         extra' = [extra EXCEPT ![q] = Null],
         \/ T = {} /\ mem' = mem
         \/ \E p \in Slots : T = {<<"local", p>>} /\ mem' = [mem EXCEPT ![p] = Null]
  PROVE  \A r \in Pages :
           held'[r] = held[r] \ (T \cup Pointers(q) \cup TablePlaces(q)
                                   \cup {<<"memory", q, v>> : v \in DOMAIN leaf[q]})
<1> DEFINE all == T \cup Pointers(q) \cup TablePlaces(q)
                    \cup {<<"memory", q, v>> : v \in DOMAIN leaf[q]}
<1> SUFFICES ASSUME NEW r \in Pages, NEW x PROVE x \in held'[r] <=> x \in held[r] /\ x \notin all
  OBVIOUS
<1>1. Slots' = Slots /\ Pages' = Pages /\ Null \notin Pages /\ Ends = {"low", "top"}
  BY Unmoved DEF Pages, Null, Ends
<1>2. /\ DOMAIN trapframe = Slots /\ DOMAIN extra = Slots /\ DOMAIN root = Slots
      /\ DOMAIN mem = Slots /\ DOMAIN dirs = Slots /\ DOMAIN leaf = Slots
  BY DEF TypeOK, Shape
<1>3. /\ \A e \in Ends : DOMAIN dirs'[q][e] = {}
      /\ DOMAIN leaf'[q] = {} /\ root'[q] = Null
      /\ \A u \in Slots \ {q} : dirs'[u] = dirs[u] /\ leaf'[u] = leaf[u] /\ root'[u] = root[u]
  BY <1>2 DEF NoTable, NoDirs, NoLeaves
<1>4. x \in all <=> \/ x \in T
                    \/ x = <<"trapframe", q>> \/ x = <<"extra", q>> \/ x = <<"root", q>>
                    \/ \E e \in Ends : \E k \in DOMAIN dirs[q][e] : x = <<"dir", q, e, k>>
                    \/ \E v \in DOMAIN leaf[q] : x = <<"memory", q, v>>
  BY <1>1 DEF Pointers, TablePlaces, DirPlaces
<1>5. x \in held[r] <=> HeldBy(x, r)
  BY Held DEF HeldMeans
<1>6. x \in held'[r] <=> HeldBy(x, r)'
  BY <1>1, HeldAgain DEF HeldMeans
<1> HIDE DEF all
<1>7. CASE T = {} /\ mem' = mem
  BY <1>1, <1>2, <1>3, <1>4, <1>5, <1>6, <1>7 DEF HeldBy, Ends
<1>8. CASE \E p \in Slots : T = {<<"local", p>>} /\ mem' = [mem EXCEPT ![p] = Null]
  BY <1>1, <1>2, <1>3, <1>4, <1>5, <1>6, <1>8 DEF HeldBy, Ends
<1> QED
  BY <1>7, <1>8

Local(p) == {<<"local", p>>}

\* What a call has in its hands when it gives up: a page, or none.
LEMMA LocalGiven ==
  ASSUME NEW p \in Slots
  PROVE  /\ Gives(<<mem[p]>>, Local(p))
         /\ mem[p] = Null => Gives(<<>>, Local(p))
<1>1. \A r \in Pages : <<"local", p>> \in held[r] <=> mem[p] = r
  BY Held DEF HeldMeans, HeldBy
<1>2. Gives(<<mem[p]>>, Local(p))
  BY <1>1, GivesOne DEF Local
<1>3. ASSUME mem[p] = Null PROVE Gives(<<>>, Local(p))
  <2>1. \A r \in Pages : r # Null
    BY DEF Pages, Null
  <2>2. \A r \in Pages : \A o \in Local(p) : o \notin held[r]
    BY <1>1, <1>3, <2>1 DEF Local
  <2>3. Gives(<<>>, {} \cup Local(p))
    BY <2>2, GivesNothing, GivesMore
  <2>4. {} \cup Local(p) = Local(p)
    OBVIOUS
  <2> QED
    BY <2>3, <2>4
<1> QED
  BY <1>2, <1>3

\* uvmdealloc() gives back the pages from a up to b, and its caller the one it
\* has in its hands.
LEMMA DeallocGives ==
  ASSUME Single, TypeOK, Shape, build' = build, NEW p \in Slots,
         NEW a \in Int, NEW b \in Int, a .. b - 1 \subseteq DOMAIN leaf[p],
         NEW first \in Seq(MaybePage), NEW L, Gives(first, L),
         Dealloc(p, a, b, first),
         \/ L = {} /\ mem' = mem
         \/ L = Local(p) /\ mem' = [mem EXCEPT ![p] = Null],
         UNCHANGED <<trapframe, extra, root, dirs>>
  PROVE  Single'
<1> DEFINE s == first \o Run(leaf[p], a, b)
           M == LeafPlaces(p, a, b)
<1>1. /\ Kfree(s)
      /\ leaf' = [leaf EXCEPT ![p] = Without(leaf[p], a .. b - 1)]
  BY DEF Dealloc, Mapped
<1>2. \A v \in a .. b - 1 : leaf[p][v] \in Pages
  BY SlotTypes
<1>3. Run(leaf[p], a, b) \in Seq(MaybePage)
  BY <1>2, RunIsSeq
<1>4. L \cap M = {}
  BY DEF Local, LeafPlaces
<1>5. Gives(Run(leaf[p], a, b), M)
  BY MemoryGiven
<1>6. s \in Seq(MaybePage) /\ Gives(s, L \cup M)
  <2> HIDE DEF M
  <2> QED
    BY <1>3, <1>4, <1>5, GivesBoth, ConcatProperties
<1>7. freelist \in [Pages -> Nat]
  BY DEF TypeOK
<1>8. ASSUME NEW r \in Pages, NEW x
      PROVE  x \in held'[r] <=> x \in held[r] /\ x \notin L \cup M
  <2>1. Slots' = Slots /\ Pages' = Pages /\ Null \notin Pages
    BY Unmoved DEF Pages, Null
  <2>2. DOMAIN mem = Slots /\ DOMAIN leaf = Slots
    BY DEF TypeOK, Shape
  <2>3. /\ \A u \in Slots \ {p} : leaf'[u] = leaf[u]
        /\ DOMAIN leaf'[p] = DOMAIN leaf[p] \ (a .. b - 1)
        /\ \A v \in DOMAIN leaf'[p] : leaf'[p][v] = leaf[p][v]
    BY <1>1, <2>2 DEF Without
  <2>4. x \in M <=> \E v \in a .. b - 1 : x = <<"memory", p, v>>
    BY DEF LeafPlaces
  <2> HIDE DEF M
  <2>5. (\E u \in Slots : \E v \in DOMAIN leaf'[u] :
           x = <<"memory", u, v>> /\ leaf'[u][v] = r)
        <=> /\ \E u \in Slots : \E v \in DOMAIN leaf[u] :
                 x = <<"memory", u, v>> /\ leaf[u][v] = r
            /\ x \notin M
    BY <2>3, <2>4
  <2>6. x \in held[r] <=> HeldBy(x, r)
    BY Held DEF HeldMeans
  <2>7. x \in held'[r] <=> HeldBy(x, r)'
    BY <2>1, HeldAgain DEF HeldMeans
  <2>8. CASE L = {} /\ mem' = mem
    BY <2>1, <2>4, <2>5, <2>6, <2>7, <2>8 DEF HeldBy, Ends
  <2>9. CASE L = Local(p) /\ mem' = [mem EXCEPT ![p] = Null]
    BY <2>1, <2>2, <2>4, <2>5, <2>6, <2>7, <2>9 DEF HeldBy, Ends, Local
  <2> QED
    BY <2>8, <2>9
<1>9. \A r \in Pages : held'[r] = held[r] \ (L \cup M)
  BY <1>8
<1> HIDE DEF s, M
<1> QED
  BY <1>1, <1>6, <1>7, <1>9, GivenBack

\* freeproc() of a slot gives back what first has, which is at F, its pointers,
\* what run has, which is at M, and its table.
LEMMA AllGiven ==
  ASSUME Single, TypeOK, NEW q \in Slots,
         NEW first \in Seq(MaybePage), NEW run \in Seq(MaybePage), NEW F, NEW M,
         Gives(first, F), Gives(run, M), F \cap M = {},
         (F \cup M) \cap (Pointers(q) \cup TablePlaces(q)) = {}
  PROVE  LET s == first \o <<trapframe[q], extra[q]>> \o (run \o TablePages(q))
         IN  /\ s \in Seq(MaybePage)
             /\ Gives(s, (F \cup Pointers(q)) \cup (M \cup TablePlaces(q)))
<1> DEFINE two == <<trapframe[q], extra[q]>>
<1>1. two \in Seq(MaybePage) /\ TablePages(q) \in Seq(MaybePage)
  BY SlotTypes, TablePagesAreSeq
<1>2. Gives(two, Pointers(q)) /\ Gives(TablePages(q), TablePlaces(q))
  BY PointersGiven, TableGiven
<1>3. Pointers(q) \cap TablePlaces(q) = {}
  BY DEF Pointers, TablePlaces, DirPlaces
<1> HIDE DEF two
<1>4. first \o two \in Seq(MaybePage) /\ Gives(first \o two, F \cup Pointers(q))
  BY <1>1, <1>2, GivesBoth, ConcatProperties
<1>5. /\ run \o TablePages(q) \in Seq(MaybePage)
      /\ Gives(run \o TablePages(q), M \cup TablePlaces(q))
  BY <1>1, <1>2, GivesBoth, ConcatProperties
<1>6. (F \cup Pointers(q)) \cap (M \cup TablePlaces(q)) = {}
  BY <1>3
<1>7. /\ first \o two \o (run \o TablePages(q)) \in Seq(MaybePage)
      /\ Gives(first \o two \o (run \o TablePages(q)),
               (F \cup Pointers(q)) \cup (M \cup TablePlaces(q)))
  BY <1>4, <1>5, <1>6, GivesBoth, ConcatProperties
<1> QED
  BY <1>7 DEF two

\* What becomes of the page in the hands of the call of p.
LetsGo(p, L) ==
  \/ L = {} /\ mem' = mem
  \/ L = Local(p) /\ mem' = [mem EXCEPT ![p] = Null]

\* freeproc() of a slot with a page table: all that the slot and the call have
\* is in the free list.
LEMMA FreeProcGives ==
  ASSUME Single, TypeOK, Shape, build' = build, build.lab = "traps",
         NEW p \in Slots, NEW q \in Slots, NEW f, Whole(q), DOMAIN f = Memory(sz[q]),
         NEW first \in Seq(MaybePage), NEW F, Gives(first, F),
         Run(f, 0, PageCount(sz[q])) \in Seq(MaybePage),
         NEW M, Gives(Run(f, 0, PageCount(sz[q])), M),
         FreeProc(q, f, first), NEW L, LetsGo(p, L),
         F \cap M = {},
         F \cup M = L \cup {<<"memory", q, v>> : v \in DOMAIN leaf[q]}
  PROVE  Single'
<1> DEFINE run == Run(f, 0, PageCount(sz[q]))
           leaves == {<<"memory", q, v>> : v \in DOMAIN leaf[q]}
           s == first \o <<trapframe[q], extra[q]>> \o (run \o TablePages(q))
           T == (F \cup Pointers(q)) \cup (M \cup TablePlaces(q))
<1>1. TablePanic(q, f, sz[q]) = ""
  BY NoTablePanic
<1>2. Kfree(s) /\ ClearSlot(q, extra[q]) /\ NoTable(q)
  BY <1>1 DEF FreeProc, FreedTable
<1>3. (F \cup M) \cap (Pointers(q) \cup TablePlaces(q)) = {}
  <2>1. L \cap (Pointers(q) \cup TablePlaces(q)) = {}
    BY DEF LetsGo, Local, Pointers, TablePlaces, DirPlaces
  <2>2. leaves \cap (Pointers(q) \cup TablePlaces(q)) = {}
    BY DEF Pointers, TablePlaces, DirPlaces
  <2> HIDE DEF leaves
  <2>3. F \cup M = L \cup leaves
    BY DEF leaves
  <2> QED
    BY <2>1, <2>2, <2>3
<1>4. s \in Seq(MaybePage) /\ Gives(s, T)
  BY <1>3, AllGiven
<1>5. /\ trapframe' = [trapframe EXCEPT ![q] = Null]
      /\ extra' = [extra EXCEPT ![q] = Null]
  BY <1>2 DEF ClearSlot
<1>6. \A r \in Pages :
        held'[r] = held[r] \ (L \cup Pointers(q) \cup TablePlaces(q) \cup leaves)
  <2>1. \/ L = {} /\ mem' = mem
        \/ \E u \in Slots : L = {<<"local", u>>} /\ mem' = [mem EXCEPT ![u] = Null]
    BY DEF LetsGo, Local
  <2> QED
    BY <1>2, <1>5, <2>1, SlotCleared
<1>7. L \cup Pointers(q) \cup TablePlaces(q) \cup leaves = T
  <2> HIDE DEF leaves
  <2>1. F \cup M = L \cup leaves
    BY DEF leaves
  <2> QED
    BY <2>1
<1> HIDE DEF s, T, leaves
<1>8. \A r \in Pages : held'[r] = held[r] \ T
  BY <1>6, <1>7
<1>9. freelist \in [Pages -> Nat]
  BY DEF TypeOK
<1> QED
  BY <1>2, <1>4, <1>8, <1>9, GivenBack

\* freeproc() of one that has no page table, or the beginning of one that its
\* caller has freed.
LEMMA FreeBareGives ==
  ASSUME Single, TypeOK, Shape, build' = build, build.lab = "traps",
         NEW p \in Slots, NEW q \in Slots, leaf[q] = NoLeaves, mem[p] = Null,
         mem' = [mem EXCEPT ![p] = Null],
         \/ root[q] = Null /\ dirs[q] = NoDirs /\ FreeBare(q, extra[q], <<>>)
         \/ FreeBare(q, extra[q], TablePages(q))
  PROVE  Single'
<1> DEFINE two == <<trapframe[q], extra[q]>>
           T == Local(p) \cup Pointers(q) \cup TablePlaces(q)
<1>1. two \in Seq(MaybePage) /\ TablePages(q) \in Seq(MaybePage)
  BY SlotTypes, TablePagesAreSeq
<1>2. Gives(two, Pointers(q)) /\ Gives(TablePages(q), TablePlaces(q))
  BY PointersGiven, TableGiven
<1>3. \A r \in Pages : \A o \in Local(p) : o \notin held[r]
  <2>1. \A r \in Pages : <<"local", p>> \in held[r] <=> mem[p] = r
    BY Held DEF HeldMeans, HeldBy
  <2> QED
    BY <2>1 DEF Local, Null, Pages
<1>4. /\ trapframe' = [trapframe EXCEPT ![q] = Null]
      /\ extra' = [extra EXCEPT ![q] = Null]
      /\ NoTable(q)
  BY DEF FreeBare, ClearSlot
<1>5. \A r \in Pages : held'[r] = held[r] \ T
  <2>1. {<<"memory", q, v>> : v \in DOMAIN leaf[q]} = {}
    BY DEF NoLeaves
  <2>2. \E u \in Slots : Local(p) = {<<"local", u>>} /\ mem' = [mem EXCEPT ![u] = Null]
    BY DEF Local
  <2>3. \A r \in Pages :
          held'[r] = held[r] \ (Local(p) \cup Pointers(q) \cup TablePlaces(q)
                                  \cup {<<"memory", q, v>> : v \in DOMAIN leaf[q]})
    BY <1>4, <2>2, SlotCleared
  <2> QED
    BY <2>1, <2>3
<1>6. freelist \in [Pages -> Nat]
  BY DEF TypeOK
<1>7. ASSUME NEW s \in Seq(MaybePage), Kfree(s), Gives(s, T) PROVE Single'
  <2> HIDE DEF T
  <2> QED
    BY <1>5, <1>6, <1>7, GivenBack
<1>8. CASE root[q] = Null /\ dirs[q] = NoDirs /\ FreeBare(q, extra[q], <<>>)
  <2>1. \A r \in Pages : \A o \in TablePlaces(q) : o \notin held[r]
    <3>1. \A r \in Pages : <<"root", q>> \in held[r] <=> root[q] = r
      BY Held DEF HeldMeans, HeldBy
    <3>2. TablePlaces(q) = {<<"root", q>>}
      BY <1>8 DEF TablePlaces, DirPlaces, NoDirs, Ends
    <3> QED
      BY <1>8, <3>1, <3>2 DEF Null, Pages
  <2> HIDE DEF two
  <2>2. Gives(two, Pointers(q) \cup (Local(p) \cup TablePlaces(q)))
    BY <1>2, <1>3, <2>1, GivesMore
  <2>3. Pointers(q) \cup (Local(p) \cup TablePlaces(q)) = T
    OBVIOUS
  <2>4. <<>> \o two = two
    BY <1>1, ConcatEmptySeq
  <2>5. Kfree(two)
    BY <1>8, <2>4 DEF FreeBare, two
  <2> QED
    BY <1>1, <1>7, <2>2, <2>3, <2>5
<1>9. CASE FreeBare(q, extra[q], TablePages(q))
  <2>1. TablePlaces(q) \cap Pointers(q) = {}
    BY DEF Pointers, TablePlaces, DirPlaces
  <2> HIDE DEF two
  <2>2. /\ TablePages(q) \o two \in Seq(MaybePage)
        /\ Gives(TablePages(q) \o two, TablePlaces(q) \cup Pointers(q))
    BY <1>1, <1>2, <2>1, GivesBoth, ConcatProperties
  <2>3. Gives(TablePages(q) \o two, (TablePlaces(q) \cup Pointers(q)) \cup Local(p))
    BY <1>3, <2>2, GivesMore
  <2>4. (TablePlaces(q) \cup Pointers(q)) \cup Local(p) = T
    OBVIOUS
  <2>5. Kfree(TablePages(q) \o two)
    BY <1>9 DEF FreeBare, two
  <2> QED
    BY <1>7, <2>2, <2>3, <2>4, <2>5
<1> QED
  BY <1>8, <1>9


-----------------------------------------------------------------------------
\* fork()

\* The pointers to extra pages stay those of their slots when a step takes
\* none, frees no slot that has one, and enters fork() with a free slot.
LEMMA NoStrayKept ==
  ASSUME NoStray, build' = build,
         \A q \in Slots : extra'[q] \in {extra[q], Null},
         \A q \in Slots : pstate'[q] = "UNUSED" => pstate[q] = "UNUSED" \/ extra'[q] = Null,
         \A u \in Slots : pc'[u] \in {"trapframe", "extra"} =>
           \/ pc[u] \in {"trapframe", "extra"} /\ np'[u] = np[u]
           \/ pstate[np'[u]] = "UNUSED"
  PROVE  NoStray'
<1> SUFFICES ASSUME NEW q \in Slots, pstate'[q] = "UNUSED" \/ BeforeExtra(q)'
             PROVE  extra'[q] = Null
  BY Unmoved DEF NoStray, Null
<1>1. pstate[q] = "UNUSED" \/ BeforeExtra(q) => extra[q] = Null
  BY DEF NoStray
<1>2. CASE BeforeExtra(q)'
  <2>1. PICK u \in Slots : np'[u] = q /\ pc'[u] \in {"trapframe", "extra"}
    BY <1>2, Unmoved DEF BeforeExtra
  <2>2. pstate[q] = "UNUSED" \/ BeforeExtra(q)
    BY <2>1 DEF BeforeExtra
  <2> QED
    BY <1>1, <2>2
<1> QED
  BY <1>1, <1>2

\* A slot that is freed has no pointer left.
LEMMA FreeClears ==
  ASSUME TypeOK, NoStray, build' = build, build.lab = "traps",
         NEW p \in Slots, NEW q \in Slots, NEW x, ClearSlot(q, x),
         Return(p) \/ UNCHANGED callVars
  PROVE  NoStray'
<1>1. /\ extra' = [extra EXCEPT ![q] = Null]
      /\ pstate' = [pstate EXCEPT ![q] = "UNUSED"]
  BY DEF ClearSlot
<1>2. \A u \in Slots : pc'[u] \in {"trapframe", "extra"} =>
        pc[u] \in {"trapframe", "extra"} /\ np'[u] = np[u]
  BY DEF TypeOK, Return, Goto, callVars
<1> QED
  BY <1>1, <1>2, NoStrayKept DEF TypeOK

\* A call that has no page in its hands returns.
LEMMA EmptyHanded ==
  ASSUME TypeOK, NEW p \in Slots, mem[p] = Null, Return(p)
  PROVE  mem' = mem
  BY DEF TypeOK, Return

\* allocproc() takes no page.
LEMMA ForkSlotOwns ==
  ASSUME IInv, Single, NoStray, build' = build, NEW p \in Slots, ForkSlot(p)
  PROVE  Single' /\ NoStray'
<1>1. TypeOK
  BY DEF IInv
<1>2. PICK q \in Slots : /\ pstate[q] = "UNUSED"
                         /\ pstate' = [pstate EXCEPT ![q] = "USED"]
                         /\ np' = [np EXCEPT ![p] = q]
  BY DEF ForkSlot
<1>3. /\ pc' = [pc EXCEPT ![p] = "trapframe"]
      /\ UNCHANGED <<freelist, trapframe, extra, root, dirs, leaf, mem>>
  BY DEF ForkSlot, Goto, tableVars
<1>4. Single'
  BY <1>3, Stays
<1>5. NoStray'
  BY <1>1, <1>2, <1>3, NoStrayKept DEF TypeOK
<1> QED
  BY <1>4, <1>5

\* The trapframe, the lab's page and the root are in the slot, or what is there
\* goes back.
LEMMA ForkPagesOwns ==
  ASSUME IInv, Single, NoStray, build' = build, build.lab = "traps",
         NEW p \in Slots, ForkTrapframe(p) \/ ForkExtra(p) \/ ForkRoot(p)
  PROVE  Single' /\ NoStray'
<1>0. TypeOK /\ Shape /\ Alone /\ Good(p)
  BY DEF IInv
<1> PICK q \in Slots : q = np[p]
  BY <1>0 DEF TypeOK
<1>1. /\ pc[p] \in {"trapframe", "extra", "root"}
      /\ Filling(p, q) /\ mem[p] = Null
  BY <1>0 DEF Good, Forking, ForkTrapframe, ForkExtra, ForkRoot
<1>2. root[q] = Null /\ dirs[q] = NoDirs /\ leaf[q] = NoLeaves /\ pstate[q] = "USED"
  BY <1>1 DEF Filling, Bare
<1>3. pc[p] \in {"trapframe", "extra"} => extra[q] = Null
  BY DEF NoStray, BeforeExtra
<1>4. CASE FreeBare(q, extra[q], <<>>) /\ Return(p)
  <2>1. mem' = [mem EXCEPT ![p] = Null] /\ ClearSlot(q, extra[q])
    BY <1>4 DEF Return, FreeBare
  <2>2. Single'
    BY <1>0, <1>1, <1>2, <1>4, <2>1, FreeBareGives
  <2>3. NoStray'
    BY <1>0, <1>4, <2>1, FreeClears
  <2> QED
    BY <2>2, <2>3
<1>5. CASE ForkTrapframe(p) /\ ~ Exhausted
  <2>1. PICK r \in Pages : Kalloc(r) /\ trapframe' = [trapframe EXCEPT ![q] = r]
    BY <1>5 DEF ForkTrapframe
  <2>2. /\ pc' = [pc EXCEPT ![p] = "extra"] /\ pc[p] = "trapframe"
        /\ UNCHANGED <<pstate, extra, root, dirs, leaf, np, mem>>
    BY <1>5 DEF ForkTrapframe, Goto, tableVars
  <2>3. trapframe[q] = Null
    BY <1>1, <2>2 DEF Filling
  <2>4. Single'
    BY <1>0, <2>1, <2>2, <2>3, PointerTaken
  <2>5. NoStray'
    BY <1>0, <2>2, NoStrayKept DEF TypeOK
  <2> QED
    BY <2>4, <2>5
<1>6. CASE ForkExtra(p) /\ ~ Exhausted
  <2>1. PICK r \in Pages : Kalloc(r) /\ extra' = [extra EXCEPT ![q] = r]
    BY <1>6 DEF ForkExtra
  <2>2. /\ pc' = [pc EXCEPT ![p] = "root"] /\ pc[p] = "extra"
        /\ UNCHANGED <<pstate, trapframe, root, dirs, leaf, np, mem>>
    BY <1>6 DEF ForkExtra, Goto, tableVars
  <2>3. Single'
    BY <1>0, <1>3, <2>1, <2>2, PointerTaken
  <2>4. ~ BeforeExtra(q)'
    <3> SUFFICES ASSUME NEW u \in Slots, np'[u] = q, pc'[u] \in {"trapframe", "extra"}
                 PROVE  FALSE
      BY Unmoved DEF BeforeExtra
    <3>1. pc'[p] = "root" /\ (u # p => pc'[u] = pc[u])
      BY <1>0, <2>2 DEF TypeOK
    <3>2. u # p /\ pc[u] \in Forking /\ pc[p] \in Forking /\ np[u] = np[p]
      BY <2>2, <3>1 DEF Forking
    <3> QED
      BY <1>0, <3>2 DEF Alone
  <2>5. ASSUME NEW w \in Slots, pstate'[w] = "UNUSED" \/ BeforeExtra(w)'
        PROVE  extra'[w] = Null
    <3>1. w # q
      BY <1>2, <2>2, <2>4, <2>5
    <3>2. extra'[w] = extra[w]
      BY <1>0, <2>1, <3>1 DEF TypeOK
    <3>3. BeforeExtra(w)' => BeforeExtra(w)
      <4> SUFFICES ASSUME NEW u \in Slots, np'[u] = w, pc'[u] \in {"trapframe", "extra"}
                   PROVE  BeforeExtra(w)
        BY Unmoved DEF BeforeExtra
      <4>1. pc'[p] = "root" /\ (u # p => pc'[u] = pc[u])
        BY <1>0, <2>2 DEF TypeOK
      <4>2. np[u] = w /\ pc[u] \in {"trapframe", "extra"}
        BY <2>2, <4>1
      <4> QED
        BY <4>2 DEF BeforeExtra
    <3>4. pstate[w] = "UNUSED" \/ BeforeExtra(w)
      BY <2>2, <2>5, <3>3
    <3> QED
      BY <3>2, <3>4 DEF NoStray
  <2>6. NoStray'
    BY <2>5, Unmoved DEF NoStray, Null
  <2> QED
    BY <2>3, <2>6
<1>7. CASE ForkRoot(p) /\ ~ Exhausted
  <2>1. PICK r \in Pages : Kalloc(r) /\ root' = [root EXCEPT ![q] = r]
    BY <1>7 DEF ForkRoot
  <2>2. /\ pc' = [pc EXCEPT ![p] = "top"]
        /\ UNCHANGED <<pstate, trapframe, extra, dirs, leaf, np, mem>>
    BY <1>7 DEF ForkRoot, Goto, procVars
  <2>3. Single'
    BY <1>0, <1>2, <2>1, <2>2, PointerTaken
  <2>4. NoStray'
    BY <1>0, <2>2, NoStrayKept DEF TypeOK
  <2> QED
    BY <2>3, <2>4
<1>8. CASE Exhausted
  <2>1. \A r \in Pages : ~ Kalloc(r)
    BY <1>8 DEF Exhausted, Kalloc
  <2>2. FreeBare(q, extra[q], <<>>) /\ Return(p)
    <3>1. CASE ForkTrapframe(p)
      BY <2>1, <3>1 DEF ForkTrapframe
    <3>2. CASE ForkExtra(p)
      BY <1>3, <2>1, <3>2 DEF ForkExtra
    <3>3. CASE ForkRoot(p)
      BY <2>1, <3>3 DEF ForkRoot
    <3> QED
      BY <3>1, <3>2, <3>3
  <2> QED
    BY <1>4, <2>2
<1> QED
  BY <1>5, <1>6, <1>7, <1>8

\* A directory page is in the table of the slot, or all of it goes back.
LEMMA ForkTopOwns ==
  ASSUME IInv, Single, NoStray, build' = build, build.lab = "traps",
         NEW p \in Slots, ForkTop(p)
  PROVE  Single' /\ NoStray'
<1>0. TypeOK /\ Shape /\ Good(p)
  BY DEF IInv
<1> PICK q \in Slots : q = np[p]
  BY <1>0 DEF TypeOK
<1>1. pc[p] = "top" /\ Filling(p, q) /\ mem[p] = Null
  BY <1>0 DEF Good, Forking, ForkTop
<1>2. leaf[q] = NoLeaves
  BY <1>1 DEF Filling
<1>3. CASE FreeBare(q, extra[q], TablePages(q)) /\ Return(p)
  <2>1. mem' = [mem EXCEPT ![p] = Null] /\ ClearSlot(q, extra[q])
    BY <1>3 DEF Return, FreeBare
  <2>2. Single'
    BY <1>0, <1>1, <1>2, <1>3, <2>1, FreeBareGives
  <2>3. NoStray'
    BY <1>0, <1>3, <2>1, FreeClears
  <2> QED
    BY <2>2, <2>3
<1>4. ASSUME NEW r \in Pages, Kalloc(r),
             dirs' = [dirs EXCEPT ![q]["top"] = Append(@, r)],
             pc' \in {pc, [pc EXCEPT ![p] = "copy"]},
             UNCHANGED <<procVars, root, leaf, np, mem>>
      PROVE  Single' /\ NoStray'
  <2>1. /\ Kalloc(r) /\ "top" \in Ends
        /\ dirs' = [dirs EXCEPT ![q]["top"] = Append(dirs[q]["top"], r)]
    BY <1>0, <1>4 DEF Ends, Shape, TypeOK
  <2>2. UNCHANGED <<pstate, trapframe, extra, root, mem, leaf>>
    BY <1>4 DEF procVars
  <2>3. Single'
    BY <1>0, <2>1, <2>2, DirTaken
  <2>4. NoStray'
    BY <1>0, <1>4, <2>2, NoStrayKept DEF TypeOK
  <2> QED
    BY <2>3, <2>4
<1> QED
  BY <1>3, <1>4 DEF ForkTop, Goto

\* mappages() puts the page in the hands of the call where it belongs.
LEMMA MapStepOwns ==
  ASSUME Single, NoStray, TypeOK, Shape, build' = build,
         NEW p \in Slots, NEW q \in Slots, NEW l \in {"copy", "grow"},
         va[p] \notin DOMAIN leaf[q], mem[p] # Null,
         MapStep(p, q, l), UNCHANGED <<procVars, root, top, np, goal>>
  PROVE  Single' /\ NoStray'
<1>1. UNCHANGED <<pstate, trapframe, extra, root, np>>
  BY DEF procVars
<1>2. CASE Len(dirs[q]["low"]) < Inner
  <2>1. PICK r \in Pages : Kalloc(r) /\ dirs' = [dirs EXCEPT ![q]["low"] = Append(@, r)]
    BY <1>2 DEF MapStep
  <2>2. dirs' = [dirs EXCEPT ![q]["low"] = Append(dirs[q]["low"], r)] /\ "low" \in Ends
    BY <2>1 DEF Ends, Shape, TypeOK
  <2>3. UNCHANGED <<leaf, pc, mem>>
    BY <1>2 DEF MapStep
  <2>4. Single'
    BY <1>1, <2>1, <2>2, <2>3, DirTaken
  <2>5. NoStray'
    BY <1>1, <2>3, NoStrayKept
  <2> QED
    BY <2>4, <2>5
<1>3. CASE ~ (Len(dirs[q]["low"]) < Inner)
  <2>1. /\ leaf' = [leaf EXCEPT ![q] = With(@, va[p], mem[p])]
        /\ mem' = [mem EXCEPT ![p] = Null]
        /\ pc'  = [pc EXCEPT ![p] = l]
        /\ UNCHANGED <<freelist, dirs>>
    BY <1>3 DEF MapStep, Goto
  <2>2. leaf' = [leaf EXCEPT ![q] = With(leaf[q], va[p], mem[p])]
    BY <2>1 DEF Shape
  <2>3. Single'
    BY <1>1, <2>1, <2>2, MemoryMoved
  <2>4. NoStray'
    BY <1>1, <2>1, NoStrayKept DEF TypeOK
  <2> QED
    BY <2>3, <2>4
<1> QED
  BY <1>2, <1>3

\* uvmcopy() fails: what has been copied goes back with the slot.
LEMMA CopyFailsOwns ==
  ASSUME UserPagesAssumption, IInv, Single, NoStray, build' = build,
         build.lab = "traps", NEW p \in Slots, pc[p] \in {"copy", "copymap"},
         NEW first \in Seq(MaybePage), Gives(first, Local(p)), CopyFails(p, first)
  PROVE  Single' /\ NoStray'
<1>0. TypeOK /\ Shape /\ Good(p)
  BY DEF IInv
<1> PICK q \in Slots : q = np[p]
  BY <1>0 DEF TypeOK
<1>1. Whole(q) /\ sz[q] = 0 /\ DOMAIN leaf[q] = 0 .. va[p] - 1
  BY <1>0 DEF Good, Filling, Forking
<1>2. va[p] \in Nat /\ PageCount(sz[q]) = 0
  <2>1. SlotsTyped /\ CallsTyped
    BY <1>0, Types
  <2> QED
    BY <1>1, <2>1, Numbers
<1> DEFINE f == Without(leaf[q], 0 .. va[p] - 1)
           gone == Run(leaf[q], 0, va[p])
           M == LeafPlaces(q, 0, va[p])
<1>3. FreeProc(q, f, first \o gone) /\ Return(p)
  BY <1>1 DEF CopyFails, Mapped
<1>4. gone \in Seq(MaybePage) /\ Gives(gone, M)
  <2>1. \A v \in 0 .. va[p] - 1 : leaf[q][v] \in Pages
    BY <1>0, <1>1, SlotTypes
  <2>2. 0 \in Int /\ va[p] \in Int
    BY <1>2
  <2> QED
    BY <1>1, <2>1, <2>2, RunIsSeq, MemoryGiven
<1>5. Local(p) \cap M = {}
  BY DEF Local, LeafPlaces
<1>6. M = {<<"memory", q, v>> : v \in DOMAIN leaf[q]}
  BY <1>1 DEF LeafPlaces
<1>7. DOMAIN f = {} /\ DOMAIN f = Memory(sz[q])
  BY <1>1, <1>2 DEF Without, Memory
<1> HIDE DEF gone, M
<1>8. first \o gone \in Seq(MaybePage) /\ Gives(first \o gone, Local(p) \cup M)
  BY <1>4, <1>5, GivesBoth, ConcatProperties
<1>9. /\ Run(f, 0, PageCount(sz[q])) \in Seq(MaybePage)
      /\ Gives(Run(f, 0, PageCount(sz[q])), {})
  <2>1. Run(f, 0, PageCount(sz[q])) \in Seq(MaybePage)
    BY <1>2, RunIsSeq
  <2>2. DOMAIN Run(f, 0, PageCount(sz[q])) = {}
    BY <1>2 DEF Run
  <2> QED
    BY <2>1, <2>2 DEF Gives
<1>10. LetsGo(p, Local(p))
  BY <1>3 DEF LetsGo, Return
<1> HIDE DEF f
<1>11. Single'
  <2> DEFINE F == Local(p) \cup M
             N == {}
             L == Local(p)
             s == first \o gone
  <2>1. F \cap N = {} /\ F \cup N = L \cup {<<"memory", q, v>> : v \in DOMAIN leaf[q]}
    BY <1>6
  <2>2. /\ s \in Seq(MaybePage) /\ Gives(s, F) /\ FreeProc(q, f, s) /\ LetsGo(p, L)
        /\ Gives(Run(f, 0, PageCount(sz[q])), N)
    BY <1>3, <1>8, <1>9, <1>10
  <2> HIDE DEF F, N, L, s
  <2> QED
    BY <1>0, <1>1, <1>7, <1>9, <2>1, <2>2, FreeProcGives
<1>12. NoStray'
  <2>1. TablePanic(q, f, sz[q]) = ""
    BY <1>1, <1>7, NoTablePanic
  <2>2. ClearSlot(q, extra[q])
    BY <1>3, <2>1 DEF FreeProc
  <2> QED
    BY <1>0, <1>3, <2>2, FreeClears
<1> QED
  BY <1>11, <1>12

\* uvmcopy() has the page of its copy in its hands, or gives up without one,
LEMMA CopyAllocOwns ==
  ASSUME UserPagesAssumption, IInv, Single, NoStray, build' = build,
         build.lab = "traps", NEW p \in Slots, CopyAlloc(p)
  PROVE  Single' /\ NoStray'
<1>0. TypeOK /\ Shape /\ Good(p)
  BY DEF IInv
<1>1. pc[p] = "copy" /\ mem[p] = Null
  BY <1>0 DEF Good, CopyAlloc
<1>2. CASE CopyFails(p, <<>>)
  BY <1>1, <1>2, LocalGiven, NothingIsSeq, CopyFailsOwns
<1>3. ASSUME NEW r \in Pages, Kalloc(r), mem' = [mem EXCEPT ![p] = r],
             pc' = [pc EXCEPT ![p] = "copymap"],
             UNCHANGED <<procVars, tableVars, np>>
      PROVE  Single' /\ NoStray'
  <2>1. UNCHANGED <<pstate, trapframe, extra, root, dirs, leaf, np>>
    BY <1>3 DEF procVars, tableVars
  <2>2. Single'
    BY <1>0, <1>1, <1>3, <2>1, PointerTaken
  <2>3. NoStray'
    BY <1>0, <1>3, <2>1, NoStrayKept DEF TypeOK
  <2> QED
    BY <2>2, <2>3
<1> QED
  BY <1>2, <1>3 DEF CopyAlloc, Goto

\* which is then the child's, or goes back with the rest.
LEMMA CopyMapOwns ==
  ASSUME UserPagesAssumption, IInv, Single, NoStray, build' = build,
         build.lab = "traps", NEW p \in Slots, CopyMap(p)
  PROVE  Single' /\ NoStray'
<1>0. TypeOK /\ Shape /\ Good(p)
  BY DEF IInv
<1> PICK q \in Slots : q = np[p]
  BY <1>0 DEF TypeOK
<1>1. pc[p] = "copymap" /\ mem[p] # Null /\ DOMAIN leaf[q] = 0 .. va[p] - 1
  BY <1>0 DEF Good, Filling, Forking, CopyMap
<1>2. CASE CopyFails(p, <<mem[p]>>)
  <2>1. <<mem[p]>> \in Seq(MaybePage)
    BY <1>0, SlotTypes
  <2> QED
    BY <1>1, <1>2, <2>1, LocalGiven, CopyFailsOwns
<1>3. CASE MapStep(p, q, "copy") /\ UNCHANGED <<procVars, root, top, np, goal>>
  <2>1. SlotsTyped /\ CallsTyped
    BY <1>0, Types
  <2>2. va[p] \notin DOMAIN leaf[q]
    BY <1>1, <2>1, Numbers
  <2> QED
    BY <1>0, <1>1, <1>3, <2>2, MapStepOwns
<1> QED
  BY <1>2, <1>3 DEF CopyMap

\* What the child has been given stays with it.
LEMMA ForkDoneOwns ==
  ASSUME IInv, Single, NoStray, build' = build, NEW p \in Slots, ForkDone(p)
  PROVE  Single' /\ NoStray'
<1>0. TypeOK
  BY DEF IInv
<1> PICK q \in Slots : q = np[p]
  BY <1>0 DEF TypeOK
<1>1. /\ pstate' = [pstate EXCEPT ![q] = "LIVE"]
      /\ pc' = [pc EXCEPT ![p] = "user", ![q] = "user"]
      /\ np' = [np EXCEPT ![p] = p]
      /\ UNCHANGED <<freelist, trapframe, extra, root, dirs, leaf, mem>>
  BY DEF ForkDone, tableVars
<1>2. Single'
  BY <1>1, Stays
<1>3. \A u \in Slots : pc'[u] \in {"trapframe", "extra"} =>
        pc[u] \in {"trapframe", "extra"} /\ np'[u] = np[u]
  BY <1>0, <1>1 DEF TypeOK
<1>4. NoStray'
  BY <1>0, <1>1, <1>3, NoStrayKept DEF TypeOK
<1> QED
  BY <1>2, <1>4

\* In all of fork() a page has one owner.
LEMMA ForkOwns ==
  ASSUME UserPagesAssumption, IInv, Single, NoStray, build' = build,
         build.lab = "traps", NEW p \in Slots, Fork(p)
  PROVE  Single' /\ NoStray'
  BY ForkSlotOwns, ForkPagesOwns, ForkTopOwns, CopyAllocOwns, CopyMapOwns,
     ForkDoneOwns
  DEF Fork

-----------------------------------------------------------------------------
\* growproc()

\* A step of sbrk() leaves the slots' own pages alone, and fork() too.
LEMMA SbrkKeepsExtra ==
  ASSUME TypeOK, NoStray, build' = build, NEW p \in Slots,
         UNCHANGED <<pstate, extra>>,
         \A u \in Slots \ {p} : pc'[u] = pc[u] /\ np'[u] = np[u],
         pc'[p] \notin {"trapframe", "extra"}
  PROVE  NoStray'
<1>1. \A u \in Slots : pc'[u] \in {"trapframe", "extra"} =>
        pc[u] \in {"trapframe", "extra"} /\ np'[u] = np[u]
  OBVIOUS
<1> QED
  BY <1>1, NoStrayKept

\* uvmalloc() fails: what it added goes back.
LEMMA GrowFailsOwns ==
  ASSUME UserPagesAssumption, IInv, Single, NoStray, build' = build,
         NEW p \in Slots, pc[p] \in Growing,
         NEW first \in Seq(MaybePage), Gives(first, Local(p)), GrowFails(p, first)
  PROVE  Single' /\ NoStray'
<1>0. TypeOK /\ Shape /\ Good(p)
  BY DEF IInv
<1>1. SlotsTyped /\ CallsTyped
  BY <1>0, Types
<1>2. /\ Dealloc(p, PageCount(sz[p]), va[p], first) /\ Return(p)
      /\ UNCHANGED <<pstate, trapframe, extra, root, dirs>>
  BY DEF GrowFails, procVars
<1>3. DOMAIN leaf[p] = 0 .. va[p] - 1
  BY <1>0 DEF Good, Extending
<1>4. PageCount(sz[p]) \in Nat /\ va[p] \in Nat
  BY <1>1, Numbers
<1>5. PageCount(sz[p]) .. va[p] - 1 \subseteq DOMAIN leaf[p]
  BY <1>3, <1>4
<1>6. mem' = [mem EXCEPT ![p] = Null]
  BY <1>2 DEF Return
<1>7. Single'
  <2> DEFINE L == Local(p)
             a == PageCount(sz[p])
             b == va[p]
  <2>1. Gives(first, L) /\ L = Local(p) /\ a \in Int /\ b \in Int
    BY <1>4
  <2>2. Dealloc(p, a, b, first) /\ a .. b - 1 \subseteq DOMAIN leaf[p]
    BY <1>2, <1>5
  <2> HIDE DEF L, a, b
  <2> QED
    BY <1>0, <1>2, <1>6, <2>1, <2>2, DeallocGives
<1>8. NoStray'
  <2>1. /\ \A u \in Slots \ {p} : pc'[u] = pc[u] /\ np'[u] = np[u]
        /\ pc'[p] = "user"
    BY <1>0, <1>2 DEF TypeOK, Return, Goto
  <2> QED
    BY <1>0, <1>2, <2>1, SbrkKeepsExtra
<1> QED
  BY <1>7, <1>8

\* uvmalloc() has a page in its hands, or gives up without one,
LEMMA GrowAllocOwns ==
  ASSUME UserPagesAssumption, IInv, Single, NoStray, build' = build,
         NEW p \in Slots, GrowAlloc(p)
  PROVE  Single' /\ NoStray'
<1>0. TypeOK /\ Shape /\ Good(p)
  BY DEF IInv
<1>1. pc[p] = "grow" /\ mem[p] = Null
  BY <1>0 DEF Good, GrowAlloc
<1>2. CASE GrowFails(p, <<>>)
  BY <1>1, <1>2, LocalGiven, NothingIsSeq, GrowFailsOwns DEF Growing
<1>3. ASSUME NEW r \in Pages, Kalloc(r), mem' = [mem EXCEPT ![p] = r],
             pc' = [pc EXCEPT ![p] = "growmap"],
             UNCHANGED <<procVars, tableVars, np>>
      PROVE  Single' /\ NoStray'
  <2>1. UNCHANGED <<pstate, trapframe, extra, root, dirs, leaf, np>>
    BY <1>3 DEF procVars, tableVars
  <2>2. Single'
    BY <1>0, <1>1, <1>3, <2>1, PointerTaken
  <2>3. /\ \A u \in Slots \ {p} : pc'[u] = pc[u] /\ np'[u] = np[u]
        /\ pc'[p] = "growmap"
    BY <1>0, <1>3 DEF TypeOK
  <2>4. NoStray'
    BY <1>0, <2>1, <2>3, SbrkKeepsExtra
  <2> QED
    BY <2>2, <2>4
<1> QED
  BY <1>2, <1>3 DEF GrowAlloc, Goto

\* which is then the process's, or goes back with the rest.
LEMMA GrowMapOwns ==
  ASSUME UserPagesAssumption, IInv, Single, NoStray, build' = build,
         NEW p \in Slots, GrowMap(p)
  PROVE  Single' /\ NoStray'
<1>0. TypeOK /\ Shape /\ Good(p)
  BY DEF IInv
<1>1. pc[p] = "growmap" /\ mem[p] # Null /\ DOMAIN leaf[p] = 0 .. va[p] - 1
  BY <1>0 DEF Good, Extending, Growing, GrowMap
<1>2. CASE GrowFails(p, <<mem[p]>>)
  <2>1. <<mem[p]>> \in Seq(MaybePage)
    BY <1>0, SlotTypes
  <2> QED
    BY <1>1, <1>2, <2>1, LocalGiven, GrowFailsOwns DEF Growing
<1>3. CASE MapStep(p, p, "grow") /\ UNCHANGED <<procVars, root, top, np, goal>>
  <2>1. SlotsTyped /\ CallsTyped
    BY <1>0, Types
  <2>2. va[p] \notin DOMAIN leaf[p]
    BY <1>1, <2>1, Numbers
  <2> QED
    BY <1>0, <1>1, <1>3, <2>2, MapStepOwns
<1> QED
  BY <1>2, <1>3 DEF GrowMap

\* sbrk() of a negative number gives back the last pages.
LEMMA ShrinkOwns ==
  ASSUME UserPagesAssumption, IInv, Single, NoStray, build' = build,
         NEW p \in Slots, NEW n \in Steps, Shrink(p, n)
  PROVE  Single' /\ NoStray'
<1>0. TypeOK /\ Shape /\ Good(p)
  BY DEF IInv
<1>1. SlotsTyped /\ CallsTyped
  BY <1>0, Types
<1>2. /\ pc[p] = "user" /\ n < 0 /\ sz[p] + n >= 0
      /\ Dealloc(p, PageCount(sz[p] + n), PageCount(sz[p]), <<>>)
      /\ UNCHANGED <<pstate, trapframe, extra, root, dirs, pc, np, mem>>
  BY DEF Shrink, callVars
<1>3. pstate[p] = "LIVE" /\ DOMAIN leaf[p] = 0 .. PageCount(sz[p]) - 1
  BY <1>0, <1>2 DEF Good, Growing, Memory
<1>4. PageCount(sz[p] + n) \in Nat /\ PageCount(sz[p]) \in Nat
  <2>1. n \in Int /\ sz[p] \in Nat
    BY <1>1, Numbers DEF UserPagesAssumption
  <2>2. sz[p] + n \in Nat
    BY <1>2, <2>1
  <2> QED
    BY <2>1, <2>2, PagesNeeded
<1>5. Single'
  <2> DEFINE L == {}
             a == PageCount(sz[p] + n)
             b == PageCount(sz[p])
  <2>1. Gives(<<>>, L) /\ L = {} /\ a \in Int /\ b \in Int
    BY <1>4, GivesNothing
  <2>2. Dealloc(p, a, b, <<>>) /\ a .. b - 1 \subseteq DOMAIN leaf[p]
    <3>1. a \in Nat /\ DOMAIN leaf[p] = 0 .. b - 1
      BY <1>3, <1>4
    <3> QED
      BY <1>2, <3>1
  <2> HIDE DEF L, a, b
  <2> QED
    BY <1>0, <1>2, <2>1, <2>2, NothingIsSeq, DeallocGives
<1>6. NoStray'
  BY <1>0, <1>2, SbrkKeepsExtra
<1> QED
  BY <1>5, <1>6

\* sbrk() is begun, or done.
LEMMA GrowEndsOwns ==
  ASSUME UserPagesAssumption, IInv, Single, NoStray, build' = build,
         NEW p \in Slots, GrowDone(p) \/ \E n \in Steps : Grow(p, n)
  PROVE  Single' /\ NoStray'
<1>0. TypeOK /\ Good(p)
  BY DEF IInv
<1>1. CASE \E n \in Steps : Grow(p, n)
  <2>1. /\ pc' = [pc EXCEPT ![p] = "grow"]
        /\ UNCHANGED <<freelist, pstate, trapframe, extra, root, dirs, leaf, np, mem>>
    BY <1>1 DEF Grow, Goto, procVars, tableVars
  <2>2. /\ \A u \in Slots \ {p} : pc'[u] = pc[u] /\ np'[u] = np[u]
        /\ pc'[p] = "grow"
    BY <1>0, <2>1 DEF TypeOK
  <2> QED
    BY <1>0, <2>1, <2>2, Stays, SbrkKeepsExtra
<1>2. CASE GrowDone(p)
  <2>1. /\ pc[p] = "grow" /\ Return(p)
        /\ UNCHANGED <<freelist, pstate, trapframe, extra, root, dirs, leaf>>
    BY <1>2 DEF GrowDone, tableVars
  <2>2. mem' = mem
    BY <1>0, <2>1, EmptyHanded DEF Good
  <2>3. /\ \A u \in Slots \ {p} : pc'[u] = pc[u] /\ np'[u] = np[u]
        /\ pc'[p] = "user"
    BY <1>0, <2>1 DEF TypeOK, Return, Goto
  <2> QED
    BY <1>0, <2>1, <2>2, <2>3, Stays, SbrkKeepsExtra
<1> QED
  BY <1>1, <1>2

\* In all of sbrk() a page has one owner.
LEMMA SbrkOwns ==
  ASSUME UserPagesAssumption, IInv, Single, NoStray, build' = build,
         NEW p \in Slots, Sbrk(p)
  PROVE  Single' /\ NoStray'
  BY GrowAllocOwns, GrowMapOwns, ShrinkOwns, GrowEndsOwns DEF Sbrk

-----------------------------------------------------------------------------
\* exit() and wait()

\* An exited process keeps its pages,
LEMMA ExitOwns ==
  ASSUME IInv, Single, NoStray, build' = build, NEW p \in Slots, Exit(p)
  PROVE  Single' /\ NoStray'
<1>0. TypeOK
  BY DEF IInv
<1>1. /\ pc' = [pc EXCEPT ![p] = "dead"]
      /\ pstate' = [pstate EXCEPT ![p] = "ZOMBIE"]
      /\ UNCHANGED <<freelist, trapframe, extra, root, dirs, leaf, np, mem>>
  BY DEF Exit, Goto, tableVars
<1>2. Single'
  BY <1>1, Stays
<1>3. NoStray'
  BY <1>0, <1>1, NoStrayKept DEF TypeOK
<1> QED
  BY <1>2, <1>3

\* which wait() gives back.
LEMMA ReapOwns ==
  ASSUME UserPagesAssumption, IInv, Single, NoStray, build' = build,
         build.lab = "traps", NEW p \in Slots, NEW q \in Slots, Reap(p, q)
  PROVE  Single' /\ NoStray'
<1>0. TypeOK /\ Shape /\ Good(q)
  BY DEF IInv
<1>1. pstate[q] = "ZOMBIE" /\ FreeProc(q, leaf[q], <<>>) /\ UNCHANGED callVars
  BY DEF Reap
<1>2. Whole(q) /\ DOMAIN leaf[q] = Memory(sz[q])
  BY <1>0, <1>1 DEF Good, Growing
<1>3. PageCount(sz[q]) \in Nat
  <2>1. SlotsTyped /\ CallsTyped
    BY <1>0, Types
  <2> QED
    BY <2>1, Numbers
<1> DEFINE run == Run(leaf[q], 0, PageCount(sz[q]))
           M == LeafPlaces(q, 0, PageCount(sz[q]))
           F == {}
           L == {}
<1>4. run \in Seq(MaybePage) /\ Gives(run, M)
  <2>1. 0 .. PageCount(sz[q]) - 1 \subseteq DOMAIN leaf[q]
    BY <1>2 DEF Memory
  <2>2. \A v \in 0 .. PageCount(sz[q]) - 1 : leaf[q][v] \in Pages
    BY <1>0, <2>1, SlotTypes
  <2>3. 0 \in Int /\ PageCount(sz[q]) \in Int
    BY <1>3
  <2> QED
    BY <2>1, <2>2, <2>3, RunIsSeq, MemoryGiven
<1>5. F \cap M = {} /\ F \cup M = L \cup {<<"memory", q, v>> : v \in DOMAIN leaf[q]}
  BY <1>2 DEF LeafPlaces, Memory
<1>6. Gives(<<>>, F) /\ LetsGo(p, L)
  BY <1>1, GivesNothing DEF LetsGo, callVars
<1> HIDE DEF M, F, L
<1>7. Single'
  BY <1>0, <1>1, <1>2, <1>4, <1>5, <1>6, NothingIsSeq, FreeProcGives
<1>8. NoStray'
  <2>1. ClearSlot(q, extra[q])
    BY <1>1, <1>2, NoTablePanic DEF FreeProc
  <2> QED
    BY <1>0, <1>1, <2>1, FreeClears
<1> QED
  BY <1>7, <1>8

-----------------------------------------------------------------------------
\* The theorem

\* userinit() has taken the first pages, each for one place.
LEMMA InitiallyOwned ==
  ASSUME UserPagesAssumption, Init PROVE Single /\ NoStray
<1> DEFINE pte == 4 + Inner
<1>1. /\ Inner \in Nat \ {0} /\ 0 \in Slots /\ initproc = 0 /\ Null = 0
      /\ \A r \in Pages : r \in Nat /\ r # 0
  <2>1. build \in Builds
    BY DEF Init
  <2>2. build.NPROC \in Nat \ {0} /\ build.npages \in Nat
    BY <2>1 DEF UserPagesAssumption
  <2> QED
    BY <2>2 DEF UserPagesAssumption, Slots, Pages, Null, initproc
<1>2. /\ freelist = [r \in Pages |-> IF r <= pte + Inner THEN 0 ELSE 1]
      /\ trapframe = [p \in Slots |-> IF p = 0 THEN 1 ELSE 0]
      /\ extra = [p \in Slots |-> IF p = 0 THEN 2 ELSE 0]
      /\ root = [p \in Slots |-> IF p = 0 THEN 3 ELSE 0]
      /\ mem = [p \in Slots |-> 0]
  BY <1>1 DEF Init
<1>3. /\ \A k : k \in DOMAIN dirs[0]["top"] <=> k \in 1 .. Inner
      /\ \A k : k \in DOMAIN dirs[0]["low"] <=> k \in 1 .. Inner
      /\ \A k \in 1 .. Inner : dirs[0]["top"][k] = 3 + k /\ dirs[0]["low"][k] = pte + k
      /\ \A w \in Slots \ {0} : \A e \in Ends : DOMAIN dirs[w][e] = {}
  <2>1. /\ dirs[0] = [e \in Ends |-> [k \in 1 .. Inner |->
                                       IF e = "top" THEN 3 + k ELSE pte + k]]
        /\ \A w \in Slots \ {0} : dirs[w] = NoDirs
    BY <1>1 DEF Init
  <2> HIDE DEF pte
  <2>2. /\ dirs[0]["top"] = [k \in 1 .. Inner |-> 3 + k]
        /\ dirs[0]["low"] = [k \in 1 .. Inner |-> pte + k]
    BY <2>1 DEF Ends
  <2>3. \A e \in Ends : DOMAIN NoDirs[e] = {}
    BY DEF NoDirs
  <2> QED
    BY <2>1, <2>2, <2>3
<1>4. /\ DOMAIN leaf[0] = {0} /\ leaf[0][0] = pte
      /\ \A w \in Slots \ {0} : DOMAIN leaf[w] = {}
  <2>1. /\ leaf[0] = [v \in {0} |-> pte]
        /\ \A w \in Slots \ {0} : leaf[w] = NoLeaves
    BY <1>1 DEF Init
  <2> QED
    BY <2>1 DEF NoLeaves
<1> HIDE DEF pte
<1>5. ASSUME NEW r \in Pages, NEW x
      PROVE  x \in held[r] <=>
               \/ x = <<"trapframe", 0>> /\ r = 1
               \/ x = <<"extra", 0>> /\ r = 2
               \/ x = <<"root", 0>> /\ r = 3
               \/ \E k \in 1 .. Inner : x = <<"dir", 0, "top", k>> /\ r = 3 + k
               \/ \E k \in 1 .. Inner : x = <<"dir", 0, "low", k>> /\ r = pte + k
               \/ x = <<"memory", 0, 0>> /\ r = pte
  <2>1. x \in held[r] <=> HeldBy(x, r)
    BY Held DEF HeldMeans
  <2>2. r # 0
    BY <1>1
  <2>3. (\E q \in Slots : \E e \in Ends : \E k \in DOMAIN dirs[q][e] :
           x = <<"dir", q, e, k>> /\ dirs[q][e][k] = r)
        <=> \/ \E k \in 1 .. Inner : x = <<"dir", 0, "top", k>> /\ r = 3 + k
            \/ \E k \in 1 .. Inner : x = <<"dir", 0, "low", k>> /\ r = pte + k
    BY <1>1, <1>3 DEF Ends
  <2>4. (\E q \in Slots : \E v \in DOMAIN leaf[q] : x = <<"memory", q, v>> /\ leaf[q][v] = r)
        <=> x = <<"memory", 0, 0>> /\ r = pte
    BY <1>1, <1>4
  <2>5. /\ (\E q \in Slots : x = <<"trapframe", q>> /\ trapframe[q] = r)
             <=> x = <<"trapframe", 0>> /\ r = 1
        /\ (\E q \in Slots : x = <<"extra", q>> /\ extra[q] = r)
             <=> x = <<"extra", 0>> /\ r = 2
        /\ (\E q \in Slots : x = <<"root", q>> /\ root[q] = r)
             <=> x = <<"root", 0>> /\ r = 3
        /\ ~ (\E q \in Slots : x = <<"local", q>> /\ mem[q] = r)
    BY <1>1, <1>2, <2>2
  <2> QED
    BY <2>1, <2>3, <2>4, <2>5 DEF HeldBy
<1>6. Single
  <2> SUFFICES ASSUME NEW r \in Pages
               PROVE  \/ freelist[r] = 0 /\ \E o : held[r] = {o}
                      \/ freelist[r] = 1 /\ held[r] = {}
    BY DEF Single
  <2>1. freelist[r] = IF r <= pte + Inner THEN 0 ELSE 1
    BY <1>2
  <2>2. r \in Nat /\ r # 0 /\ pte = 4 + Inner /\ Inner \in Nat
    BY <1>1 DEF pte
  <2>3. CASE r = 1
    <3>1. held[r] = {<<"trapframe", 0>>}
      BY <1>5, <2>2, <2>3
    <3>2. r <= pte + Inner
      BY <2>2, <2>3
    <3> QED
      BY <2>1, <3>1, <3>2
  <2>4. CASE r = 2
    <3>1. held[r] = {<<"extra", 0>>}
      BY <1>5, <2>2, <2>4
    <3>2. r <= pte + Inner
      BY <2>2, <2>4
    <3> QED
      BY <2>1, <3>1, <3>2
  <2>5. CASE r = 3
    <3>1. held[r] = {<<"root", 0>>}
      BY <1>5, <2>2, <2>5
    <3>2. r <= pte + Inner
      BY <2>2, <2>5
    <3> QED
      BY <2>1, <3>1, <3>2
  <2>6. CASE r = pte
    <3>1. held[r] = {<<"memory", 0, 0>>}
      BY <1>5, <2>2, <2>6
    <3>2. r <= pte + Inner
      BY <2>2, <2>6
    <3> QED
      BY <2>1, <3>1, <3>2
  <2>7. CASE 3 < r /\ r < pte
    <3>1. PICK k \in 1 .. Inner : r = 3 + k
      <4>1. r - 3 \in 1 .. Inner /\ r = 3 + (r - 3)
        BY <2>2, <2>7
      <4> QED
        BY <4>1
    <3>2. held[r] = {<<"dir", 0, "top", k>>}
      BY <1>5, <2>2, <2>7, <3>1
    <3>3. r <= pte + Inner
      BY <2>2, <2>7
    <3> QED
      BY <2>1, <3>2, <3>3
  <2>8. CASE pte < r /\ r <= pte + Inner
    <3>1. PICK k \in 1 .. Inner : r = pte + k
      <4>1. r - pte \in 1 .. Inner /\ r = pte + (r - pte)
        BY <2>2, <2>8
      <4> QED
        BY <4>1
    <3>2. held[r] = {<<"dir", 0, "low", k>>}
      BY <1>5, <2>2, <2>8, <3>1
    <3> QED
      BY <2>1, <2>8, <3>2
  <2>9. CASE pte + Inner < r
    <3>1. \A x : x \notin held[r]
      BY <1>5, <2>2, <2>9
    <3>2. held[r] = {}
      BY <3>1
    <3>3. freelist[r] = 1
      BY <2>1, <2>2, <2>9
    <3> QED
      BY <3>2, <3>3
  <2>10. \/ r = 1 \/ r = 2 \/ r = 3 \/ r = pte \/ (3 < r /\ r < pte)
         \/ (pte < r /\ r <= pte + Inner) \/ pte + Inner < r
    BY <2>2
  <2> QED
    BY <2>3, <2>4, <2>5, <2>6, <2>7, <2>8, <2>9, <2>10
<1>7. NoStray
  <2>1. pstate[0] = "LIVE" /\ \A p \in Slots : pc[p] \notin {"trapframe", "extra"}
    BY <1>1 DEF Init
  <2>2. \A q \in Slots \ {0} : extra[q] = Null
    BY <1>1, <1>2
  <2> QED
    BY <2>1, <2>2 DEF NoStray, BeforeExtra
<1> QED
  BY <1>6, <1>7

\* In the traps lab's kernel every page is at one place, between any two
\* kalloc() calls of any two processes, whichever of them fails.
THEOREM OneOwnerTraps == Spec => [](build.lab = "traps" => OneOwner)
<1>1. Init => OwnerInv
  BY UserPagesAssumption, InitiallyOwned DEF OwnerInv
<1>2. ASSUME IInv, OwnerInv, [Next]_vars PROVE OwnerInv'
  <2> SUFFICES ASSUME build'.lab = "traps" PROVE Single' /\ NoStray'
    BY DEF OwnerInv
  <2>1. build' = build
    BY <1>2 DEF Next, vars
  <2>2. build.lab = "traps" /\ Single /\ NoStray
    BY <1>2, <2>1 DEF OwnerInv
  <2>3. CASE UNCHANGED vars
    <3>1. UNCHANGED <<freelist, pstate, trapframe, extra, root, dirs, leaf, pc, np, mem>>
      BY <2>3 DEF vars, procVars, tableVars, callVars
    <3> QED
      BY <2>1, <2>2, <3>1, Stays, NoStrayKept
  <2>4. CASE Next
    BY <1>2, <2>1, <2>2, <2>4, UserPagesAssumption, ForkOwns, SbrkOwns, ExitOwns, ReapOwns
    DEF Next
  <2> QED
    BY <1>2, <2>3, <2>4
<1>3. OwnerInv => (build.lab = "traps" => OneOwner)
  BY OneIsOwner DEF OwnerInv
<1> QED
  BY <1>1, <1>2, <1>3, Invariant, PTL DEF Spec
=============================================================================
