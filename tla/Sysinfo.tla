------------------------------- MODULE Sysinfo -------------------------------
(***************************************************************************)
(* The page allocator of kalloc.c as a linked list in the free pages       *)
(* themselves, and sysinf(), which walks that list and the process table   *)
(* while other threads allocate, free, fork and wait: it takes no lock.    *)
(*                                                                         *)
(* Of a page there is the word a struct run keeps its next pointer in.     *)
(* Between two steps of a thread the others may run, on another CPU or     *)
(* after an interrupt; kmem.lock excludes those that take it.              *)
(***************************************************************************)
EXTENDS Integers, FiniteSets

CONSTANTS
  Threads,
  NPAGES,   \* pages of memory
  NPROC,    \* slots of the process table
  NoThread  \* holder of the free lock

ASSUME SysinfoAssumption ==
  /\ NoThread \notin Threads
  /\ NPAGES \in Nat
  /\ NPROC \in Nat \ {0}

VARIABLES
  freelist, lock,   \* kmem
  word,             \* the first word of each page
  used,             \* the slots of the process table that are not UNUSED
  pc, r,            \* a thread in kalloc() or kfree()
  own,              \* the pages it has
  at, nbytes,       \* a thread in getbytes()
  i, cnt,           \*   or in getnprcs()
  undisturbed       \* history: what it counts has not changed meanwhile

allocVars == <<freelist, lock, word, pc, r, own>>
scanVars  == <<at, nbytes, i, cnt>>
vars == <<allocVars, used, scanVars, undisturbed>>

Pages == 1 .. NPAGES
Slots == 0 .. NPROC - 1
Null  == 0
Junk  == -1              \* what memset() leaves: not the address of a page

\* kinit() has freed every page, and one process runs.
Init ==
  /\ freelist = NPAGES
  /\ lock = NoThread
  /\ word = [p \in Pages |-> p - 1]
  /\ used = {0}
  /\ pc   = [t \in Threads |-> "idle"]
  /\ r    = [t \in Threads |-> Null]
  /\ own  = [t \in Threads |-> {}]
  /\ at   = [t \in Threads |-> Null]
  /\ nbytes = [t \in Threads |-> 0]
  /\ i    = [t \in Threads |-> 0]
  /\ cnt  = [t \in Threads |-> 0]
  /\ undisturbed = [t \in Threads |-> TRUE]

\* A load from a junk address in getbytes() is a fault in the kernel:
\* kerneltrap() panics, and nothing runs any more.
Panicked == \E t \in Threads : at[t] = Junk

Goto(t, l) == pc' = [pc EXCEPT ![t] = l]

\* What the threads are counting changes.
Disturb == undisturbed' = [t \in Threads |-> FALSE]

-----------------------------------------------------------------------------
\* kalloc()

\* Mutant of KallocLock: the head is read without the lock.
KallocNoLock(t) ==
  /\ pc[t] = "idle"
  /\ lock' = t
  /\ r' = [r EXCEPT ![t] = freelist]
  /\ Goto(t, "kalloc")
  /\ UNCHANGED <<freelist, word, own, used, scanVars, undisturbed>>

\* acquire(), and the head is read.
KallocLock(t) ==
  /\ pc[t] = "idle"
  /\ lock = NoThread
  /\ lock' = t
  /\ r' = [r EXCEPT ![t] = freelist]
  /\ Goto(t, "kalloc")
  /\ UNCHANGED <<freelist, word, own, used, scanVars, undisturbed>>

\* Mutant of KallocPop: the page is filled with junk before its next pointer
\* is read.
KallocPopLate(t) ==
  /\ pc[t] = "kalloc"
  /\ freelist' = IF r[t] = Null THEN freelist ELSE Junk
  /\ lock' = NoThread
  /\ Goto(t, IF r[t] = Null THEN "idle" ELSE "fill")
  /\ Disturb
  /\ UNCHANGED <<word, r, own, used, scanVars>>

\* The page is taken off the list, release().
KallocPop(t) ==
  /\ pc[t] = "kalloc"
  /\ freelist' = IF r[t] = Null THEN freelist ELSE word[r[t]]
  /\ lock' = NoThread
  /\ Goto(t, IF r[t] = Null THEN "idle" ELSE "fill")
  /\ IF r[t] = Null THEN UNCHANGED undisturbed ELSE Disturb
  /\ UNCHANGED <<word, r, own, used, scanVars>>

\* The page is filled with junk without the lock, and returned.
KallocFill(t) ==
  /\ pc[t] = "fill"
  /\ word' = [word EXCEPT ![r[t]] = Junk]
  /\ own' = [own EXCEPT ![t] = @ \cup {r[t]}]
  /\ r' = [r EXCEPT ![t] = Null]
  /\ Goto(t, "idle")
  /\ UNCHANGED <<freelist, lock, used, scanVars, undisturbed>>

\* The user of a page zeroes it, as uvmcreate() and uvmalloc() do.
ZeroPage(t, p) ==
  /\ pc[t] = "idle"
  /\ p \in own[t]
  /\ word' = [word EXCEPT ![p] = Null]
  /\ UNCHANGED <<freelist, lock, pc, r, own, used, scanVars, undisturbed>>

-----------------------------------------------------------------------------
\* kfree()

\* The page is filled with junk.
KfreeFill(t, p) ==
  /\ pc[t] = "idle"
  /\ p \in own[t]
  /\ word' = [word EXCEPT ![p] = Junk]
  /\ own' = [own EXCEPT ![t] = @ \ {p}]
  /\ r' = [r EXCEPT ![t] = p]
  /\ Goto(t, "kfree")
  /\ UNCHANGED <<freelist, lock, used, scanVars, undisturbed>>

\* acquire(), and the next pointer is written.
KfreeLock(t) ==
  /\ pc[t] = "kfree"
  /\ lock = NoThread
  /\ lock' = t
  /\ word' = [word EXCEPT ![r[t]] = freelist]
  /\ Goto(t, "link")
  /\ UNCHANGED <<freelist, r, own, used, scanVars, undisturbed>>

\* Mutant of KfreeLink: the page is filled with junk once it is in the list.
KfreeLinkFill(t) ==
  /\ pc[t] = "link"
  /\ freelist' = r[t]
  /\ word' = [word EXCEPT ![r[t]] = Junk]
  /\ lock' = NoThread
  /\ r' = [r EXCEPT ![t] = Null]
  /\ Goto(t, "idle")
  /\ Disturb
  /\ UNCHANGED <<own, used, scanVars>>

\* The page becomes the head, release().
KfreeLink(t) ==
  /\ pc[t] = "link"
  /\ freelist' = r[t]
  /\ lock' = NoThread
  /\ r' = [r EXCEPT ![t] = Null]
  /\ Goto(t, "idle")
  /\ Disturb
  /\ UNCHANGED <<word, own, used, scanVars>>

-----------------------------------------------------------------------------
\* sysinf()

\* getbytes() reads the head.
GetbytesStart(t) ==
  /\ pc[t] = "idle"
  /\ at' = [at EXCEPT ![t] = freelist]
  /\ nbytes' = [nbytes EXCEPT ![t] = 0]
  /\ undisturbed' = [undisturbed EXCEPT ![t] = TRUE]
  /\ Goto(t, "getbytes")
  /\ UNCHANGED <<freelist, lock, word, r, own, used, i, cnt>>

\* Mutant of GetbytesNext: the last page is not counted.
GetbytesNextShort(t) ==
  /\ pc[t] = "getbytes"
  /\ at[t] # Null
  /\ at' = [at EXCEPT ![t] = word[at[t]]]
  /\ nbytes' = [nbytes EXCEPT ![t] = IF word[at[t]] = Null THEN @ ELSE @ + 1]
  /\ UNCHANGED <<allocVars, used, i, cnt, undisturbed>>

\* It loads the next pointer of the page it is at, and counts that page.
\* NPAGES bounds the model: in the code a scan that is led back to the head
\* again and again can count without end.
GetbytesNext(t) ==
  /\ pc[t] = "getbytes"
  /\ at[t] # Null
  /\ nbytes[t] < 2 * NPAGES
  /\ at' = [at EXCEPT ![t] = word[at[t]]]
  /\ nbytes' = [nbytes EXCEPT ![t] = @ + 1]
  /\ UNCHANGED <<allocVars, used, i, cnt, undisturbed>>

\* It returns, and getnprcs() starts.
GetbytesEnd(t) ==
  /\ pc[t] = "getbytes"
  /\ at[t] = Null
  /\ nbytes' = [nbytes EXCEPT ![t] = 0]
  /\ Goto(t, "getnprcs")
  /\ i' = [i EXCEPT ![t] = 0]
  /\ cnt' = [cnt EXCEPT ![t] = 0]
  /\ undisturbed' = [undisturbed EXCEPT ![t] = TRUE]
  /\ UNCHANGED <<freelist, lock, word, r, own, used, at>>

\* Mutant of GetnprcsNext: the last slot is not read.
GetnprcsShort(t) ==
  /\ pc[t] = "getnprcs"
  /\ i[t] < NPROC
  /\ i' = [i EXCEPT ![t] = IF @ = NPROC - 2 THEN NPROC ELSE @ + 1]
  /\ cnt' = [cnt EXCEPT ![t] = IF i[t] \in used THEN @ + 1 ELSE @]
  /\ UNCHANGED <<allocVars, used, at, nbytes, undisturbed>>

\* It reads the state of slot i without p->lock.
GetnprcsNext(t) ==
  /\ pc[t] = "getnprcs"
  /\ i[t] < NPROC
  /\ i' = [i EXCEPT ![t] = @ + 1]
  /\ cnt' = [cnt EXCEPT ![t] = IF i[t] \in used THEN @ + 1 ELSE @]
  /\ UNCHANGED <<allocVars, used, at, nbytes, undisturbed>>

\* sysinf() copies the two numbers out and returns.
SysinfEnd(t) ==
  /\ pc[t] = "getnprcs"
  /\ i[t] = NPROC
  /\ Goto(t, "idle")
  /\ i' = [i EXCEPT ![t] = 0]
  /\ cnt' = [cnt EXCEPT ![t] = 0]
  /\ UNCHANGED <<freelist, lock, word, r, own, used, at, nbytes, undisturbed>>

\* Elsewhere fork() takes a slot in allocproc(), or wait() frees one in
\* freeproc().
ProcTableChange ==
  /\ \E s \in Slots \ {0} :
       used' = IF s \in used THEN used \ {s} ELSE used \cup {s}
  /\ Disturb
  /\ UNCHANGED <<allocVars, scanVars>>

-----------------------------------------------------------------------------
Kalloc(t) ==
  \/ KallocLock(t) \/ KallocPop(t) \/ KallocFill(t)
  \/ \E p \in Pages : ZeroPage(t, p)
Kfree(t)  == (\E p \in Pages : KfreeFill(t, p)) \/ KfreeLock(t) \/ KfreeLink(t)
Sysinf(t) ==
  \/ GetbytesStart(t) \/ GetbytesNext(t) \/ GetbytesEnd(t)
  \/ GetnprcsNext(t) \/ SysinfEnd(t)

Next ==
  /\ ~ Panicked
  /\ \/ \E t \in Threads : Kalloc(t) \/ Kfree(t) \/ Sysinf(t)
     \/ ProcTableChange

Spec == Init /\ [][Next]_vars

-----------------------------------------------------------------------------
\* Properties

Labels == {"idle", "kalloc", "fill", "kfree", "link", "getbytes", "getnprcs"}

\* Every variable keeps its type.
TypeOK ==
  LET Pointers == Pages \cup {Null} IN
  /\ freelist \in Pointers
  /\ lock \in Threads \cup {NoThread}
  /\ word \in [Pages -> Pointers \cup {Junk}]
  /\ used \subseteq Slots
  /\ pc \in [Threads -> Labels]
  /\ r \in [Threads -> Pointers]
  /\ own \in [Threads -> SUBSET Pages]
  /\ at \in [Threads -> Pointers \cup {Junk}]
  /\ nbytes \in [Threads -> 0 .. 2 * NPAGES]
  /\ i \in [Threads -> 0 .. NPROC]
  /\ cnt \in [Threads -> 0 .. NPROC]
  /\ undisturbed \in [Threads -> BOOLEAN]

\* A thread has taken p off the list or is about to put it there.
InTransit(p) == \E t \in Threads : pc[t] \in {"fill", "kfree", "link"} /\ r[t] = p

FreePages ==
  {p \in Pages : ~ InTransit(p) /\ \A t \in Threads : p \notin own[t]}

NFree == Cardinality(FreePages)

\* The free list has the pages s[1], s[2], ..., and ends: these are the free
\* pages, each once.
IsFreelist(s) ==
  /\ {s[k] : k \in 1 .. NFree} = FreePages
  /\ \A k, l \in 1 .. NFree : s[k] = s[l] => k = l
  /\ freelist = IF NFree = 0 THEN Null ELSE s[1]
  /\ \A k \in 1 .. NFree : word[s[k]] = IF k = NFree THEN Null ELSE s[k + 1]

\* The free list is a list of the free pages: it ends, and has each of them
\* once and no other, although kalloc() and kfree() fill pages with junk
\* without the lock.
ListOK == \E s \in [1 .. NFree -> FreePages] : IsFreelist(s)

\* A page is with one thread: kalloc() never returns one that is in use.
OneUser ==
  \A t, u \in Threads : t # u =>
    /\ own[t] \cap own[u] = {}
    /\ pc[t] \in {"fill", "kfree", "link"} =>
         r[t] \notin own[u] /\ (r[t] = r[u] => pc[u] \in {"idle", "kalloc"})

\* What sysinfotest expects of freemem and nproc: if nothing is allocated,
\* freed, forked or waited for while sysinf() counts, the counts are exact.
CountsExact ==
  \A t \in Threads : undisturbed[t] =>
    /\ pc[t] = "getbytes" /\ at[t] = Null => nbytes[t] = Cardinality(FreePages)
    /\ pc[t] = "getnprcs" /\ i[t] = NPROC => cnt[t] = Cardinality(used)

\* "Fill with junk to catch dangling refs": nothing in the kernel follows a
\* pointer out of a page that is no longer what the pointer was for.
NoDanglingRef == ~ Panicked
=============================================================================
