---------------------------- MODULE SysinfoProofs ----------------------------
(***************************************************************************)
(* Proofs about the page allocator and sysinf(): the free list is the list *)
(* of the free pages, a page has one user, and the counts are exact when   *)
(* nothing happens meanwhile.  The inductive invariant says who may write  *)
(* where: the head of the list and the page on its way to it are safe with *)
(* the holder of kmem.lock, every other page that is not free with its     *)
(* user.                                                                   *)
(***************************************************************************)
EXTENDS Sysinfo, FiniteSetTheorems, TLAPS

USE DEF allocVars, scanVars, Goto, Disturb

-----------------------------------------------------------------------------
\* The free pages

\* A pointer to a page is not null, and junk is neither.
LEMMA PageNotNull == Null \notin Pages /\ Junk \notin Pages /\ Null # Junk
  BY DEF Null, Pages, Junk

\* There is a number of free pages,
LEMMA FreeFinite ==
  ASSUME SysinfoAssumption PROVE IsFiniteSet(FreePages) /\ NFree \in Nat
<1>1. IsFiniteSet(Pages)
  BY FS_Interval DEF SysinfoAssumption, Pages
<1>2. IsFiniteSet(FreePages)
  BY <1>1, FS_Subset DEF FreePages
<1> QED
  BY <1>2, FS_CardinalityType DEF NFree

\* A page leaves the free pages, or comes to them.
LEMMA OnePageLess ==
  ASSUME SysinfoAssumption, NEW p \in FreePages, FreePages' = FreePages \ {p}
  PROVE  NFree' = NFree - 1
  BY FreeFinite, FS_RemoveElement DEF NFree

\* which kfree() raises by one.
LEMMA OnePageMore ==
  ASSUME SysinfoAssumption, NEW p, p \notin FreePages, FreePages' = FreePages \cup {p}
  PROVE  NFree' = NFree + 1
  BY FreeFinite, FS_AddElement DEF NFree

-----------------------------------------------------------------------------
\* Users of pages

Transit == {"fill", "kfree", "link"}

\* kmem.lock excludes the others from the list between reading and writing it;
\* a page that is not free has one user, and only one pointer of its to it.
HoldInv ==
  /\ \A t \in Threads :
       /\ lock = t <=> pc[t] \in {"kalloc", "link"}
       /\ pc[t] = "kalloc" => r[t] = freelist
       /\ pc[t] = "link" => word[r[t]] = freelist
       /\ pc[t] \in Transit => r[t] \in Pages
       /\ pc[t] \notin Transit \cup {"kalloc"} => r[t] = Null
  /\ \A t, u \in Threads :
       /\ pc[t] \in Transit => r[t] \notin own[u]
       /\ pc[t] \in Transit /\ pc[u] \in Transit /\ r[t] = r[u] => t = u
       /\ t # u => own[t] \cap own[u] = {}

\* The free list is as it was, if the free pages are, and nobody wrote to one.
LEMMA SameList ==
  ASSUME FreePages' = FreePages, freelist' = freelist,
         \A p \in FreePages : word'[p] = word[p],
         NEW s \in [1 .. NFree -> FreePages]
  PROVE  NFree' = NFree /\ (IsFreelist(s)' <=> IsFreelist(s))
<1>1. NFree' = NFree
  BY DEF NFree
<1>2. \A k \in 1 .. NFree : word'[s[k]] = word[s[k]]
  OBVIOUS
<1> QED
  BY <1>1, <1>2 DEF IsFreelist

\* The head of the list is a free page, or there is none.
LEMMA HeadIsFree ==
  ASSUME SysinfoAssumption, ListOK
  PROVE  freelist \in FreePages \/ (freelist = Null /\ FreePages = {})
<1>1. PICK s \in [1 .. NFree -> FreePages] : IsFreelist(s)
  BY DEF ListOK
<1>2. CASE NFree = 0
  <2>1. 1 .. NFree = {}
    BY <1>2
  <2> QED
    BY <1>1, <1>2, <2>1 DEF IsFreelist
<1>3. CASE NFree # 0
  <2>1. 1 \in 1 .. NFree
    BY <1>3, FreeFinite
  <2>2. freelist = s[1]
    BY <1>1, <1>3 DEF IsFreelist
  <2>3. s[1] \in FreePages
    BY <2>1
  <2> QED
    BY <2>2, <2>3
<1> QED
  BY <1>2, <1>3

\* The next pointer of a free page is one to a page, or null.
LEMMA NextIsPointer ==
  ASSUME SysinfoAssumption, ListOK, NEW p \in FreePages
  PROVE  word[p] \in Pages \cup {Null}
<1>1. PICK s \in [1 .. NFree -> FreePages] : IsFreelist(s)
  BY DEF ListOK
<1>2. PICK k \in 1 .. NFree : s[k] = p
  BY <1>1 DEF IsFreelist
<1>3. k # NFree => s[k + 1] \in Pages
  BY <1>1, FreeFinite DEF FreePages
<1> QED
  BY <1>1, <1>2, <1>3 DEF IsFreelist

\* kalloc() takes the head off the list,
LEMMA PopList ==
  ASSUME SysinfoAssumption, ListOK, freelist # Null,
         FreePages' = FreePages \ {freelist}, freelist' = word[freelist],
         word' = word
  PROVE  ListOK'
<1>1. PICK s \in [1 .. NFree -> FreePages] : IsFreelist(s)
  BY DEF ListOK
<1> PICK m : m = NFree
  OBVIOUS
<1>2. m = NFree /\ m \in Nat /\ NFree' = m - 1 /\ m # 0
  BY <1>1, HeadIsFree, OnePageLess, FreeFinite DEF IsFreelist
<1>3. 1 \in 1 .. m /\ \A k \in 1 .. m - 1 : k \in 1 .. m /\ k + 1 \in 1 .. m
  BY <1>2
<1>4. freelist = s[1]
  BY <1>1, <1>2 DEF IsFreelist
<1> DEFINE z == [k \in 1 .. m - 1 |-> s[k + 1]]
<1>5. \A k \in 1 .. m - 1 : z[k] = s[k + 1] /\ z[k] # freelist
  <2> TAKE k \in 1 .. m - 1
  <2>1. k + 1 \in 1 .. m /\ k + 1 # 1
    BY <1>2
  <2> QED
    BY <1>1, <1>3, <1>4, <2>1 DEF IsFreelist
<1>6. z \in [1 .. m - 1 -> FreePages']
  BY <1>1, <1>3, <1>5
<1>7. {z[k] : k \in 1 .. m - 1} = FreePages'
  <2>1. ASSUME NEW p \in FreePages, p # freelist
        PROVE  \E k \in 1 .. m - 1 : z[k] = p
    <3>1. PICK k \in 1 .. m : s[k] = p
      BY <1>1 DEF IsFreelist
    <3>2. k - 1 \in 1 .. m - 1 /\ (k - 1) + 1 = k
      BY <1>2, <1>4, <2>1, <3>1
    <3> QED
      BY <1>5, <3>1, <3>2
  <2> QED
    BY <1>6, <2>1
<1>8. \A k, l \in 1 .. m - 1 : z[k] = z[l] => k = l
  BY <1>1, <1>2, <1>3, <1>5 DEF IsFreelist
<1>9. freelist' = IF m - 1 = 0 THEN Null ELSE z[1]
  BY <1>1, <1>2, <1>3, <1>4, <1>5 DEF IsFreelist
<1>10. \A k \in 1 .. m - 1 :
         word[z[k]] = IF k = m - 1 THEN Null ELSE z[k + 1]
  <2> TAKE k \in 1 .. m - 1
  <2>1. word[s[k + 1]] = IF k + 1 = m THEN Null ELSE s[(k + 1) + 1]
    BY <1>1, <1>2, <1>3 DEF IsFreelist
  <2>2. k # m - 1 => z[k + 1] = s[(k + 1) + 1]
    BY <1>2, <1>5
  <2> QED
    BY <1>2, <1>5, <2>1, <2>2
<1> HIDE DEF z
<1>11. IsFreelist(z)'
  BY <1>2, <1>7, <1>8, <1>9, <1>10 DEF IsFreelist
<1> QED
  BY <1>2, <1>6, <1>11 DEF ListOK

\* and kfree() puts a page before it.
LEMMA PushList ==
  ASSUME SysinfoAssumption, ListOK, NEW p \in Pages, p \notin FreePages,
         word[p] = freelist, FreePages' = FreePages \cup {p}, freelist' = p,
         word' = word
  PROVE  ListOK'
<1>1. PICK s \in [1 .. NFree -> FreePages] : IsFreelist(s)
  BY DEF ListOK
<1> PICK m : m = NFree
  OBVIOUS
<1>2. m = NFree /\ m \in Nat /\ NFree' = m + 1
  BY OnePageMore, FreeFinite
<1> DEFINE z == [k \in 1 .. m + 1 |-> IF k = 1 THEN p ELSE s[k - 1]]
<1>3. \A k \in 1 .. m + 1 : k # 1 => k - 1 \in 1 .. m
  BY <1>2
<1>4. z[1] = p /\ 1 \in 1 .. m + 1
  BY <1>2
<1>5. \A k \in 1 .. m : z[k + 1] = s[k] /\ k + 1 \in 1 .. m + 1
  BY <1>2
<1>6. z \in [1 .. m + 1 -> FreePages']
  BY <1>1, <1>3
<1>7. {z[k] : k \in 1 .. m + 1} = FreePages'
  <2>1. ASSUME NEW q \in FreePages PROVE \E k \in 1 .. m + 1 : z[k] = q
    <3>1. PICK k \in 1 .. m : s[k] = q
      BY <1>1, <1>2 DEF IsFreelist
    <3> QED
      BY <1>5, <3>1
  <2> QED
    BY <1>4, <1>6, <2>1
<1>8. \A k, l \in 1 .. m + 1 : z[k] = z[l] => k = l
  <2> SUFFICES ASSUME NEW k \in 1 .. m + 1, NEW l \in 1 .. m + 1, z[k] = z[l]
               PROVE  k = l
    OBVIOUS
  <2>1. CASE k = 1 \/ l = 1
    BY <1>1, <1>3, <2>1
  <2>2. CASE k # 1 /\ l # 1
    <3>1. s[k - 1] = s[l - 1] /\ k - 1 \in 1 .. m /\ l - 1 \in 1 .. m
      BY <1>3, <2>2
    <3>2. k - 1 = l - 1
      BY <1>1, <3>1 DEF IsFreelist
    <3> QED
      BY <1>2, <3>2
  <2> QED
    BY <2>1, <2>2
<1>9. \A k \in 1 .. m + 1 :
        word[z[k]] = IF k = m + 1 THEN Null ELSE z[k + 1]
  <2> TAKE k \in 1 .. m + 1
  <2>1. CASE k = 1
    <3>1. m # 0 => z[2] = s[1]
      BY <1>2, <1>5
    <3> QED
      BY <1>1, <1>2, <2>1, <3>1 DEF IsFreelist
  <2>2. CASE k # 1
    <3>1. k - 1 \in 1 .. m /\ z[k] = s[k - 1]
      BY <1>3, <2>2
    <3>2. k # m + 1 => z[k + 1] = s[k] /\ (k - 1) + 1 = k /\ k - 1 # m
      BY <1>2, <1>5, <2>2
    <3>3. word[s[k - 1]] = IF k - 1 = m THEN Null ELSE s[(k - 1) + 1]
      BY <1>1, <3>1 DEF IsFreelist
    <3> QED
      BY <1>2, <3>1, <3>2, <3>3
  <2> QED
    BY <2>1, <2>2
<1> HIDE DEF z
<1>10. IsFreelist(z)'
  BY <1>2, <1>4, <1>7, <1>8, <1>9 DEF IsFreelist
<1> QED
  BY <1>2, <1>6, <1>10 DEF ListOK

-----------------------------------------------------------------------------
\* The invariant

\* A scan of the list that has counted n pages is at the page after them.
ListCounted(t) ==
  /\ nbytes[t] <= NFree
  /\ \A s \in [1 .. NFree -> FreePages] : IsFreelist(s) =>
       at[t] = IF nbytes[t] = NFree THEN Null ELSE s[nbytes[t] + 1]

\* A scan of the process table has counted the slots before its own.
SlotsCounted(t) == cnt[t] = Cardinality(used \cap (0 .. i[t] - 1))

\* A scan that nothing disturbed is where its count says.
CountInv ==
  \A t \in Threads :
    /\ cnt[t] <= i[t]
    /\ undisturbed[t] => /\ pc[t] = "getbytes" => ListCounted(t)
                         /\ pc[t] = "getnprcs" => SlotsCounted(t)

IInv == TypeOK /\ HoldInv /\ ListOK /\ CountInv

\* A thread that reads or frees a page of the list is at one.
LEMMA StepTypes ==
  ASSUME SysinfoAssumption, IInv, [Next]_vars PROVE TypeOK'
<1> USE SysinfoAssumption, PageNotNull
<1>1. TypeOK /\ CountInv
  BY DEF IInv
<1>2. CASE UNCHANGED vars
  BY <1>1, <1>2 DEF TypeOK, vars
<1>3. CASE ProcTableChange
  BY <1>1, <1>3 DEF TypeOK, ProcTableChange, Slots
<1>4. ASSUME NEW t \in Threads, Kalloc(t) PROVE TypeOK'
  <2>1. CASE KallocLock(t)
    BY <1>1, <2>1 DEF TypeOK, KallocLock, Labels
  <2>2. CASE KallocPop(t)
    <3>1. r[t] # Null => word[r[t]] \in Pages \cup {Null}
      <4>1. pc[t] = "kalloc" /\ r[t] = freelist
        BY <2>2 DEF KallocPop, IInv, HoldInv
      <4>2. freelist # Null => freelist \in FreePages
        BY HeadIsFree DEF IInv
      <4> QED
        BY <4>1, <4>2, NextIsPointer DEF IInv
    <3> QED
      BY <1>1, <2>2, <3>1 DEF TypeOK, KallocPop, Labels
  <2>3. CASE KallocFill(t)
    <3>1. r[t] \in Pages
      BY <2>3 DEF KallocFill, IInv, HoldInv, Transit
    <3> QED
      BY <1>1, <2>3, <3>1 DEF TypeOK, KallocFill, Labels
  <2>4. CASE \E p \in Pages : ZeroPage(t, p)
    BY <1>1, <2>4 DEF TypeOK, ZeroPage
  <2> QED
    BY <1>4, <2>1, <2>2, <2>3, <2>4 DEF Kalloc
<1>5. ASSUME NEW t \in Threads, Kfree(t) PROVE TypeOK'
  <2>1. CASE \E p \in Pages : KfreeFill(t, p)
    BY <1>1, <2>1 DEF TypeOK, KfreeFill, Labels
  <2>2. CASE KfreeLock(t)
    BY <1>1, <2>2 DEF TypeOK, KfreeLock, Labels
  <2>3. CASE KfreeLink(t)
    BY <1>1, <2>3 DEF TypeOK, KfreeLink, Labels
  <2> QED
    BY <1>5, <2>1, <2>2, <2>3 DEF Kfree
<1>6. ASSUME NEW t \in Threads, ~ Panicked, Sysinf(t) PROVE TypeOK'
  <2>1. CASE GetbytesStart(t)
    BY <1>1, <2>1 DEF TypeOK, GetbytesStart, Labels
  <2>2. CASE GetbytesNext(t)
    <3>1. at[t] \in Pages
      BY <1>1, <1>6, <2>2 DEF TypeOK, GetbytesNext, Panicked
    <3>2. nbytes[t] + 1 \in 0 .. 2 * NPAGES
      BY <1>1, <2>2 DEF TypeOK, GetbytesNext
    <3> QED
      BY <1>1, <2>2, <3>1, <3>2 DEF TypeOK, GetbytesNext
  <2>3. CASE GetbytesEnd(t)
    BY <1>1, <2>3 DEF TypeOK, GetbytesEnd, Labels
  <2>4. CASE GetnprcsNext(t)
    <3>1. cnt[t] \in 0 .. NPROC /\ i[t] \in 0 .. NPROC
      BY <1>1 DEF TypeOK
    <3>2. cnt[t] <= i[t] /\ i[t] < NPROC
      BY <1>1, <2>4 DEF CountInv, GetnprcsNext
    <3>3. i[t] + 1 \in 0 .. NPROC /\ cnt[t] + 1 \in 0 .. NPROC
      BY <3>1, <3>2 DEF SysinfoAssumption
    <3> QED
      BY <1>1, <2>4, <3>3 DEF TypeOK, GetnprcsNext
  <2>5. CASE SysinfEnd(t)
    BY <1>1, <2>5 DEF TypeOK, SysinfEnd, Labels
  <2> QED
    BY <1>6, <2>1, <2>2, <2>3, <2>4, <2>5 DEF Sysinf
<1> QED
  BY <1>2, <1>3, <1>4, <1>5, <1>6 DEF Next

\* What a step makes of the free pages: kalloc() takes the head from them,
\* kfree() gives them the page it has linked, and nothing else changes them or
\* writes to one.
LEMMA FreeStep ==
  ASSUME SysinfoAssumption, IInv, [Next]_vars
  PROVE  \/ /\ FreePages' = FreePages
            /\ freelist' = freelist
            /\ \A p \in FreePages : word'[p] = word[p]
         \/ \E t \in Threads : /\ KallocPop(t)
                               /\ freelist # Null
                               /\ FreePages' = FreePages \ {freelist}
                               /\ freelist' = word[freelist]
                               /\ word' = word
         \/ \E t \in Threads : /\ KfreeLink(t)
                               /\ r[t] \in Pages \ FreePages
                               /\ word[r[t]] = freelist
                               /\ FreePages' = FreePages \cup {r[t]}
                               /\ freelist' = r[t]
                               /\ word' = word
<1> USE SysinfoAssumption, PageNotNull
<1> DEFINE Same == /\ FreePages' = FreePages
                   /\ freelist' = freelist
                   /\ \A p \in FreePages : word'[p] = word[p]
<1>0. TypeOK /\ HoldInv /\ ListOK
  BY DEF IInv
<1>1. ASSUME UNCHANGED <<freelist, word, r, own>>, UNCHANGED pc PROVE Same
  BY <1>1 DEF FreePages, InTransit
<1>2. CASE UNCHANGED vars
  BY <1>1, <1>2 DEF vars
<1>3. CASE ProcTableChange
  BY <1>1, <1>3 DEF ProcTableChange
<1>4. ASSUME NEW t \in Threads, Sysinf(t) PROVE Same
  <2>1. UNCHANGED <<freelist, word, r, own>>
    BY <1>4 DEF Sysinf, GetbytesStart, GetbytesNext, GetbytesEnd,
                GetnprcsNext, SysinfEnd
  <2>2. \A u \in Threads : pc'[u] \in Transit <=> pc[u] \in Transit
    BY <1>0, <1>4 DEF TypeOK, Sysinf, GetbytesStart, GetbytesNext, GetbytesEnd,
                      GetnprcsNext, SysinfEnd, Transit
  <2> QED
    BY <2>1, <2>2 DEF FreePages, InTransit, Transit
<1>5. ASSUME NEW t \in Threads, KallocLock(t) PROVE Same
  BY <1>0, <1>5 DEF TypeOK, HoldInv, Transit, KallocLock, FreePages, InTransit
<1>6. ASSUME NEW t \in Threads, KallocFill(t) PROVE Same
  <2>1. r[t] \in Pages /\ pc[t] = "fill"
    BY <1>0, <1>6 DEF HoldInv, KallocFill, Transit
  <2>2. r[t] \notin FreePages
    BY <2>1 DEF FreePages, InTransit
  <2>3. FreePages' = FreePages
    BY <1>0, <1>6, <2>1 DEF TypeOK, KallocFill, FreePages, InTransit
  <2> QED
    BY <1>0, <1>6, <2>2, <2>3 DEF TypeOK, KallocFill
<1>7. ASSUME NEW t \in Threads, NEW p \in Pages, ZeroPage(t, p) PROVE Same
  <2>1. p \notin FreePages
    BY <1>7 DEF ZeroPage, FreePages
  <2> QED
    BY <1>0, <1>7, <2>1 DEF TypeOK, ZeroPage, FreePages, InTransit
<1>8. ASSUME NEW t \in Threads, NEW p \in Pages, KfreeFill(t, p) PROVE Same
  <2>1. p \notin FreePages
    BY <1>8 DEF KfreeFill, FreePages
  <2>2. FreePages' = FreePages
    BY <1>0, <1>8 DEF TypeOK, HoldInv, Transit, KfreeFill, FreePages, InTransit
  <2> QED
    BY <1>0, <1>8, <2>1, <2>2 DEF TypeOK, KfreeFill
<1>9. ASSUME NEW t \in Threads, KfreeLock(t) PROVE Same
  <2>1. r[t] \notin FreePages
    BY <1>9 DEF KfreeLock, FreePages, InTransit
  <2> QED
    BY <1>0, <1>9, <2>1 DEF TypeOK, KfreeLock, FreePages, InTransit
<1>10. ASSUME NEW t \in Threads, KallocPop(t), r[t] = Null PROVE Same
  BY <1>0, <1>10 DEF TypeOK, KallocPop, FreePages, InTransit
<1>11. ASSUME NEW t \in Threads, KallocPop(t), r[t] # Null
       PROVE  /\ freelist # Null
              /\ FreePages' = FreePages \ {freelist}
              /\ freelist' = word[freelist]
              /\ word' = word
  <2>1. pc[t] = "kalloc" /\ r[t] = freelist
    BY <1>0, <1>11 DEF KallocPop, HoldInv
  <2> QED
    BY <1>0, <1>11, <2>1 DEF TypeOK, KallocPop, FreePages, InTransit
<1>12. ASSUME NEW t \in Threads, KfreeLink(t)
       PROVE  /\ r[t] \in Pages \ FreePages
              /\ word[r[t]] = freelist
              /\ FreePages' = FreePages \cup {r[t]}
              /\ freelist' = r[t]
              /\ word' = word
  <2>1. pc[t] = "link" /\ r[t] \in Pages /\ word[r[t]] = freelist
    BY <1>0, <1>12 DEF KfreeLink, HoldInv, Transit
  <2>2. r[t] \notin FreePages
    BY <2>1 DEF FreePages, InTransit
  <2>3. FreePages' = FreePages \cup {r[t]}
    BY <1>0, <1>12, <2>1 DEF TypeOK, HoldInv, Transit, KfreeLink, FreePages,
                             InTransit
  <2> QED
    BY <1>12, <2>1, <2>2, <2>3 DEF KfreeLink
<1> QED
  <2> HIDE DEF Same
  <2>1. ASSUME NEW t \in Threads, Kalloc(t)
        PROVE  Same \/ (KallocPop(t) /\ r[t] # Null)
    BY <1>5, <1>6, <1>7, <1>10, <2>1 DEF Kalloc
  <2>2. ASSUME NEW t \in Threads, Kfree(t) PROVE Same \/ KfreeLink(t)
    BY <1>8, <1>9, <2>2 DEF Kfree
  <2>3. CASE UNCHANGED vars
    BY <1>2, <2>3 DEF Same
  <2>4. CASE Next
    BY <1>3, <1>4, <1>11, <1>12, <2>1, <2>2, <2>4 DEF Next, Same
  <2> QED
    BY <2>3, <2>4

\* The lock is with the thread that is between reading the list and writing
\* it, and a page changes hands with the thread that has it.
LEMMA StepHolds ==
  ASSUME SysinfoAssumption, IInv, [Next]_vars PROVE HoldInv'
<1> USE SysinfoAssumption, PageNotNull
<1>0. TypeOK /\ HoldInv /\ ListOK
  BY DEF IInv
<1>1. CASE UNCHANGED vars
  BY <1>0, <1>1 DEF vars, HoldInv
<1>2. CASE ProcTableChange
  BY <1>0, <1>2 DEF ProcTableChange, HoldInv
<1>3. ASSUME NEW t \in Threads, Sysinf(t) PROVE HoldInv'
  <2>1. UNCHANGED <<freelist, lock, word, r, own>>
    BY <1>3 DEF Sysinf, GetbytesStart, GetbytesNext, GetbytesEnd,
                GetnprcsNext, SysinfEnd
  <2>2. \A u \in Threads :
          \/ pc'[u] = pc[u]
          \/ {pc[u], pc'[u]} \subseteq {"idle", "getbytes", "getnprcs"}
    BY <1>0, <1>3 DEF TypeOK, Sysinf, GetbytesStart, GetbytesNext, GetbytesEnd,
                      GetnprcsNext, SysinfEnd
  <2> QED
    BY <1>0, <2>1, <2>2 DEF HoldInv, Transit
<1>4. ASSUME NEW t \in Threads, KallocLock(t) PROVE HoldInv'
  BY <1>0, <1>4 DEF TypeOK, HoldInv, Transit, KallocLock
<1>5. ASSUME NEW t \in Threads, KallocPop(t) PROVE HoldInv'
  <2>1. freelist # Null => freelist \in FreePages
    BY <1>0, HeadIsFree
  <2>2. \A u \in Threads : freelist # Null =>
          /\ freelist \notin own[u]
          /\ pc[u] \in Transit => r[u] # freelist
    BY <2>1 DEF FreePages, InTransit, Transit
  <2>3. freelist # Null => freelist \in Pages
    BY <2>1 DEF FreePages
  <2>4. pc[t] = "kalloc" /\ r[t] = freelist /\ lock = t
    BY <1>0, <1>5 DEF KallocPop, HoldInv
  <2>5. \A u \in Threads : u # t => pc[u] \notin {"kalloc", "link"}
    BY <1>0, <2>4 DEF HoldInv
  <2> QED
    BY <1>0, <1>5, <2>2, <2>3, <2>4, <2>5 DEF TypeOK, HoldInv, Transit, KallocPop
<1>6. ASSUME NEW t \in Threads, KallocFill(t) PROVE HoldInv'
  BY <1>0, <1>6 DEF TypeOK, HoldInv, Transit, KallocFill
<1>7. ASSUME NEW t \in Threads, NEW p \in Pages, ZeroPage(t, p) PROVE HoldInv'
  BY <1>0, <1>7 DEF TypeOK, HoldInv, Transit, ZeroPage
<1>8. ASSUME NEW t \in Threads, NEW p \in Pages, KfreeFill(t, p) PROVE HoldInv'
  BY <1>0, <1>8 DEF TypeOK, HoldInv, Transit, KfreeFill
<1>9. ASSUME NEW t \in Threads, KfreeLock(t) PROVE HoldInv'
  BY <1>0, <1>9 DEF TypeOK, HoldInv, Transit, KfreeLock
<1>10. ASSUME NEW t \in Threads, KfreeLink(t) PROVE HoldInv'
  BY <1>0, <1>10 DEF TypeOK, HoldInv, Transit, KfreeLink
<1>11. CASE Next
  <2>1. ASSUME NEW t \in Threads, Kalloc(t) PROVE HoldInv'
    BY <1>4, <1>5, <1>6, <1>7, <2>1 DEF Kalloc
  <2>2. ASSUME NEW t \in Threads, Kfree(t) PROVE HoldInv'
    BY <1>8, <1>9, <1>10, <2>2 DEF Kfree
  <2> QED
    BY <1>2, <1>3, <1>11, <2>1, <2>2 DEF Next
<1> QED
  BY <1>1, <1>11

\* The list stays a list of the free pages.
LEMMA StepLists ==
  ASSUME SysinfoAssumption, IInv, [Next]_vars PROVE ListOK'
<1>0. ListOK
  BY DEF IInv
<1>1. CASE /\ FreePages' = FreePages
           /\ freelist' = freelist
           /\ \A p \in FreePages : word'[p] = word[p]
  <2>1. PICK s \in [1 .. NFree -> FreePages] : IsFreelist(s)
    BY <1>0 DEF ListOK
  <2>2. NFree' = NFree /\ IsFreelist(s)'
    BY <1>1, <2>1, SameList
  <2> QED
    BY <1>1, <2>2 DEF ListOK
<1>2. CASE \E t \in Threads : /\ KallocPop(t)
                              /\ freelist # Null
                              /\ FreePages' = FreePages \ {freelist}
                              /\ freelist' = word[freelist]
                              /\ word' = word
  BY <1>0, <1>2, PopList
<1>3. CASE \E t \in Threads : /\ KfreeLink(t)
                              /\ r[t] \in Pages \ FreePages
                              /\ word[r[t]] = freelist
                              /\ FreePages' = FreePages \cup {r[t]}
                              /\ freelist' = r[t]
                              /\ word' = word
  <2>1. PICK t \in Threads : /\ r[t] \in Pages \ FreePages
                             /\ word[r[t]] = freelist
                             /\ FreePages' = FreePages \cup {r[t]}
                             /\ freelist' = r[t]
                             /\ word' = word
    BY <1>3
  <2> QED
    BY <1>0, <2>1, PushList
<1> QED
  BY <1>1, <1>2, <1>3, FreeStep

\* Slot n is counted.
LEMMA OneSlotMore ==
  ASSUME SysinfoAssumption, used \subseteq Slots, NEW n \in Nat
  PROVE  LET Seen(m) == used \cap (0 .. m - 1) IN
         /\ Cardinality(Seen(0)) = 0
         /\ Cardinality(Seen(NPROC)) = Cardinality(used)
         /\ Cardinality(Seen(n + 1)) =
              IF n \in used THEN Cardinality(Seen(n)) + 1 ELSE Cardinality(Seen(n))
<1> DEFINE Seen(m) == used \cap (0 .. m - 1)
<1>1. Seen(0) = {}
  OBVIOUS
<1>2. Seen(NPROC) = used
  BY DEF Slots, SysinfoAssumption
<1>3. IsFiniteSet(Seen(n))
  <2>1. IsFiniteSet(0 .. n - 1)
    BY FS_Interval
  <2> QED
    BY <2>1, FS_Subset
<1>4. Seen(n + 1) = IF n \in used THEN Seen(n) \cup {n} ELSE Seen(n)
  OBVIOUS
<1>5. n \notin Seen(n)
  OBVIOUS
<1> HIDE DEF Seen
<1>6. Cardinality(Seen(n + 1)) =
        IF n \in used THEN Cardinality(Seen(n)) + 1 ELSE Cardinality(Seen(n))
  BY <1>3, <1>4, <1>5, FS_AddElement
<1>7. Cardinality(Seen(0)) = 0 /\ Cardinality(Seen(NPROC)) = Cardinality(used)
  BY <1>1, <1>2, FS_EmptySet
<1> QED
  BY <1>6, <1>7 DEF Seen

\* A scan counts one page or one slot more, and starts at none.
LEMMA StepCounts ==
  ASSUME SysinfoAssumption, IInv, [Next]_vars PROVE CountInv'
<1> USE SysinfoAssumption
<1>0. TypeOK /\ HoldInv /\ ListOK /\ CountInv
  BY DEF IInv
<1>1. ASSUME UNCHANGED scanVars, \A t \in Threads : ~ undisturbed'[t]
      PROVE  CountInv'
  BY <1>0, <1>1 DEF CountInv
<1>2. ASSUME NEW t \in Threads, KallocPop(t), freelist # Null PROVE CountInv'
  <2>1. r[t] # Null
    BY <1>0, <1>2 DEF HoldInv, KallocPop
  <2> QED
    BY <1>1, <1>2, <2>1 DEF KallocPop
<1>3. ASSUME NEW t \in Threads, KfreeLink(t) PROVE CountInv'
  BY <1>1, <1>3 DEF KfreeLink
<1>4. CASE ProcTableChange
  BY <1>1, <1>4 DEF ProcTableChange
<1>5. CASE /\ FreePages' = FreePages
           /\ freelist' = freelist
           /\ \A p \in FreePages : word'[p] = word[p]
           /\ ~ ProcTableChange
  <2>1. NFree' = NFree
    BY <1>5 DEF NFree
  <2>2. \A s \in [1 .. NFree -> FreePages] : IsFreelist(s)' <=> IsFreelist(s)
    BY <1>5, SameList
  <2>3. ASSUME NEW u \in Threads, at'[u] = at[u], nbytes'[u] = nbytes[u],
               ListCounted(u)
        PROVE  ListCounted(u)'
    BY <1>5, <2>1, <2>2, <2>3 DEF ListCounted
  <2>4. ASSUME NEW u \in Threads, i'[u] = i[u], cnt'[u] = cnt[u], used' = used,
               SlotsCounted(u)
        PROVE  SlotsCounted(u)'
    BY <2>4 DEF SlotsCounted
  <2> DEFINE Counted(u) ==
               /\ cnt[u] <= i[u]
               /\ undisturbed[u] => /\ pc[u] = "getbytes" => ListCounted(u)
                                    /\ pc[u] = "getnprcs" => SlotsCounted(u)
  <2>5. \A u \in Threads : Counted(u)
    BY <1>0 DEF CountInv
  <2>6. ASSUME NEW u \in Threads, used' = used,
               at'[u] = at[u], nbytes'[u] = nbytes[u],
               i'[u] = i[u], cnt'[u] = cnt[u],
               undisturbed'[u] => undisturbed[u],
               pc'[u] \in {"getbytes", "getnprcs"} => pc[u] = pc'[u]
        PROVE  Counted(u)'
    BY <2>3, <2>4, <2>5, <2>6
  <2> HIDE DEF Counted
  <2>7. CASE UNCHANGED vars
    <3>1. \A u \in Threads : Counted(u)'
      BY <2>6, <2>7 DEF vars
    <3> QED
      BY <3>1 DEF Counted, CountInv
  <2>8. ASSUME NEW t \in Threads, Kalloc(t) \/ Kfree(t) PROVE CountInv'
    <3>1. CASE KfreeLink(t)
      BY <1>3, <3>1
    <3>2. CASE KallocPop(t)
      <4>1. CASE r[t] # Null
        BY <1>1, <3>2, <4>1 DEF KallocPop
      <4>2. CASE r[t] = Null
        <5>1. \A u \in Threads : Counted(u)'
          BY <1>0, <2>6, <3>2, <4>2 DEF TypeOK, KallocPop
        <5> QED
          BY <5>1 DEF Counted, CountInv
      <4> QED
        BY <4>1, <4>2
    <3>3. CASE ~ KfreeLink(t) /\ ~ KallocPop(t)
      <4>1. used' = used /\ UNCHANGED <<at, nbytes, i, cnt, undisturbed>>
        BY <2>8, <3>3 DEF Kalloc, Kfree, KallocLock, KallocFill, ZeroPage,
                          KfreeFill, KfreeLock
      <4>2. \A u \in Threads :
              pc'[u] \in {"getbytes", "getnprcs"} => pc[u] = pc'[u]
        BY <1>0, <2>8, <3>3 DEF TypeOK, Kalloc, Kfree, KallocLock, KallocFill,
                                ZeroPage, KfreeFill, KfreeLock
      <4>3. \A u \in Threads : Counted(u)'
        BY <2>6, <4>1, <4>2
      <4> QED
        BY <4>3 DEF Counted, CountInv
    <3> QED
      BY <3>1, <3>2, <3>3
  <2>9. ASSUME NEW t \in Threads, Sysinf(t), ~ Panicked PROVE CountInv'
    <3>1. ASSUME NEW u \in Threads, u # t PROVE Counted(u)'
      <4>1. /\ used' = used
            /\ at'[u] = at[u] /\ nbytes'[u] = nbytes[u]
            /\ i'[u] = i[u] /\ cnt'[u] = cnt[u]
            /\ undisturbed'[u] = undisturbed[u]
            /\ pc'[u] = pc[u]
        BY <1>0, <2>9, <3>1 DEF TypeOK, Sysinf, GetbytesStart, GetbytesNext,
                                GetbytesEnd, GetnprcsNext, SysinfEnd
      <4> QED
        BY <2>6, <4>1
    <3> SUFFICES Counted(t)'
      BY <3>1 DEF Counted, CountInv
    <3>2. CASE GetbytesStart(t)
      <4>1. /\ at'[t] = freelist /\ nbytes'[t] = 0 /\ pc'[t] = "getbytes"
            /\ cnt' = cnt /\ i' = i
        BY <1>0, <3>2 DEF TypeOK, GetbytesStart
      <4>2. 0 <= NFree /\ NFree \in Nat
        BY FreeFinite
      <4>3. ListCounted(t)'
        BY <1>5, <2>1, <2>2, <4>1, <4>2 DEF ListCounted, IsFreelist
      <4> QED
        BY <2>5, <4>1, <4>3 DEF Counted
    <3>3. CASE GetbytesNext(t)
      <4>1. /\ at'[t] = word[at[t]] /\ nbytes'[t] = nbytes[t] + 1
            /\ pc[t] = "getbytes" /\ at[t] # Null
            /\ cnt' = cnt /\ i' = i /\ pc' = pc /\ undisturbed' = undisturbed
        BY <1>0, <3>3 DEF TypeOK, GetbytesNext
      <4>2. ASSUME ListCounted(t) PROVE ListCounted(t)'
        <5>1. NFree \in Nat /\ nbytes[t] \in Nat /\ nbytes[t] <= NFree
          BY <1>0, <4>2, FreeFinite DEF TypeOK, ListCounted
        <5>2. PICK s \in [1 .. NFree -> FreePages] : IsFreelist(s)
          BY <1>0 DEF ListOK
        <5>3. nbytes[t] # NFree
          BY <4>1, <4>2, <5>2 DEF ListCounted
        <5>4. ASSUME NEW z \in [1 .. NFree -> FreePages], IsFreelist(z)
              PROVE  word[at[t]] = IF nbytes[t] + 1 = NFree
                                   THEN Null ELSE z[(nbytes[t] + 1) + 1]
          <6>1. at[t] = z[nbytes[t] + 1]
            BY <4>2, <5>3, <5>4 DEF ListCounted
          <6>2. nbytes[t] + 1 \in 1 .. NFree
            BY <5>1, <5>3
          <6> QED
            BY <5>4, <6>1, <6>2 DEF IsFreelist
        <5>5. nbytes[t] + 1 <= NFree
          BY <5>1, <5>3
        <5> QED
          BY <1>5, <2>1, <2>2, <4>1, <5>4, <5>5 DEF ListCounted
      <4> QED
        BY <2>5, <4>1, <4>2 DEF Counted
    <3>4. CASE GetbytesEnd(t)
      <4>1. i'[t] = 0 /\ cnt'[t] = 0 /\ pc'[t] = "getnprcs" /\ used' = used
        BY <1>0, <3>4 DEF TypeOK, GetbytesEnd
      <4>2. SlotsCounted(t)'
        BY <1>0, <4>1, OneSlotMore DEF SlotsCounted, TypeOK
      <4> QED
        BY <4>1, <4>2 DEF Counted
    <3>5. CASE GetnprcsNext(t)
      <4>1. /\ i'[t] = i[t] + 1
            /\ cnt'[t] = IF i[t] \in used THEN cnt[t] + 1 ELSE cnt[t]
            /\ pc[t] = "getnprcs" /\ pc' = pc /\ undisturbed' = undisturbed
            /\ used' = used /\ i[t] \in Nat /\ cnt[t] \in Nat
        BY <1>0, <3>5 DEF TypeOK, GetnprcsNext
      <4>2. ASSUME SlotsCounted(t) PROVE SlotsCounted(t)'
        BY <1>0, <4>1, <4>2, OneSlotMore DEF SlotsCounted, TypeOK
      <4>3. cnt'[t] <= i'[t]
        BY <2>5, <4>1 DEF Counted
      <4> QED
        BY <2>5, <4>1, <4>2, <4>3 DEF Counted
    <3>6. CASE SysinfEnd(t)
      <4>1. i'[t] = 0 /\ cnt'[t] = 0 /\ pc'[t] = "idle"
        BY <1>0, <3>6 DEF TypeOK, SysinfEnd
      <4> QED
        BY <4>1 DEF Counted
    <3> QED
      BY <2>9, <3>2, <3>3, <3>4, <3>5, <3>6 DEF Sysinf
  <2> QED
    BY <1>4, <2>7, <2>8, <2>9 DEF Next
<1> QED
  BY <1>2, <1>3, <1>4, <1>5, FreeStep

-----------------------------------------------------------------------------
\* The theorems

\* kinit() has made a list of all pages.
LEMMA Initially == ASSUME SysinfoAssumption, Init PROVE IInv
<1> USE SysinfoAssumption
<1>1. TypeOK
  BY DEF Init, TypeOK, Pages, Slots, Null, Labels
<1>2. HoldInv
  BY DEF Init, HoldInv, Transit
<1>3. FreePages = Pages
  BY DEF Init, FreePages, InTransit
<1>4. NFree = NPAGES
  BY <1>3, FS_Interval DEF NFree, Pages
<1> DEFINE z == [k \in 1 .. NPAGES |-> NPAGES + 1 - k]
<1>5. \A k \in 1 .. NPAGES : NPAGES + 1 - k \in 1 .. NPAGES /\ z[k] = NPAGES + 1 - k
  OBVIOUS
<1>6. z \in [1 .. NFree -> FreePages]
  BY <1>3, <1>4, <1>5 DEF Pages
<1>7. {z[k] : k \in 1 .. NPAGES} = Pages
  <2>1. ASSUME NEW p \in Pages PROVE \E k \in 1 .. NPAGES : z[k] = p
    <3>1. NPAGES + 1 - p \in 1 .. NPAGES /\ NPAGES + 1 - (NPAGES + 1 - p) = p
      BY DEF Pages
    <3> QED
      BY <1>5, <3>1
  <2> QED
    BY <1>5, <2>1 DEF Pages
<1>8. \A k, l \in 1 .. NPAGES : z[k] = z[l] => k = l
  BY <1>5
<1>9. freelist = IF NPAGES = 0 THEN Null ELSE z[1]
  BY <1>5 DEF Init, Null
<1>10. \A k \in 1 .. NPAGES :
         word[z[k]] = IF k = NPAGES THEN Null ELSE z[k + 1]
  BY <1>5 DEF Init, Pages, Null
<1> HIDE DEF z
<1>11. ListOK
  BY <1>3, <1>4, <1>6, <1>7, <1>8, <1>9, <1>10 DEF ListOK, IsFreelist
<1>12. CountInv
  BY DEF Init, CountInv
<1> QED
  BY <1>1, <1>2, <1>11, <1>12 DEF IInv

\* The invariant holds in every state of the allocator and of sysinf().
THEOREM Invariant == Spec => []IInv
<1>1. Init => IInv
  BY SysinfoAssumption, Initially
<1>2. IInv /\ [Next]_vars => IInv'
  BY SysinfoAssumption, StepTypes, StepHolds, StepLists, StepCounts DEF IInv
<1> QED
  BY <1>1, <1>2, PTL DEF Spec

\* Every variable keeps its type: kalloc() and kfree() put into kmem.freelist
\* and into the pages only pointers to pages, whoever runs between their steps.
THEOREM Types == Spec => []TypeOK
<1>1. IInv => TypeOK
  BY DEF IInv
<1> QED
  BY <1>1, Invariant, PTL

\* The free list has every free page once, no other page, and ends.
THEOREM ListOfFreePages == Spec => []ListOK
<1>1. IInv => ListOK
  BY DEF IInv
<1> QED
  BY <1>1, Invariant, PTL

\* kalloc() never returns a page that another thread has.
THEOREM PagesHaveOneUser == Spec => []OneUser
<1>1. IInv => OneUser
  BY PageNotNull DEF IInv, HoldInv, TypeOK, OneUser, Transit, Labels
<1> QED
  BY <1>1, Invariant, PTL

\* sysinf() returns the number of free pages and of used slots, if nothing is
\* allocated, freed, forked or waited for while it counts.
THEOREM CountsAreExact == Spec => []CountsExact
<1>1. ASSUME IInv PROVE CountsExact
  <2> SUFFICES ASSUME NEW t \in Threads, undisturbed[t]
               PROVE  /\ pc[t] = "getbytes" /\ at[t] = Null => nbytes[t] = NFree
                      /\ pc[t] = "getnprcs" /\ i[t] = NPROC =>
                           cnt[t] = Cardinality(used)
    BY DEF CountsExact, NFree
  <2>1. ASSUME pc[t] = "getbytes", at[t] = Null PROVE nbytes[t] = NFree
    <3>1. ListCounted(t)
      BY <1>1, <2>1 DEF IInv, CountInv
    <3>2. PICK s \in [1 .. NFree -> FreePages] : IsFreelist(s)
      BY <1>1 DEF IInv, ListOK
    <3>3. nbytes[t] # NFree => nbytes[t] + 1 \in 1 .. NFree
      BY <1>1, <3>1, SysinfoAssumption, FreeFinite DEF IInv, TypeOK, ListCounted
    <3>4. nbytes[t] # NFree => at[t] \in Pages
      BY <3>1, <3>2, <3>3 DEF ListCounted, FreePages
    <3> QED
      BY <2>1, <3>4, PageNotNull
  <2>2. ASSUME pc[t] = "getnprcs", i[t] = NPROC PROVE cnt[t] = Cardinality(used)
    <3>1. SlotsCounted(t)
      BY <1>1, <2>2 DEF IInv, CountInv
    <3> QED
      BY <1>1, <2>2, <3>1, SysinfoAssumption, OneSlotMore
      DEF IInv, TypeOK, SlotsCounted
  <2> QED
    BY <2>1, <2>2
<1> QED
  BY <1>1, Invariant, PTL
=============================================================================
