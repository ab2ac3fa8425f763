------------------------------ MODULE VmProofs ------------------------------
(***************************************************************************)
(* That page tables keep what they map apart, proved for any number of     *)
(* processes and pages, any size of a page, and any calls.                 *)
(*                                                                         *)
(* The argument: there is a labelling of the physical pages that says of   *)
(* each which process uses it, as a table of which level or as data, and   *)
(* under which indices (Tree).  Whatever page a process's tables lead to   *)
(* has the label of the way it is reached by, so it is reached by no other *)
(* way.  walk() and mappages() give labels to pages that were free and had *)
(* none (Kept); uvmunmap() and exit() free pages no other way leads to;    *)
(* and what the program and copyout() write goes to pages that are labelled*)
(* as data, so that no table changes (Alike).  That copyout() gets there   *)
(* needs that the pages a process is supposed to have are all mapped (Has).*)
(* Every step changes only pages that are labelled for one process (Others),*)
(* so that what the other processes have stays as it is (Alone).           *)
(***************************************************************************)
EXTENDS Vm, FiniteSetTheorems, WellFoundedInduction, TLAPS

-----------------------------------------------------------------------------
\* The invariant

Flags == {"V", "R", "W", "X", "U", "A"}

\* The table below the entry x of the root rt, the one below its entry y, and the
\* page behind the entry z of that; Null when there is none.
Mid(mm, rt, x)        == Down(mm, rt, x)
Low(mm, rt, x, y)     == Down(mm, Mid(mm, rt, x), y)
Leaf(mm, rt, x, y, z) == Down(mm, Low(mm, rt, x, y), z)

\* No valid entry leads nowhere.
Ptes == {c \in Cells : "V" \in c.flags => c.pa # Null}

\* The memory m is what it is taken for.
Contents(m) ==
  /\ m = [mem |-> m.mem, free |-> m.free]
  /\ m.mem \in [Phys -> [Offsets -> Ptes]]
  /\ m.free \in SUBSET Phys
  /\ \A q \in m.free : m.mem[q] = Fill(Junk)

\* Whatever page the tables of p lead to is in use, and is at the place that lab
\* says it is at; so it is at no other.
Tree(mm, fr, lab, p, rt) ==
  /\ rt \in Phys \ fr /\ lab[rt] = <<p, 2, 0, 0, 0>>
  /\ \A x \in Offsets : Mid(mm, rt, x) # Null =>
       Mid(mm, rt, x) \in Phys \ fr /\ lab[Mid(mm, rt, x)] = <<p, 1, x, 0, 0>>
  /\ \A x, y \in Offsets : Low(mm, rt, x, y) # Null =>
       Low(mm, rt, x, y) \in Phys \ fr /\ lab[Low(mm, rt, x, y)] = <<p, 0, x, y, 0>>
  /\ \A x, y, z \in Offsets : Leaf(mm, rt, x, y, z) \in Phys =>
       /\ Leaf(mm, rt, x, y, z) \notin fr
       /\ lab[Leaf(mm, rt, x, y, z)] = <<p, 3, x, y, z>>

\* Every process that has the root rts[p] has such tables.
Tidy(m, lab, rts) ==
  /\ Contents(m)
  /\ \A p \in Slots : rts[p] # Null => Tree(m.mem, m.free, lab, p, rts[p])

\* There is a physical page at pg.
Has(mm, rt, pg) == Leaf(mm, rt, PX(2, pg), PX(1, pg), PX(0, pg)) \in Phys

VTypeOK ==
  /\ Contents(Memory)
  /\ root \in [Slots -> Phys \cup {Null}] /\ sz \in [Slots -> 0 .. MaxSz]
  /\ nextpid \in Nat /\ panicked \in BOOLEAN

VmInv ==
  /\ VTypeOK
  /\ \E lab : Tidy(Memory, lab, root)
  /\ \A p \in Live : \A pg \in Needed(p) : Has(mem, root[p], pg)

-----------------------------------------------------------------------------
\* Pages and indices

Vpns == {pg \in Nat : PX(2, pg) < PGSIZE}

LEMMA Consts ==
  /\ PGSIZE \in Nat /\ PGSIZE >= 3 /\ NPages \in Nat /\ NPages >= 8
  /\ 0 \in Offsets /\ Null \notin Phys /\ KernelText \notin Phys
  /\ KernelText \in Nat \ {Null} /\ Phys \subseteq Nat \ {Null}
  BY VmAssumption DEF Offsets, Null, Phys, KernelText

\* n % d and n \div d are what is left and how often d goes into n,
LEMMA DivDef ==
  ASSUME NEW n \in Nat, NEW d \in Nat \ {0}
  PROVE  n % d \in 0 .. d - 1 /\ n \div d \in Nat /\ n = d * (n \div d) + (n % d)
  OBVIOUS

LEMMA Times ==
  ASSUME NEW a \in Nat, NEW b \in Nat
  PROVE  a * b \in Nat
  OBVIOUS

LEMMA TimesLe ==
  ASSUME NEW a \in Nat, NEW b \in Nat, NEW d \in Nat, a <= b
  PROVE  d * a <= d * b
  OBVIOUS

\* and they are the only such numbers.
LEMMA DivUnique ==
  ASSUME NEW n \in Nat, NEW d \in Nat \ {0}, NEW q \in Nat, NEW r \in 0 .. d - 1,
         n = d * q + r
  PROVE  n \div d = q /\ n % d = r
<1> DEFINE u == n \div d
           v == n % d
<1>1. v \in 0 .. d - 1 /\ u \in Nat /\ n = d * u + v
  BY DivDef
<1> HIDE DEF u, v
<1>2. ASSUME u < q PROVE FALSE
  <2>1. d * (u + 1) <= d * q
    BY <1>1, <1>2, TimesLe
  <2>2. d * (u + 1) = d * u + d
    BY <1>1
  <2>3. d * u \in Nat /\ d * q \in Nat
    BY <1>1, Times
  <2> QED
    BY <1>1, <2>1, <2>2, <2>3
<1>3. ASSUME q < u PROVE FALSE
  <2>1. d * (q + 1) <= d * u
    BY <1>1, <1>3, TimesLe
  <2>2. d * (q + 1) = d * q + d
    BY <1>1
  <2>3. d * u \in Nat /\ d * q \in Nat
    BY <1>1, Times
  <2> QED
    BY <1>1, <2>1, <2>2, <2>3
<1>4. u = q
  BY <1>1, <1>2, <1>3
<1>5. v = r
  <2>1. d * q \in Nat
    BY Times
  <2> QED
    BY <1>1, <1>4, <2>1
<1> QED
  BY <1>4, <1>5 DEF u, v

LEMMA PXType ==
  ASSUME NEW pg \in Vpns
  PROVE  PX(2, pg) \in Offsets /\ PX(1, pg) \in Offsets /\ PX(0, pg) \in Offsets
<1>1. PGSIZE \in Nat \ {0} /\ PGSIZE * PGSIZE \in Nat \ {0}
  BY VmAssumption
<1>2. pg \div PGSIZE \in Nat /\ pg % PGSIZE \in 0 .. PGSIZE - 1
      /\ (pg \div PGSIZE) % PGSIZE \in 0 .. PGSIZE - 1
  BY <1>1, DivDef DEF Vpns
<1>3. pg \div (PGSIZE * PGSIZE) \in Nat
  BY <1>1, DivDef DEF Vpns
<1>4. PX(2, pg) \in Nat /\ PX(2, pg) < PGSIZE
  BY <1>3 DEF PX, Vpns
<1> QED
  BY <1>1, <1>2, <1>4 DEF PX, Offsets

\* How the indices make up the page.
LEMMA PXSum ==
  ASSUME NEW pg \in Nat
  PROVE  /\ PX(2, pg) = (pg \div PGSIZE) \div PGSIZE
         /\ pg = PGSIZE * (PGSIZE * PX(2, pg) + PX(1, pg)) + PX(0, pg)
         /\ PX(2, pg) \in Nat /\ PX(1, pg) \in Nat /\ PX(0, pg) \in Nat
<1> DEFINE S == PGSIZE
           u == pg \div S
           v == pg % S
           a == u \div S
           b == u % S
<1>1. S \in Nat \ {0}
  BY VmAssumption
<1>2. v \in 0 .. S - 1 /\ u \in Nat /\ pg = S * u + v
  BY <1>1, DivDef
<1>3. b \in 0 .. S - 1 /\ a \in Nat /\ u = S * a + b
  BY <1>1, <1>2, DivDef
<1> HIDE DEF u, v, a, b
<1>4. S * S \in Nat \ {0} /\ S * b + v \in Nat /\ S * b + v < S * S
  <2>1. S * b <= S * (S - 1)
    BY <1>1, <1>3, TimesLe
  <2>2. S * (S - 1) = S * S - S
    BY <1>1
  <2>3. S * b \in Nat /\ S * S \in Nat /\ S * S # 0
    BY <1>1, <1>3, Times
  <2> QED
    BY <1>1, <1>2, <2>1, <2>2, <2>3
<1>5. pg = (S * S) * a + (S * b + v)
  <2>1. S * (S * a + b) = (S * S) * a + S * b
    BY <1>1, <1>3
  <2> QED
    BY <1>1, <1>2, <1>3, <2>1
<1>6. pg \div (S * S) = a
  <2>1. S * b + v \in 0 .. S * S - 1
    BY <1>4
  <2> QED
    BY <1>3, <1>4, <1>5, <2>1, DivUnique
<1>7. PX(2, pg) = a /\ PX(1, pg) = b /\ PX(0, pg) = v
  BY <1>6 DEF PX, a, b, u, v
<1> QED
  BY <1>2, <1>3, <1>7 DEF a, u

LEMMA PXUnique ==
  ASSUME NEW pg \in Nat, NEW pn \in Nat, PX(2, pg) = PX(2, pn),
         PX(1, pg) = PX(1, pn), PX(0, pg) = PX(0, pn)
  PROVE  pg = pn
  BY PXSum

\* The three pages at the top have one table in common.
LEMMA Top ==
  ASSUME NEW pg \in {TRAMPOLINE, TRAPFRAME, USYSCALL}
  PROVE  /\ pg \in Vpns
         /\ PX(2, pg) = 1 /\ PX(1, pg) = PGSIZE - 1
<1> DEFINE S == PGSIZE
<1>1. S \in Nat \ {0} /\ S >= 3
  BY VmAssumption
<1>2. PICK k \in 1 .. 3 : pg = 2 * S * S - k
  BY DEF TRAMPOLINE, TRAPFRAME, USYSCALL, MaxVaPage
<1>3. pg = S * (2 * S - 1) + (S - k) /\ S - k \in 0 .. S - 1 /\ 2 * S - 1 \in Nat
  <2>1. S * (2 * S - 1) = 2 * S * S - S
    BY <1>1
  <2> QED
    BY <1>1, <1>2, <2>1
<1>4. S * (2 * S - 1) \in Nat
  BY <1>1, <1>3, Times
<1>5. pg \in Nat
  BY <1>1, <1>3, <1>4
<1>6. pg \div S = 2 * S - 1
  BY <1>1, <1>3, <1>5, DivUnique
<1>7. (2 * S - 1) \div S = 1 /\ (2 * S - 1) % S = S - 1
  <2>1. 2 * S - 1 = S * 1 + (S - 1) /\ S - 1 \in 0 .. S - 1
    BY <1>1
  <2> QED
    BY <1>1, <1>3, <2>1, DivUnique
<1>8. PX(2, pg) = 1
  BY <1>5, <1>6, <1>7, PXSum
<1>9. PX(1, pg) = S - 1
  BY <1>6, <1>7 DEF PX
<1> QED
  BY <1>1, <1>5, <1>8, <1>9 DEF Vpns

\* Pages below MAXVA can be walked to.
LEMMA BelowMax ==
  ASSUME NEW pg \in Nat, pg < MaxVaPage
  PROVE  pg \in Vpns
<1>1. PGSIZE \in Nat \ {0} /\ PGSIZE >= 3
  BY VmAssumption
<1> DEFINE T == PGSIZE * PGSIZE
           u == pg \div T
<1>2. T \in Nat \ {0}
  BY <1>1
<1> HIDE DEF T
<1>3. u \in Nat /\ pg % T \in 0 .. T - 1 /\ pg = T * u + (pg % T)
  BY <1>2, DivDef
<1> HIDE DEF u
<1>4. pg < T * 2
  BY <1>1 DEF MaxVaPage, T
<1>5. u < 2
  <2>1. SUFFICES ASSUME 2 <= u PROVE FALSE
    BY <1>3
  <2>2. T * 2 <= T * u
    BY <1>2, <1>3, <2>1, TimesLe
  <2>3. T * u \in Nat /\ T * 2 \in Nat
    BY <1>2, <1>3, Times
  <2> QED
    BY <1>3, <1>4, <2>2, <2>3
<1> QED
  BY <1>1, <1>3, <1>5 DEF PX, Vpns, u, T

LEMMA MaxVa ==
  /\ MaxVaPage \in Nat /\ USYSCALL \in Nat /\ USYSCALL < TRAPFRAME
  /\ TRAPFRAME < TRAMPOLINE /\ TRAMPOLINE < MaxVaPage
  /\ TRAPFRAME \in Nat /\ TRAMPOLINE \in Nat
<1>1. PGSIZE \in Nat /\ PGSIZE >= 3
  BY VmAssumption
<1>2. 2 * PGSIZE * PGSIZE \in Nat /\ 2 * PGSIZE * PGSIZE >= 18
  <2>1. PGSIZE * 3 <= PGSIZE * PGSIZE
    BY <1>1, TimesLe
  <2>2. PGSIZE * PGSIZE \in Nat
    BY <1>1, Times
  <2>3. 2 * PGSIZE * PGSIZE = 2 * (PGSIZE * PGSIZE)
    BY <1>1
  <2> QED
    BY <1>1, <2>1, <2>2, <2>3
<1> QED
  BY <1>2 DEF MaxVaPage, USYSCALL, TRAPFRAME, TRAMPOLINE

-----------------------------------------------------------------------------
\* Trees

\* Two cells that lead to the same page, if to any.
Same(c, d) == ("V" \in c.flags <=> "V" \in d.flags) /\ c.pa = d.pa

LEMMA DownSame ==
  ASSUME NEW mm, NEW nn, NEW t, NEW x, t # Null => Same(nn[t][x], mm[t][x])
  PROVE  Down(nn, t, x) = Down(mm, t, x)
  BY DEF Down, Same

LEMMA DownNull ==
  ASSUME NEW mm, NEW x
  PROVE  Down(mm, Null, x) = Null
  BY DEF Down

\* What the process p uses stays in use and keeps its place, and its tables lead
\* where they led.
Still(mm, fr, lab, nn, gr, law, p) ==
  \A q \in Phys \ fr : lab[q][1] = p =>
    /\ q \notin gr /\ law[q] = lab[q]
    /\ lab[q][2] # 3 => \A x \in Offsets : Same(nn[q][x], mm[q][x])

\* Then its tree stays as it is.
LEMMA Frame ==
  ASSUME NEW mm, NEW fr, NEW lab, NEW p, NEW rt, Tree(mm, fr, lab, p, rt),
         NEW nn, NEW gr, NEW law, Still(mm, fr, lab, nn, gr, law, p)
  PROVE  /\ Tree(nn, gr, law, p, rt)
         /\ \A x \in Offsets : Mid(nn, rt, x) = Mid(mm, rt, x)
         /\ \A x, y \in Offsets : Low(nn, rt, x, y) = Low(mm, rt, x, y)
         /\ \A x, y, z \in Offsets : Leaf(nn, rt, x, y, z) = Leaf(mm, rt, x, y, z)
<1>1. rt \in Phys \ fr /\ lab[rt] = <<p, 2, 0, 0, 0>>
  BY DEF Tree
<1>0. \A q \in Phys \ fr : lab[q][1] = p =>
        /\ q \notin gr /\ law[q] = lab[q]
        /\ lab[q][2] # 3 => \A x \in Offsets : Same(nn[q][x], mm[q][x])
  BY DEF Still
<1>2. \A x \in Offsets : Mid(nn, rt, x) = Mid(mm, rt, x)
  BY <1>0, <1>1, DownSame DEF Mid
<1>3. ASSUME NEW x \in Offsets, NEW y \in Offsets
      PROVE  Low(nn, rt, x, y) = Low(mm, rt, x, y)
  <2> DEFINE t == Mid(mm, rt, x)
  <2>1. t # Null => t \in Phys \ fr /\ lab[t] = <<p, 1, x, 0, 0>>
    BY DEF Tree
  <2>2. t # Null => Same(nn[t][y], mm[t][y])
    BY <1>0, <2>1
  <2> QED
    BY <1>2, <2>2, DownSame DEF Low
<1>4. ASSUME NEW x \in Offsets, NEW y \in Offsets, NEW z \in Offsets
      PROVE  Leaf(nn, rt, x, y, z) = Leaf(mm, rt, x, y, z)
  <2> DEFINE t == Low(mm, rt, x, y)
  <2>1. t # Null => t \in Phys \ fr /\ lab[t] = <<p, 0, x, y, 0>>
    BY DEF Tree
  <2>2. t # Null => Same(nn[t][z], mm[t][z])
    BY <1>0, <2>1
  <2> QED
    BY <1>3, <2>2, DownSame DEF Leaf
<1>5. Tree(nn, gr, law, p, rt)
  <2>1. rt \in Phys \ gr /\ law[rt] = <<p, 2, 0, 0, 0>>
    BY <1>0, <1>1
  <2>2. ASSUME NEW x \in Offsets, Mid(nn, rt, x) # Null
        PROVE  Mid(nn, rt, x) \in Phys \ gr /\ law[Mid(nn, rt, x)] = <<p, 1, x, 0, 0>>
    <3> DEFINE t == Mid(mm, rt, x)
    <3>1. t \in Phys \ fr /\ lab[t] = <<p, 1, x, 0, 0>>
      BY <1>2, <2>2 DEF Tree
    <3> QED
      BY <1>0, <1>2, <3>1
  <2>3. ASSUME NEW x \in Offsets, NEW y \in Offsets, Low(nn, rt, x, y) # Null
        PROVE  /\ Low(nn, rt, x, y) \in Phys \ gr
               /\ law[Low(nn, rt, x, y)] = <<p, 0, x, y, 0>>
    <3> DEFINE t == Low(mm, rt, x, y)
    <3>1. t \in Phys \ fr /\ lab[t] = <<p, 0, x, y, 0>>
      BY <1>3, <2>3 DEF Tree
    <3> QED
      BY <1>0, <1>3, <3>1
  <2>4. ASSUME NEW x \in Offsets, NEW y \in Offsets, NEW z \in Offsets,
               Leaf(nn, rt, x, y, z) \in Phys
        PROVE  /\ Leaf(nn, rt, x, y, z) \notin gr
               /\ law[Leaf(nn, rt, x, y, z)] = <<p, 3, x, y, z>>
    <3> DEFINE t == Leaf(mm, rt, x, y, z)
    <3>1. t \in Phys \ fr /\ lab[t] = <<p, 3, x, y, z>>
      BY <1>4, <2>4 DEF Tree
    <3> QED
      BY <1>0, <1>4, <3>1
  <2> QED
    BY <2>1, <2>2, <2>3, <2>4 DEF Tree
<1> QED
  BY <1>2, <1>3, <1>4, <1>5

-----------------------------------------------------------------------------
\* kalloc()

LEMMA CellTypes ==
  /\ Zero \in Ptes /\ Junk \in Ptes
  /\ \A v \in Nat : Num(v) \in Ptes
  /\ \A fl \in SUBSET Flags, pa \in Nat \ {Null} : Pte(fl, pa) \in Ptes
  /\ \A c \in Ptes : Fill(c) \in [Offsets -> Ptes]
  BY DEF Zero, Junk, Num, Pte, Ptes, Cells, Null, Flags, Fill

LEMMA LeastOf ==
  ASSUME NEW S \in SUBSET Nat, S # {}
  PROVE  Min(S) \in S /\ \A k \in S : Min(S) <= k
<1> DEFINE R == {ss \in Nat \X Nat : ss[1] < ss[2]}
<1>1. IsWellFoundedOn(R, Nat)
  BY NatLessThanWellFounded DEF OpToRel
<1> HIDE DEF R
<1>2. PICK m \in S : \A y \in S : ~ (<<y, m>> \in R)
  BY <1>1, WFMin
<1>3. ASSUME NEW k \in S
      PROVE  m <= k
  <2>1. m \in Nat /\ k \in Nat
    OBVIOUS
  <2>2. ~ (k < m)
    BY <1>2, <2>1 DEF R
  <2> QED
    BY <2>1, <2>2
<1> QED
  BY <1>3 DEF Min

LEMMA PageFree ==
  ASSUME NEW m, Contents(m), m.free # {}
  PROVE  Page(m) \in m.free /\ Page(m) \in Phys
  BY LeastOf, Consts DEF Contents, Page

\* The places when q has got the place l.
Moved(lab, q, l) == [r \in Phys |-> IF r = q THEN l ELSE lab[r]]

\* What was mapped is mapped, but perhaps for the pages P of p.
StillHas(m, n, rts, p, P) ==
  \A r \in Slots, pg \in Vpns :
    rts[r] # Null /\ Has(m.mem, rts[r], pg) /\ (r = p => pg \notin P) =>
      Has(n.mem, rts[r], pg)

\* What others than p use is in use, where it was, with the same on it.
Others(m, lab, n, law, p) ==
  \A h \in Phys \ m.free : lab[h][1] # p =>
    h \notin n.free /\ law[h] = lab[h] /\ n.mem[h] = m.mem[h]

\* And whatever was in use is in use, where it was.
Kept(m, lab, n, law, rts, p, P) ==
  /\ \A q \in Phys \ m.free : q \notin n.free /\ law[q] = lab[q]
  /\ StillHas(m, n, rts, p, P)
  /\ Others(m, lab, n, law, p)

LEMMA TakeTidy ==
  ASSUME NEW m, NEW lab, NEW rts, Tidy(m, lab, rts), m.free # {},
         NEW c \in [Offsets -> Ptes], NEW l
  PROVE  LET n == Take(m, c)
             h == Page(m)
         IN  /\ Tidy(n, Moved(lab, h, l), rts)
             /\ h \in Phys /\ h \in m.free /\ n.free = m.free \ {h} /\ n.mem[h] = c
             /\ \A q \in Phys \ m.free : Moved(lab, h, l)[q] = lab[q]
             /\ Moved(lab, h, l)[h] = l
             /\ \A q \in Phys \ {h} : n.mem[q] = m.mem[q]
             /\ \A p \in Slots : rts[p] # Null =>
                  /\ \A x \in Offsets : Mid(n.mem, rts[p], x) = Mid(m.mem, rts[p], x)
                  /\ \A x, y \in Offsets :
                       Low(n.mem, rts[p], x, y) = Low(m.mem, rts[p], x, y)
                  /\ \A x, y, z \in Offsets :
                       Leaf(n.mem, rts[p], x, y, z) = Leaf(m.mem, rts[p], x, y, z)
<1> DEFINE n == Take(m, c)
           h == Page(m)
           law == Moved(lab, h, l)
<1>1. h \in Phys /\ h \in m.free
  BY PageFree DEF Tidy
<1>2. m.mem \in [Phys -> [Offsets -> Ptes]] /\ m.free \in SUBSET Phys
  BY DEF Tidy, Contents
<1>3. n.free = m.free \ {h} /\ n.mem = [m.mem EXCEPT ![h] = c]
      /\ n = [mem |-> n.mem, free |-> n.free]
  BY DEF Take
<1>4. n.mem[h] = c /\ \A q \in Phys \ {h} : n.mem[q] = m.mem[q]
  BY <1>1, <1>2, <1>3
<1>5. law[h] = l /\ \A q \in Phys \ {h} : law[q] = lab[q]
  BY <1>1 DEF Moved
<1>6. Contents(n)
  <2>1. n.mem \in [Phys -> [Offsets -> Ptes]]
    BY <1>1, <1>2, <1>3
  <2> QED
    BY <1>1, <1>2, <1>3, <1>4, <2>1 DEF Tidy, Contents
<1> HIDE DEF n, h, law
<1>7. ASSUME NEW p \in Slots, rts[p] # Null
      PROVE  /\ Tree(n.mem, n.free, law, p, rts[p])
             /\ \A x \in Offsets : Mid(n.mem, rts[p], x) = Mid(m.mem, rts[p], x)
             /\ \A x, y \in Offsets : Low(n.mem, rts[p], x, y) = Low(m.mem, rts[p], x, y)
             /\ \A x, y, z \in Offsets :
                  Leaf(n.mem, rts[p], x, y, z) = Leaf(m.mem, rts[p], x, y, z)
  <2>1. Tree(m.mem, m.free, lab, p, rts[p])
    BY <1>7 DEF Tidy
  <2>2. \A q \in Phys \ m.free : q \notin n.free /\ law[q] = lab[q] /\ n.mem[q] = m.mem[q]
    BY <1>1, <1>3, <1>4, <1>5
  <2>3. Still(m.mem, m.free, lab, n.mem, n.free, law, p)
    BY <2>2 DEF Same, Still
  <2> QED
    BY <2>1, <2>3, Frame
<1>8. Tidy(n, law, rts)
  BY <1>6, <1>7 DEF Tidy
<1>9. \A q \in Phys \ m.free : law[q] = lab[q]
  BY <1>1, <1>5
<1> QED
  BY <1>1, <1>3, <1>4, <1>5, <1>7, <1>8, <1>9 DEF n, h, law

-----------------------------------------------------------------------------
\* One entry is written

\* In the table t the entry x is c now.
Changed(mm, nn, t, x, c) ==
  /\ \A q \in Phys \ {t} : nn[q] = mm[q]
  /\ \A o \in Offsets \ {x} : nn[t][o] = mm[t][o]
  /\ nn[t][x] = c

\* An entry of the root gets a table without entries,
LEMMA InsertMid ==
  ASSUME NEW mm, NEW fr, NEW lab, NEW p, NEW rt, Tree(mm, fr, lab, p, rt),
         NEW x \in Offsets, Mid(mm, rt, x) = Null,
         NEW h \in Phys \ fr, lab[h] = <<p, 1, x, 0, 0>>,
         \A o \in Offsets : "V" \notin mm[h][o].flags,
         NEW nn, Changed(mm, nn, rt, x, Pte({"V"}, h))
  PROVE  /\ Tree(nn, fr, lab, p, rt)
         /\ Mid(nn, rt, x) = h
         /\ \A a, b, c \in Offsets : Leaf(mm, rt, a, b, c) \in Phys =>
              Leaf(nn, rt, a, b, c) = Leaf(mm, rt, a, b, c)
<1>1. rt \in Phys \ fr /\ lab[rt] = <<p, 2, 0, 0, 0>> /\ rt # Null /\ h # Null
  BY Consts DEF Tree
<1>2. h # rt
  BY <1>1
<1>3. /\ \A q \in Phys \ {rt} : nn[q] = mm[q]
      /\ \A o \in Offsets \ {x} : nn[rt][o] = mm[rt][o]
      /\ nn[rt][x].flags = {"V"} /\ nn[rt][x].pa = h
  BY DEF Changed, Pte
<1>4. Mid(nn, rt, x) = h
  BY <1>1, <1>3 DEF Mid, Down
<1>5. ASSUME NEW a \in Offsets, a # x
      PROVE  Mid(nn, rt, a) = Mid(mm, rt, a)
  BY <1>3, <1>5 DEF Mid, Down
<1>6. ASSUME NEW b \in Offsets
      PROVE  Low(nn, rt, x, b) = Null /\ Low(mm, rt, x, b) = Null
  <2>1. nn[h] = mm[h]
    BY <1>2, <1>3
  <2>2. Down(nn, h, b) = Null
    BY <2>1 DEF Down
  <2> QED
    BY <1>4, <2>2, DownNull DEF Low
<1>7. ASSUME NEW a \in Offsets, a # x, NEW b \in Offsets
      PROVE  Low(nn, rt, a, b) = Low(mm, rt, a, b)
  <2> DEFINE t == Mid(mm, rt, a)
  <2>1. t # Null => t \in Phys /\ t # rt
    BY <1>1 DEF Tree
  <2>2. t # Null => nn[t] = mm[t]
    BY <1>3, <2>1
  <2> HIDE DEF t
  <2>3. Down(nn, t, b) = Down(mm, t, b)
    BY <2>2 DEF Down
  <2> QED
    BY <1>5, <1>7, <2>3 DEF Low, t
<1>8. ASSUME NEW b \in Offsets, NEW c \in Offsets
      PROVE  Leaf(nn, rt, x, b, c) = Null /\ Leaf(mm, rt, x, b, c) = Null
  BY <1>6, DownNull DEF Leaf
<1>9. ASSUME NEW a \in Offsets, a # x, NEW b \in Offsets, NEW c \in Offsets
      PROVE  Leaf(nn, rt, a, b, c) = Leaf(mm, rt, a, b, c)
  <2> DEFINE t == Low(mm, rt, a, b)
  <2>1. t # Null => t \in Phys /\ t # rt
    BY <1>1 DEF Tree
  <2>2. t # Null => nn[t] = mm[t]
    BY <1>3, <2>1
  <2> HIDE DEF t
  <2>3. Down(nn, t, c) = Down(mm, t, c)
    BY <2>2 DEF Down
  <2> QED
    BY <1>7, <1>9, <2>3 DEF Leaf, t
<1>10. Tree(nn, fr, lab, p, rt)
  <2>1. ASSUME NEW a \in Offsets, Mid(nn, rt, a) # Null
        PROVE  Mid(nn, rt, a) \in Phys \ fr /\ lab[Mid(nn, rt, a)] = <<p, 1, a, 0, 0>>
    BY <1>4, <1>5, <2>1 DEF Tree
  <2>2. ASSUME NEW a \in Offsets, NEW b \in Offsets, Low(nn, rt, a, b) # Null
        PROVE  /\ Low(nn, rt, a, b) \in Phys \ fr
               /\ lab[Low(nn, rt, a, b)] = <<p, 0, a, b, 0>>
    BY <1>6, <1>7, <2>2 DEF Tree
  <2>3. ASSUME NEW a \in Offsets, NEW b \in Offsets, NEW c \in Offsets,
               Leaf(nn, rt, a, b, c) \in Phys
        PROVE  /\ Leaf(nn, rt, a, b, c) \notin fr
               /\ lab[Leaf(nn, rt, a, b, c)] = <<p, 3, a, b, c>>
    BY <1>8, <1>9, <2>3, Consts DEF Tree
  <2> QED
    BY <1>1, <2>1, <2>2, <2>3 DEF Tree
<1>11. ASSUME NEW a \in Offsets, NEW b \in Offsets, NEW c \in Offsets,
              Leaf(mm, rt, a, b, c) \in Phys
       PROVE  Leaf(nn, rt, a, b, c) = Leaf(mm, rt, a, b, c)
  BY <1>8, <1>9
<1> QED
  BY <1>4, <1>10, <1>11

\* or one of a table below the root.
LEMMA InsertLow ==
  ASSUME NEW mm, NEW fr, NEW lab, NEW p, NEW rt, Tree(mm, fr, lab, p, rt),
         NEW x \in Offsets, NEW y \in Offsets, Mid(mm, rt, x) # Null,
         Low(mm, rt, x, y) = Null,
         NEW h \in Phys \ fr, lab[h] = <<p, 0, x, y, 0>>,
         \A o \in Offsets : "V" \notin mm[h][o].flags,
         NEW nn, Changed(mm, nn, Mid(mm, rt, x), y, Pte({"V"}, h))
  PROVE  /\ Tree(nn, fr, lab, p, rt)
         /\ Low(nn, rt, x, y) = h
         /\ \A a, b, c \in Offsets : Leaf(mm, rt, a, b, c) \in Phys =>
              Leaf(nn, rt, a, b, c) = Leaf(mm, rt, a, b, c)
<1> DEFINE m == Mid(mm, rt, x)
<1>1. /\ rt \in Phys \ fr /\ lab[rt] = <<p, 2, 0, 0, 0>> /\ rt # Null /\ h # Null
      /\ m \in Phys \ fr /\ lab[m] = <<p, 1, x, 0, 0>> /\ m # Null
  BY Consts DEF Tree
<1>2. h # rt /\ h # m /\ m # rt
  BY <1>1
<1>3. /\ \A q \in Phys \ {m} : nn[q] = mm[q]
      /\ \A o \in Offsets \ {y} : nn[m][o] = mm[m][o]
      /\ nn[m][y].flags = {"V"} /\ nn[m][y].pa = h
  BY DEF Changed, Pte
<1> HIDE DEF m
<1>4. ASSUME NEW a \in Offsets
      PROVE  Mid(nn, rt, a) = Mid(mm, rt, a)
  <2>1. nn[rt] = mm[rt]
    BY <1>1, <1>2, <1>3
  <2> QED
    BY <2>1 DEF Mid, Down
<1>5. Low(nn, rt, x, y) = h
  BY <1>1, <1>3, <1>4 DEF Low, Down, m
<1>6. ASSUME NEW a \in Offsets, NEW b \in Offsets, <<a, b>> # <<x, y>>
      PROVE  Low(nn, rt, a, b) = Low(mm, rt, a, b)
  <2> DEFINE t == Mid(mm, rt, a)
  <2>1. t # Null => t \in Phys /\ lab[t] = <<p, 1, a, 0, 0>>
    BY DEF Tree
  <2>2. t # Null => nn[t][b] = mm[t][b]
    <3>1. CASE a = x
      <4>1. t = m /\ b # y
        BY <1>6, <3>1 DEF m
      <4> QED
        BY <1>3, <4>1
    <3>2. CASE a # x
      BY <1>1, <1>3, <2>1, <3>2
    <3> QED
      BY <3>1, <3>2
  <2> HIDE DEF t
  <2>3. Down(nn, t, b) = Down(mm, t, b)
    BY <2>2 DEF Down
  <2> QED
    BY <1>4, <2>3 DEF Low, t
<1>7. ASSUME NEW c \in Offsets
      PROVE  Leaf(nn, rt, x, y, c) = Null /\ Leaf(mm, rt, x, y, c) = Null
  <2>1. nn[h] = mm[h]
    BY <1>2, <1>3
  <2>2. Down(nn, h, c) = Null
    BY <2>1 DEF Down
  <2> QED
    BY <1>5, <2>2, DownNull DEF Leaf
<1>8. ASSUME NEW a \in Offsets, NEW b \in Offsets, <<a, b>> # <<x, y>>, NEW c \in Offsets
      PROVE  Leaf(nn, rt, a, b, c) = Leaf(mm, rt, a, b, c)
  <2> DEFINE t == Low(mm, rt, a, b)
  <2>1. t # Null => t \in Phys /\ lab[t] = <<p, 0, a, b, 0>>
    BY DEF Tree
  <2>2. t # Null => nn[t] = mm[t]
    BY <1>1, <1>3, <2>1
  <2> HIDE DEF t
  <2>3. Down(nn, t, c) = Down(mm, t, c)
    BY <2>2 DEF Down
  <2> QED
    BY <1>6, <1>8, <2>3 DEF Leaf, t
<1>9. Tree(nn, fr, lab, p, rt)
  <2>1. ASSUME NEW a \in Offsets, Mid(nn, rt, a) # Null
        PROVE  Mid(nn, rt, a) \in Phys \ fr /\ lab[Mid(nn, rt, a)] = <<p, 1, a, 0, 0>>
    BY <1>4, <2>1 DEF Tree
  <2>2. ASSUME NEW a \in Offsets, NEW b \in Offsets, Low(nn, rt, a, b) # Null
        PROVE  /\ Low(nn, rt, a, b) \in Phys \ fr
               /\ lab[Low(nn, rt, a, b)] = <<p, 0, a, b, 0>>
    BY <1>5, <1>6, <2>2 DEF Tree
  <2>3. ASSUME NEW a \in Offsets, NEW b \in Offsets, NEW c \in Offsets,
               Leaf(nn, rt, a, b, c) \in Phys
        PROVE  /\ Leaf(nn, rt, a, b, c) \notin fr
               /\ lab[Leaf(nn, rt, a, b, c)] = <<p, 3, a, b, c>>
    BY <1>7, <1>8, <2>3, Consts DEF Tree
  <2> QED
    BY <1>1, <2>1, <2>2, <2>3 DEF Tree
<1>10. ASSUME NEW a \in Offsets, NEW b \in Offsets, NEW c \in Offsets,
              Leaf(mm, rt, a, b, c) \in Phys
       PROVE  Leaf(nn, rt, a, b, c) = Leaf(mm, rt, a, b, c)
  BY <1>7, <1>8, <1>10, Consts
<1> QED
  BY <1>5, <1>9, <1>10

\* A page is mapped, or something else that is no page.
LEMMA InsertLeaf ==
  ASSUME NEW mm, NEW fr, NEW lab, NEW p, NEW rt, Tree(mm, fr, lab, p, rt),
         NEW x \in Offsets, NEW y \in Offsets, NEW z \in Offsets,
         Low(mm, rt, x, y) # Null,
         NEW e, "V" \in e.flags,
         e.pa \in Phys => e.pa \notin fr /\ lab[e.pa] = <<p, 3, x, y, z>>,
         NEW nn, Changed(mm, nn, Low(mm, rt, x, y), z, e)
  PROVE  /\ Tree(nn, fr, lab, p, rt)
         /\ \A a, b \in Offsets : Low(nn, rt, a, b) = Low(mm, rt, a, b)
         /\ Leaf(nn, rt, x, y, z) = e.pa
         /\ \A a, b, c \in Offsets : <<a, b, c>> # <<x, y, z>> =>
              Leaf(nn, rt, a, b, c) = Leaf(mm, rt, a, b, c)
<1> DEFINE l == Low(mm, rt, x, y)
<1>1. /\ rt \in Phys \ fr /\ lab[rt] = <<p, 2, 0, 0, 0>> /\ rt # Null
      /\ l \in Phys \ fr /\ lab[l] = <<p, 0, x, y, 0>> /\ l # Null
  BY Consts DEF Tree
<1>2. l # rt
  BY <1>1
<1>3. /\ \A q \in Phys \ {l} : nn[q] = mm[q]
      /\ \A o \in Offsets \ {z} : nn[l][o] = mm[l][o]
      /\ nn[l][z] = e
  BY DEF Changed
<1> HIDE DEF l
<1>4. ASSUME NEW a \in Offsets
      PROVE  Mid(nn, rt, a) = Mid(mm, rt, a)
  <2>1. nn[rt] = mm[rt]
    BY <1>1, <1>2, <1>3
  <2> QED
    BY <2>1 DEF Mid, Down
<1>5. ASSUME NEW a \in Offsets, NEW b \in Offsets
      PROVE  Low(nn, rt, a, b) = Low(mm, rt, a, b)
  <2> DEFINE t == Mid(mm, rt, a)
  <2>1. t # Null => t \in Phys /\ lab[t] = <<p, 1, a, 0, 0>>
    BY DEF Tree
  <2>2. t # Null => nn[t] = mm[t]
    BY <1>1, <1>3, <2>1
  <2> HIDE DEF t
  <2>3. Down(nn, t, b) = Down(mm, t, b)
    BY <2>2 DEF Down
  <2> QED
    BY <1>4, <2>3 DEF Low, t
<1>6. Leaf(nn, rt, x, y, z) = e.pa
  BY <1>1, <1>3, <1>5 DEF Leaf, Down, l
<1>7. ASSUME NEW a \in Offsets, NEW b \in Offsets, NEW c \in Offsets,
             <<a, b, c>> # <<x, y, z>>
      PROVE  Leaf(nn, rt, a, b, c) = Leaf(mm, rt, a, b, c)
  <2> DEFINE t == Low(mm, rt, a, b)
  <2>1. t # Null => t \in Phys /\ lab[t] = <<p, 0, a, b, 0>>
    BY DEF Tree
  <2>2. t # Null => nn[t][c] = mm[t][c]
    <3>1. CASE a = x /\ b = y
      <4>1. t = l /\ c # z
        BY <1>7, <3>1 DEF l
      <4> QED
        BY <1>3, <4>1
    <3>2. CASE ~ (a = x /\ b = y)
      BY <1>1, <1>3, <2>1, <3>2
    <3> QED
      BY <3>1, <3>2
  <2> HIDE DEF t
  <2>3. Down(nn, t, c) = Down(mm, t, c)
    BY <2>2 DEF Down
  <2> QED
    BY <1>5, <2>3 DEF Leaf, t
<1>8. Tree(nn, fr, lab, p, rt)
  <2>1. ASSUME NEW a \in Offsets, Mid(nn, rt, a) # Null
        PROVE  Mid(nn, rt, a) \in Phys \ fr /\ lab[Mid(nn, rt, a)] = <<p, 1, a, 0, 0>>
    BY <1>4, <2>1 DEF Tree
  <2>2. ASSUME NEW a \in Offsets, NEW b \in Offsets, Low(nn, rt, a, b) # Null
        PROVE  /\ Low(nn, rt, a, b) \in Phys \ fr
               /\ lab[Low(nn, rt, a, b)] = <<p, 0, a, b, 0>>
    BY <1>5, <2>2 DEF Tree
  <2>3. ASSUME NEW a \in Offsets, NEW b \in Offsets, NEW c \in Offsets,
               Leaf(nn, rt, a, b, c) \in Phys
        PROVE  /\ Leaf(nn, rt, a, b, c) \notin fr
               /\ lab[Leaf(nn, rt, a, b, c)] = <<p, 3, a, b, c>>
    BY <1>6, <1>7, <2>3 DEF Tree
  <2> QED
    BY <1>1, <2>1, <2>2, <2>3 DEF Tree
<1> QED
  BY <1>5, <1>6, <1>7, <1>8

\* What is written to a table of p leaves the other trees as they are.
LEMMA PutTidy ==
  ASSUME NEW m, NEW lab, NEW rts, Tidy(m, lab, rts), NEW p \in Slots,
         NEW t \in Phys \ m.free, lab[t][1] = p, NEW x \in Offsets, NEW e \in Ptes
  PROVE  LET n == Put(m, t, x, e)
         IN  /\ Contents(n) /\ n.free = m.free
             /\ Changed(m.mem, n.mem, t, x, e)
             /\ \A r \in Slots \ {p} : rts[r] # Null =>
                  /\ Tree(n.mem, n.free, lab, r, rts[r])
                  /\ \A a, b, c \in Offsets :
                       Leaf(n.mem, rts[r], a, b, c) = Leaf(m.mem, rts[r], a, b, c)
<1> DEFINE n == Put(m, t, x, e)
<1>1. m.mem \in [Phys -> [Offsets -> Ptes]] /\ m.free \in SUBSET Phys
      /\ m = [mem |-> m.mem, free |-> m.free] /\ \A q \in m.free : m.mem[q] = Fill(Junk)
  BY DEF Tidy, Contents
<1>2. n = [mem |-> [m.mem EXCEPT ![t][x] = e], free |-> m.free]
  <2>1. ASSUME NEW a, NEW b, m = [mem |-> a, free |-> b]
        PROVE  n = [mem |-> [a EXCEPT ![t][x] = e], free |-> b]
    BY <2>1 DEF Put
  <2> QED
    BY <1>1, <2>1
<1>3. n.free = m.free /\ n.mem = [m.mem EXCEPT ![t][x] = e]
  BY <1>2
<1>4. n.mem[t] = [m.mem[t] EXCEPT ![x] = e] /\ \A q \in Phys \ {t} : n.mem[q] = m.mem[q]
  BY <1>1, <1>3
<1>5. Changed(m.mem, n.mem, t, x, e)
  BY <1>1, <1>4 DEF Changed
<1>6. n.mem \in [Phys -> [Offsets -> Ptes]]
  BY <1>1, <1>3
<1>7. Contents(n)
  BY <1>1, <1>2, <1>3, <1>4, <1>6 DEF Contents
<1> HIDE DEF n
<1>8. ASSUME NEW r \in Slots \ {p}, rts[r] # Null
      PROVE  /\ Tree(n.mem, n.free, lab, r, rts[r])
             /\ \A a, b, c \in Offsets :
                  Leaf(n.mem, rts[r], a, b, c) = Leaf(m.mem, rts[r], a, b, c)
  <2>1. Tree(m.mem, m.free, lab, r, rts[r])
    BY <1>8 DEF Tidy
  <2>2. Still(m.mem, m.free, lab, n.mem, n.free, lab, r)
    BY <1>3, <1>4 DEF Still, Same
  <2> QED
    BY <2>1, <2>2, Frame
<1> QED
  BY <1>3, <1>5, <1>7, <1>8 DEF n

LEMMA FreeFinite ==
  ASSUME NEW m, Contents(m)
  PROVE  /\ IsFiniteSet(m.free) /\ Cardinality(m.free) \in Nat
         /\ m.free = {} <=> Cardinality(m.free) = 0
         /\ m.free # {} => Cardinality(m.free \ {Page(m)}) = Cardinality(m.free) - 1
<1>1. IsFiniteSet(Phys)
  BY FS_Interval, Consts DEF Phys
<1>2. IsFiniteSet(m.free)
  BY <1>1, FS_Subset DEF Contents
<1>3. Cardinality(m.free) \in Nat
  BY <1>2, FS_CardinalityType
<1>4. m.free = {} <=> Cardinality(m.free) = 0
  BY <1>2, FS_EmptySet
<1>5. ASSUME m.free # {}
      PROVE  Cardinality(m.free \ {Page(m)}) = Cardinality(m.free) - 1
  <2>1. Page(m) \in m.free
    BY <1>5, PageFree
  <2> QED
    BY <1>2, <2>1, FS_RemoveElement
<1> QED
  BY <1>2, <1>3, <1>4, <1>5

-----------------------------------------------------------------------------
\* walk() with alloc

\* One more thing is tidy: places are given, to p, to pages that had none.
Tidier(m, lab, n, law, rts, p) == Tidy(n, law, rts) /\ Kept(m, lab, n, law, rts, p, {})

LEMMA NewMid ==
  ASSUME NEW m, NEW lab, NEW rts, Tidy(m, lab, rts), NEW p \in Slots, rts[p] # Null,
         NEW x \in Offsets
  PROVE  LET w == NewTable([m |-> m, t |-> rts[p]], x)
         IN  /\ \E law : Tidier(m, lab, w.m, law, rts, p)
             /\ w = [m |-> w.m, t |-> Mid(w.m.mem, rts[p], x)]
             /\ m.free # {} => w.t # Null
             /\ Cardinality(w.m.free) >= Cardinality(m.free) - 1
<1> DEFINE v == [m |-> m, t |-> rts[p]]
           w == NewTable(v, x)
           rt == rts[p]
           t == Down(m.mem, rt, x)
           h == Page(m)
           n == Take(m, Fill(Zero))
           law == Moved(lab, h, <<p, 1, x, 0, 0>>)
           e == Pte({"V"}, h)
           k == Put(n, rt, x, e)
<1>0. v.m = m /\ v.t = rt /\ Contents(m) /\ Cardinality(m.free) \in Nat
  BY FreeFinite DEF Tidy
<1>1. CASE t # Null \/ m.free = {}
  <2>1. w = [m |-> m, t |-> t]
    BY <1>0, <1>1 DEF NewTable
  <2>2. Tidier(m, lab, w.m, lab, rts, p)
    BY <2>1 DEF Tidier, Kept, StillHas, Others, Tidy, Contents
  <2> QED
    BY <1>0, <1>1, <2>1, <2>2 DEF Mid
<1>2. CASE t = Null /\ m.free # {}
  <2>1. w = [m |-> k, t |-> h]
    BY <1>0, <1>2 DEF NewTable
  <2>2. Tree(m.mem, m.free, lab, p, rt) /\ Fill(Zero) \in [Offsets -> Ptes]
    BY CellTypes DEF Tidy
  <2>3. /\ Tidy(n, law, rts) /\ h \in Phys /\ h \in m.free /\ n.free = m.free \ {h}
        /\ n.mem[h] = Fill(Zero) /\ law[h] = <<p, 1, x, 0, 0>>
        /\ \A q \in Phys \ m.free : law[q] = lab[q]
        /\ \A q \in Phys \ {h} : n.mem[q] = m.mem[q]
        /\ \A r \in Slots : rts[r] # Null =>
             /\ \A a \in Offsets : Mid(n.mem, rts[r], a) = Mid(m.mem, rts[r], a)
             /\ \A a, b, c \in Offsets :
                  Leaf(n.mem, rts[r], a, b, c) = Leaf(m.mem, rts[r], a, b, c)
    BY <1>2, <2>2, TakeTidy
  <2> HIDE DEF n, law, h
  <2>4. rt \in Phys \ n.free /\ law[rt] = <<p, 2, 0, 0, 0>> /\ Tree(n.mem, n.free, law, p, rt)
    BY <2>3 DEF Tidy, Tree
  <2>5. e \in Ptes
    BY <2>3, Consts, CellTypes DEF Flags
  <2> HIDE DEF e
  <2>6. /\ Contents(k) /\ k.free = n.free /\ Changed(n.mem, k.mem, rt, x, e)
        /\ \A r \in Slots \ {p} : rts[r] # Null =>
             /\ Tree(k.mem, k.free, law, r, rts[r])
             /\ \A a, b, c \in Offsets :
                  Leaf(k.mem, rts[r], a, b, c) = Leaf(n.mem, rts[r], a, b, c)
    <3>1. law[rt][1] = p
      BY <2>4
    <3> QED
      BY <2>3, <2>4, <2>5, <3>1, PutTidy
  <2> HIDE DEF k
  <2>7. /\ Tree(k.mem, k.free, law, p, rt) /\ Mid(k.mem, rt, x) = h
        /\ \A a, b, c \in Offsets : Leaf(n.mem, rt, a, b, c) \in Phys =>
             Leaf(k.mem, rt, a, b, c) = Leaf(n.mem, rt, a, b, c)
    <3>1. Mid(n.mem, rt, x) = Null
      BY <1>2, <2>3 DEF Mid
    <3>2. h \in Phys \ n.free /\ \A o \in Offsets : "V" \notin n.mem[h][o].flags
      BY <2>3 DEF Fill, Zero, Num, Pte
    <3>3. Changed(n.mem, k.mem, rt, x, Pte({"V"}, h))
      BY <2>6 DEF e
    <3> QED
      BY <2>3, <2>4, <2>6, <3>1, <3>2, <3>3, InsertMid
  <2>8. Tidy(k, law, rts)
    BY <2>6, <2>7 DEF Tidy
  <2>9. Kept(m, lab, k, law, rts, p, {})
    <3>1. ASSUME NEW r \in Slots, NEW pg \in Vpns, rts[r] # Null, Has(m.mem, rts[r], pg)
          PROVE  Has(k.mem, rts[r], pg)
      BY <2>3, <2>6, <2>7, <3>1, PXType DEF Has
    <3>2. \A q \in Phys \ m.free : q \notin k.free /\ law[q] = lab[q]
      BY <2>3, <2>6
    <3>3. Others(m, lab, k, law, p)
      <4>1. ASSUME NEW q \in Phys \ m.free, lab[q][1] # p
            PROVE  k.mem[q] = m.mem[q]
        <5>1. q # rt /\ q # h
          BY <2>3, <2>4, <4>1
        <5> QED
          BY <2>3, <2>6, <5>1 DEF Changed
      <4> QED
        BY <3>2, <4>1 DEF Others
    <3> QED
      BY <3>1, <3>2, <3>3 DEF Kept, StillHas
  <2>10. Cardinality(k.free) = Cardinality(m.free) - 1 /\ h # Null
    BY <1>0, <1>2, <2>3, <2>6, FreeFinite, Consts DEF h
  <2> QED
    BY <1>0, <2>1, <2>7, <2>8, <2>9, <2>10 DEF Tidier
<1> QED
  BY <1>1, <1>2

LEMMA OthersTrans ==
  ASSUME NEW m, NEW lab, NEW n, NEW law, NEW k, NEW lax, NEW p,
         Others(m, lab, n, law, p), Others(n, law, k, lax, p)
  PROVE  Others(m, lab, k, lax, p)
  BY DEF Others

LEMMA KeptTrans ==
  ASSUME NEW m, NEW lab, NEW n, NEW law, NEW k, NEW lax, NEW rts, NEW p, NEW P,
         Kept(m, lab, n, law, rts, p, {}), Kept(n, law, k, lax, rts, p, P)
  PROVE  Kept(m, lab, k, lax, rts, p, P)
  BY OthersTrans DEF Kept, StillHas

LEMMA TidierTrans ==
  ASSUME NEW m, NEW lab, NEW n, NEW law, NEW k, NEW lax, NEW rts, NEW p,
         Tidier(m, lab, n, law, rts, p), Tidier(n, law, k, lax, rts, p)
  PROVE  Tidier(m, lab, k, lax, rts, p)
  BY KeptTrans DEF Tidier

LEMMA NewLow ==
  ASSUME NEW m, NEW lab, NEW rts, Tidy(m, lab, rts), NEW p \in Slots, rts[p] # Null,
         NEW x \in Offsets, NEW y \in Offsets
  PROVE  LET w == NewTable([m |-> m, t |-> Mid(m.mem, rts[p], x)], y)
         IN  /\ \E law : Tidier(m, lab, w.m, law, rts, p)
             /\ w = [m |-> w.m, t |-> Low(w.m.mem, rts[p], x, y)]
             /\ m.free # {} /\ Mid(m.mem, rts[p], x) # Null => w.t # Null
             /\ Cardinality(w.m.free) >= Cardinality(m.free) - 1
<1> DEFINE rt == rts[p]
           d == Mid(m.mem, rt, x)
           v == [m |-> m, t |-> d]
           w == NewTable(v, y)
           t == Down(m.mem, d, y)
           h == Page(m)
           n == Take(m, Fill(Zero))
           law == Moved(lab, h, <<p, 0, x, y, 0>>)
           e == Pte({"V"}, h)
           k == Put(n, d, y, e)
<1>0. v.m = m /\ v.t = d /\ Contents(m) /\ Cardinality(m.free) \in Nat
      /\ t = Low(m.mem, rt, x, y)
  BY FreeFinite DEF Tidy, Low
<1>1. CASE d = Null \/ t # Null \/ m.free = {}
  <2>1. w = [m |-> m, t |-> t]
    BY <1>0, <1>1, DownNull DEF NewTable
  <2>2. Tidier(m, lab, w.m, lab, rts, p)
    BY <2>1 DEF Tidier, Kept, StillHas, Others, Tidy, Contents
  <2> QED
    BY <1>0, <1>1, <2>1, <2>2
<1>2. CASE d # Null /\ t = Null /\ m.free # {}
  <2>1. w = [m |-> k, t |-> h]
    BY <1>0, <1>2 DEF NewTable
  <2>2. Tree(m.mem, m.free, lab, p, rt) /\ Fill(Zero) \in [Offsets -> Ptes]
    BY CellTypes DEF Tidy
  <2>3. /\ Tidy(n, law, rts) /\ h \in Phys /\ h \in m.free /\ n.free = m.free \ {h}
        /\ n.mem[h] = Fill(Zero) /\ law[h] = <<p, 0, x, y, 0>>
        /\ \A q \in Phys \ m.free : law[q] = lab[q]
        /\ \A q \in Phys \ {h} : n.mem[q] = m.mem[q]
        /\ \A r \in Slots : rts[r] # Null =>
             /\ \A a \in Offsets : Mid(n.mem, rts[r], a) = Mid(m.mem, rts[r], a)
             /\ \A a, b \in Offsets : Low(n.mem, rts[r], a, b) = Low(m.mem, rts[r], a, b)
             /\ \A a, b, c \in Offsets :
                  Leaf(n.mem, rts[r], a, b, c) = Leaf(m.mem, rts[r], a, b, c)
    BY <1>2, <2>2, TakeTidy
  <2> HIDE DEF n, law, h
  <2>4. /\ d = Mid(n.mem, rt, x) /\ Low(n.mem, rt, x, y) = Null
        /\ Tree(n.mem, n.free, law, p, rt)
    BY <1>0, <1>2, <2>3 DEF Tidy
  <2> HIDE DEF d
  <2>5. d \in Phys \ n.free /\ law[d] = <<p, 1, x, 0, 0>>
    BY <1>2, <2>4 DEF Tree
  <2>6. e \in Ptes
    BY <2>3, Consts, CellTypes DEF Flags
  <2> HIDE DEF e
  <2>7. /\ Contents(k) /\ k.free = n.free /\ Changed(n.mem, k.mem, d, y, e)
        /\ \A r \in Slots \ {p} : rts[r] # Null =>
             /\ Tree(k.mem, k.free, law, r, rts[r])
             /\ \A a, b, c \in Offsets :
                  Leaf(k.mem, rts[r], a, b, c) = Leaf(n.mem, rts[r], a, b, c)
    <3>1. law[d][1] = p
      BY <2>5
    <3> QED
      BY <2>3, <2>5, <2>6, <3>1, PutTidy
  <2> HIDE DEF k
  <2>8. /\ Tree(k.mem, k.free, law, p, rt) /\ Low(k.mem, rt, x, y) = h
        /\ \A a, b, c \in Offsets : Leaf(n.mem, rt, a, b, c) \in Phys =>
             Leaf(k.mem, rt, a, b, c) = Leaf(n.mem, rt, a, b, c)
    <3>1. h \in Phys \ n.free /\ \A o \in Offsets : "V" \notin n.mem[h][o].flags
      BY <2>3 DEF Fill, Zero, Num, Pte
    <3>2. Changed(n.mem, k.mem, Mid(n.mem, rt, x), y, Pte({"V"}, h))
      BY <2>4, <2>7 DEF e
    <3> QED
      BY <1>2, <2>3, <2>4, <2>7, <3>1, <3>2, InsertLow
  <2>9. Tidy(k, law, rts)
    BY <2>7, <2>8 DEF Tidy
  <2>10. Kept(m, lab, k, law, rts, p, {})
    <3>1. ASSUME NEW r \in Slots, NEW pg \in Vpns, rts[r] # Null, Has(m.mem, rts[r], pg)
          PROVE  Has(k.mem, rts[r], pg)
      BY <2>3, <2>7, <2>8, <3>1, PXType DEF Has
    <3>2. \A q \in Phys \ m.free : q \notin k.free /\ law[q] = lab[q]
      BY <2>3, <2>7
    <3>3. Others(m, lab, k, law, p)
      <4>1. ASSUME NEW q \in Phys \ m.free, lab[q][1] # p
            PROVE  k.mem[q] = m.mem[q]
        <5>1. q # d /\ q # h
          BY <2>3, <2>5, <4>1
        <5> QED
          BY <2>3, <2>7, <5>1 DEF Changed
      <4> QED
        BY <3>2, <4>1 DEF Others
    <3> QED
      BY <3>1, <3>2, <3>3 DEF Kept, StillHas
  <2>11. Cardinality(k.free) = Cardinality(m.free) - 1 /\ h # Null
    BY <1>0, <1>2, <2>3, <2>7, FreeFinite, Consts DEF h
  <2> QED
    BY <1>0, <2>1, <2>8, <2>9, <2>10, <2>11 DEF Tidier, d
<1> QED
  BY <1>1, <1>2

LEMMA WalkTidy ==
  ASSUME NEW m, NEW lab, NEW rts, Tidy(m, lab, rts), NEW p \in Slots, rts[p] # Null,
         NEW pg \in Vpns
  PROVE  LET w == Walk(m, rts[p], pg)
         IN  /\ \E law : Tidier(m, lab, w.m, law, rts, p)
             /\ w.t = Table(w.m.mem, rts[p], pg)
             /\ Cardinality(m.free) >= 2 => w.t # Null
             /\ Cardinality(w.m.free) >= Cardinality(m.free) - 2
<1> DEFINE rt == rts[p]
           x == PX(2, pg)
           y == PX(1, pg)
           u == NewTable([m |-> m, t |-> rt], x)
           w == NewTable(u, y)
<1>1. x \in Offsets /\ y \in Offsets
  BY PXType
<1> HIDE DEF x, y
<1>2. /\ \E law : Tidier(m, lab, u.m, law, rts, p)
      /\ u = [m |-> u.m, t |-> Mid(u.m.mem, rt, x)]
      /\ m.free # {} => u.t # Null
      /\ Cardinality(u.m.free) >= Cardinality(m.free) - 1
  BY <1>1, NewMid
<1>3. PICK law : Tidier(m, lab, u.m, law, rts, p)
  BY <1>2
<1> DEFINE n == u.m
           ww == NewTable([m |-> n, t |-> Mid(n.mem, rt, x)], y)
<1>4. w = ww /\ u.t = Mid(n.mem, rt, x)
  BY <1>2
<1>5. Tidy(n, law, rts)
  BY <1>3 DEF Tidier
<1>6. /\ \E lax : Tidier(n, law, ww.m, lax, rts, p)
      /\ ww = [m |-> ww.m, t |-> Low(ww.m.mem, rt, x, y)]
      /\ n.free # {} /\ Mid(n.mem, rt, x) # Null => ww.t # Null
      /\ Cardinality(ww.m.free) >= Cardinality(n.free) - 1
  <2> HIDE DEF n, u
  <2> QED
    BY <1>1, <1>5, NewLow
<1>7. \E lax : Tidier(m, lab, ww.m, lax, rts, p)
  <2>1. PICK lax : Tidier(n, law, ww.m, lax, rts, p)
    BY <1>6
  <2> HIDE DEF n, u, ww
  <2> QED
    BY <1>3, <2>1, TidierTrans DEF n
<1>8. Contents(m) /\ Contents(n) /\ Contents(ww.m)
  <2>1. PICK lax : Tidier(n, law, ww.m, lax, rts, p)
    BY <1>6
  <2> QED
    BY <1>5, <2>1 DEF Tidy, Tidier
<1>9. /\ Cardinality(m.free) \in Nat /\ Cardinality(n.free) \in Nat
      /\ Cardinality(ww.m.free) \in Nat
      /\ n.free = {} => Cardinality(n.free) = 0
      /\ m.free = {} => Cardinality(m.free) = 0
  <2> HIDE DEF n, ww
  <2> QED
    BY <1>8, FreeFinite
<1>10. Walk(m, rt, pg) = ww
  BY <1>4 DEF Walk, x, y
<1>11. Table(ww.m.mem, rt, pg) = Low(ww.m.mem, rt, x, y)
  BY DEF Table, Low, Mid, x, y
<1>12. ww.t = Table(ww.m.mem, rt, pg)
  BY <1>6, <1>11
<1>13. Cardinality(m.free) >= 2 => ww.t # Null
  BY <1>2, <1>4, <1>6, <1>9
<1>14. Cardinality(ww.m.free) >= Cardinality(m.free) - 2
  BY <1>2, <1>6, <1>9
<1> QED
  BY <1>7, <1>10, <1>12, <1>13, <1>14

LEMMA WalkOld ==
  ASSUME NEW m, NEW rt, NEW pg, rt # Null, Table(m.mem, rt, pg) # Null
  PROVE  Walk(m, rt, pg).t # Null /\ Walk(m, rt, pg).m = m
<1> DEFINE d == Down(m.mem, rt, PX(2, pg))
           t == Down(m.mem, d, PX(1, pg))
<1>1. t # Null /\ d # Null
  BY DownNull DEF Table
<1>2. NewTable([m |-> m, t |-> rt], PX(2, pg)) = [m |-> m, t |-> d]
  BY <1>1 DEF NewTable
<1>3. NewTable([m |-> m, t |-> d], PX(1, pg)) = [m |-> m, t |-> t]
  BY <1>1 DEF NewTable
<1> QED
  BY <1>1, <1>2, <1>3 DEF Walk

-----------------------------------------------------------------------------
\* mappages(), and a new page that is mapped

\* What mappages() returns: the page is mapped, or there is no table for it.
Outcome(m, rt, pg, pa, w) ==
  LET leaf == Leaf(w.m.mem, rt, PX(2, pg), PX(1, pg), PX(0, pg))
  IN  \/ /\ w = [m |-> w.m, ok |-> TRUE]
         /\ leaf = pa /\ Table(w.m.mem, rt, pg) # Null
      \/ /\ w = [m |-> w.m, ok |-> FALSE]
         /\ leaf = Null /\ Table(m.mem, rt, pg) = Null
         /\ ~ (Cardinality(m.free) >= 2)

LEMMA MappagesTidy ==
  ASSUME NEW m, NEW lab, NEW rts, Tidy(m, lab, rts), NEW p \in Slots, rts[p] # Null,
         NEW pg \in Vpns, NEW pa \in Nat \ {Null}, NEW perm \in SUBSET Flags,
         pa \in Phys => /\ pa \notin m.free
                        /\ lab[pa] = <<p, 3, PX(2, pg), PX(1, pg), PX(0, pg)>>
  PROVE  LET w == Mappages(m, rts[p], pg, pa, perm)
         IN  /\ \E law : /\ Tidy(w.m, law, rts)
                         /\ Kept(m, lab, w.m, law, rts, p, IF pa \in Phys THEN {} ELSE Vpns)
             /\ Outcome(m, rts[p], pg, pa, w)
             /\ Cardinality(w.m.free) >= Cardinality(m.free) - 2
             /\ Table(m.mem, rts[p], pg) # Null => w.m.free = m.free
<1> DEFINE rt == rts[p]
           x == PX(2, pg)
           y == PX(1, pg)
           z == PX(0, pg)
           u == Walk(m, rt, pg)
           n == u.m
           t == u.t
           e == Pte(perm \cup {"V"}, pa)
           k == Put(n, t, z, e)
           w == Mappages(m, rt, pg, pa, perm)
           P == IF pa \in Phys THEN {} ELSE Vpns
<1>1. x \in Offsets /\ y \in Offsets /\ z \in Offsets
  BY PXType
<1>2. PICK law : Tidier(m, lab, n, law, rts, p)
  BY WalkTidy
<1>3. /\ t = Table(n.mem, rt, pg)
      /\ Cardinality(m.free) >= 2 => t # Null
      /\ Cardinality(n.free) >= Cardinality(m.free) - 2
  BY WalkTidy
<1>4. Table(m.mem, rt, pg) # Null => t # Null /\ n.free = m.free
  BY WalkOld
<1>5. \A mm : Table(mm, rt, pg) = Low(mm, rt, x, y)
  BY DEF Table, Low, Mid
<1>6. t = Low(n.mem, rt, x, y)
  BY <1>3, <1>5
<1>7. /\ Tidy(n, law, rts) /\ Contents(m)
      /\ \A q \in Phys \ m.free : q \notin n.free /\ law[q] = lab[q]
      /\ \A r \in Slots, v \in Vpns : rts[r] # Null /\ Has(m.mem, rts[r], v) =>
           Has(n.mem, rts[r], v)
      /\ Others(m, lab, n, law, p)
  BY <1>2 DEF Tidier, Kept, StillHas, Tidy
<1>8. CASE t = Null
  <2>1. w = [m |-> n, ok |-> FALSE]
    BY <1>8 DEF Mappages
  <2>2. Kept(m, lab, n, law, rts, p, P)
    BY <1>7 DEF Kept, StillHas
  <2>3. Leaf(n.mem, rt, x, y, z) = Null
    BY <1>6, <1>8, DownNull DEF Leaf
  <2> HIDE DEF n, w, t
  <2> QED
    BY <1>3, <1>4, <1>7, <1>8, <2>1, <2>2, <2>3 DEF w, Outcome
<1>9. CASE t # Null
  <2>1. w = [m |-> k, ok |-> TRUE]
    BY <1>9 DEF Mappages
  <2>2. e \in Ptes /\ e.pa = pa /\ "V" \in e.flags
    <3>1. perm \cup {"V"} \in SUBSET Flags
      BY DEF Flags
    <3> QED
      BY <3>1, CellTypes DEF Pte
  <2> HIDE DEF x, y, z, n, t, u
  <2>3. Tree(n.mem, n.free, law, p, rt)
    BY <1>7 DEF Tidy
  <2>4. t \in Phys \ n.free /\ law[t] = <<p, 0, x, y, 0>>
    BY <1>1, <1>6, <1>9, <2>3 DEF Tree
  <2> HIDE DEF e
  <2>5. /\ Contents(k) /\ k.free = n.free /\ Changed(n.mem, k.mem, t, z, e)
        /\ \A r \in Slots \ {p} : rts[r] # Null =>
             /\ Tree(k.mem, k.free, law, r, rts[r])
             /\ \A a, b, c \in Offsets :
                  Leaf(k.mem, rts[r], a, b, c) = Leaf(n.mem, rts[r], a, b, c)
    <3>1. law[t][1] = p
      BY <2>4
    <3> QED
      BY <1>1, <1>7, <2>2, <2>4, <3>1, PutTidy
  <2> HIDE DEF k
  <2>6. /\ Tree(k.mem, k.free, law, p, rt) /\ Leaf(k.mem, rt, x, y, z) = pa
        /\ \A a, b \in Offsets : Low(k.mem, rt, a, b) = Low(n.mem, rt, a, b)
        /\ \A a, b, c \in Offsets : <<a, b, c>> # <<x, y, z>> =>
             Leaf(k.mem, rt, a, b, c) = Leaf(n.mem, rt, a, b, c)
    <3>1. e.pa \in Phys => e.pa \notin n.free /\ law[e.pa] = <<p, 3, x, y, z>>
      BY <1>7, <2>2 DEF x, y, z
    <3>2. Changed(n.mem, k.mem, Low(n.mem, rt, x, y), z, e)
      BY <1>6, <2>5
    <3>3. Low(n.mem, rt, x, y) # Null
      BY <1>6, <1>9
    <3> HIDE DEF rt
    <3> QED
      BY <1>1, <2>2, <2>3, <2>5, <3>1, <3>2, <3>3, InsertLeaf
  <2>7. Tidy(k, law, rts)
    BY <2>5, <2>6 DEF Tidy
  <2>8. Kept(m, lab, k, law, rts, p, P)
    <3>1. ASSUME NEW r \in Slots, NEW v \in Vpns, rts[r] # Null, Has(m.mem, rts[r], v),
                 r = p => v \notin P
          PROVE  Has(k.mem, rts[r], v)
      <4>1. Has(n.mem, rts[r], v)
        BY <1>7, <3>1
      <4>2. CASE r = p
        <5>1. pa \in Phys
          BY <3>1, <4>2
        <5>2. PX(2, v) \in Offsets /\ PX(1, v) \in Offsets /\ PX(0, v) \in Offsets
          BY PXType
        <5> QED
          BY <2>6, <4>1, <4>2, <5>1, <5>2 DEF Has
      <4>3. CASE r # p
        BY <2>5, <3>1, <4>1, <4>3, PXType DEF Has
      <4> QED
        BY <4>2, <4>3
    <3>2. \A q \in Phys \ m.free : q \notin k.free /\ law[q] = lab[q]
      BY <1>7, <2>5
    <3>3. Others(m, lab, k, law, p)
      <4>1. Others(n, law, k, law, p)
        BY <2>4, <2>5 DEF Others, Changed
      <4> QED
        BY <1>7, <4>1, OthersTrans
    <3> HIDE DEF P
    <3> QED
      BY <3>1, <3>2, <3>3 DEF Kept, StillHas
  <2>9. Table(k.mem, rt, pg) # Null
    BY <1>1, <1>5, <1>6, <1>9, <2>6
  <2> HIDE DEF w
  <2> QED
    BY <1>3, <1>4, <1>7, <2>1, <2>5, <2>6, <2>7, <2>8, <2>9 DEF w, x, y, z, Outcome
<1> QED
  BY <1>8, <1>9

\* kfree() of pages that no tree leads to.
LEMMA GiveTidy ==
  ASSUME NEW m, NEW lab, NEW rts, Tidy(m, lab, rts), NEW P \in SUBSET Phys,
         NEW ros, \A r \in Slots : ros[r] # Null => rts[r] = ros[r],
         \A r \in Slots : ros[r] # Null =>
           /\ ros[r] \notin P
           /\ \A a \in Offsets : Mid(m.mem, ros[r], a) \notin P
           /\ \A a, b \in Offsets : Low(m.mem, ros[r], a, b) \notin P
           /\ \A a, b, c \in Offsets : Leaf(m.mem, ros[r], a, b, c) \notin P
  PROVE  LET n == Give(m, P)
         IN  /\ Tidy(n, lab, ros)
             /\ n.free = m.free \cup P /\ \A q \in Phys \ P : n.mem[q] = m.mem[q]
             /\ \A r \in Slots : ros[r] # Null =>
                  \A a, b, c \in Offsets :
                    Leaf(n.mem, ros[r], a, b, c) = Leaf(m.mem, ros[r], a, b, c)
<1> DEFINE n == Give(m, P)
<1>1. /\ n = [mem |-> n.mem, free |-> n.free] /\ n.free = m.free \cup P
      /\ n.mem = [q \in Phys |-> IF q \in P THEN Fill(Junk) ELSE m.mem[q]]
  BY DEF Give
<1>2. Contents(n)
  BY <1>1, CellTypes DEF Contents, Tidy
<1>3. \A q \in Phys \ P : n.mem[q] = m.mem[q]
  BY <1>1
<1> HIDE DEF n
<1>4. ASSUME NEW r \in Slots, ros[r] # Null
      PROVE  /\ Tree(n.mem, n.free, lab, r, ros[r])
             /\ \A a, b, c \in Offsets :
                  Leaf(n.mem, ros[r], a, b, c) = Leaf(m.mem, ros[r], a, b, c)
  <2> DEFINE rt == ros[r]
  <2>1. Tree(m.mem, m.free, lab, r, rt)
    BY <1>4 DEF Tidy
  <2>2. /\ rt \notin P
        /\ \A a \in Offsets : Mid(m.mem, rt, a) \notin P
        /\ \A a, b \in Offsets : Low(m.mem, rt, a, b) \notin P
        /\ \A a, b, c \in Offsets : Leaf(m.mem, rt, a, b, c) \notin P
    BY <1>4
  <2> HIDE DEF rt
  <2>3. n.mem[rt] = m.mem[rt]
    BY <1>3, <2>1, <2>2 DEF Tree
  <2>4. \A a \in Offsets : Mid(n.mem, rt, a) = Mid(m.mem, rt, a)
    BY <2>3 DEF Mid, Down
  <2>5. ASSUME NEW a \in Offsets, NEW b \in Offsets
        PROVE  Low(n.mem, rt, a, b) = Low(m.mem, rt, a, b)
    <3> DEFINE t == Mid(m.mem, rt, a)
    <3>1. t # Null => n.mem[t] = m.mem[t]
      BY <1>3, <2>1, <2>2 DEF Tree
    <3> HIDE DEF t
    <3>2. Down(n.mem, t, b) = Down(m.mem, t, b)
      BY <3>1 DEF Down
    <3> QED
      BY <2>4, <3>2 DEF Low, t
  <2>6. ASSUME NEW a \in Offsets, NEW b \in Offsets, NEW c \in Offsets
        PROVE  Leaf(n.mem, rt, a, b, c) = Leaf(m.mem, rt, a, b, c)
    <3> DEFINE t == Low(m.mem, rt, a, b)
    <3>1. t # Null => n.mem[t] = m.mem[t]
      BY <1>3, <2>1, <2>2 DEF Tree
    <3> HIDE DEF t
    <3>2. Down(n.mem, t, c) = Down(m.mem, t, c)
      BY <3>1 DEF Down
    <3> QED
      BY <2>5, <3>2 DEF Leaf, t
  <2>7. Tree(n.mem, n.free, lab, r, rt)
    BY <1>1, <2>1, <2>2, <2>4, <2>5, <2>6 DEF Tree
  <2> QED
    BY <2>6, <2>7 DEF rt
<1>5. Tidy(n, lab, ros)
  BY <1>2, <1>4 DEF Tidy
<1> QED
  BY <1>1, <1>3, <1>4, <1>5 DEF n

LEMMA TakeKept ==
  ASSUME NEW m, NEW lab, NEW rts, Tidy(m, lab, rts), m.free # {},
         NEW c \in [Offsets -> Ptes], NEW l, NEW p
  PROVE  Kept(m, lab, Take(m, c), Moved(lab, Page(m), l), rts, p, {})
<1> DEFINE n == Take(m, c)
           law == Moved(lab, Page(m), l)
<1>1. /\ n.free = m.free \ {Page(m)}
      /\ \A q \in Phys \ m.free : law[q] = lab[q] /\ n.mem[q] = m.mem[q]
      /\ \A r \in Slots : rts[r] # Null => \A x, y, z \in Offsets :
           Leaf(n.mem, rts[r], x, y, z) = Leaf(m.mem, rts[r], x, y, z)
  BY TakeTidy
<1> HIDE DEF n, law
<1>2. \A q \in Phys \ m.free : q \notin n.free /\ law[q] = lab[q]
  BY <1>1
<1>3. \A r \in Slots, pg \in Vpns :
        rts[r] # Null /\ Has(m.mem, rts[r], pg) => Has(n.mem, rts[r], pg)
  BY <1>1, PXType DEF Has
<1>4. Others(m, lab, n, law, p)
  BY <1>1, <1>2 DEF Others
<1> QED
  BY <1>2, <1>3, <1>4 DEF Kept, StillHas, n, law

\* All of it.
Taken(m, lab, rts, c, l, p) ==
  LET n   == Take(m, c)
      h   == Page(m)
      law == Moved(lab, h, l)
  IN  /\ Tidy(n, law, rts) /\ h \in Phys /\ h \in m.free /\ n.free = m.free \ {h}
      /\ law[h] = l /\ Kept(m, lab, n, law, rts, p, {}) /\ n.mem[h] = c
      /\ Cardinality(n.free) = Cardinality(m.free) - 1

LEMMA TakeAll ==
  ASSUME NEW m, NEW lab, NEW rts, Tidy(m, lab, rts), m.free # {},
         NEW c \in [Offsets -> Ptes], NEW l, NEW p
  PROVE  Taken(m, lab, rts, c, l, p)
<1> DEFINE n   == Take(m, c)
           h   == Page(m)
           law == Moved(lab, h, l)
<1>1. /\ Tidy(n, law, rts) /\ h \in Phys /\ h \in m.free /\ n.free = m.free \ {h}
      /\ law[h] = l /\ n.mem[h] = c
  BY TakeTidy
<1>2. Kept(m, lab, n, law, rts, p, {})
  BY TakeKept
<1>3. Cardinality(n.free) = Cardinality(m.free) - 1
  BY <1>1, FreeFinite DEF Tidy
<1> HIDE DEF n, h, law
<1>4. n = Take(m, c) /\ h = Page(m) /\ law = Moved(lab, Page(m), l)
  BY DEF n, h, law
<1> QED
  BY <1>1, <1>2, <1>3 DEF Taken, n, h, law

\* What comes of an attempt to map a new page.
NewOutcome(m, rt, pg, w) ==
  /\ w = [m |-> w.m, ok |-> w.ok] /\ w.ok \in BOOLEAN
  /\ w.ok => Has(w.m.mem, rt, pg)
  /\ Cardinality(m.free) >= 3 => w.ok

LEMMA MapNewTidy ==
  ASSUME NEW m, NEW lab, NEW rts, Tidy(m, lab, rts), NEW p \in Slots, rts[p] # Null,
         NEW pg \in Vpns, NEW c \in [Offsets -> Ptes], NEW perm \in SUBSET Flags
  PROVE  LET w == MapNew(m, rts[p], pg, c, perm)
         IN  /\ \E law : Tidy(w.m, law, rts) /\ Kept(m, lab, w.m, law, rts, p, {})
             /\ NewOutcome(m, rts[p], pg, w)
<1> DEFINE rt == rts[p]
           x == PX(2, pg)
           y == PX(1, pg)
           z == PX(0, pg)
           l == <<p, 3, x, y, z>>
           h == Page(m)
           n == Take(m, c)
           law == Moved(lab, h, l)
           u == Mappages(n, rt, pg, h, perm)
           w == MapNew(m, rt, pg, c, perm)
<1>0. x \in Offsets /\ y \in Offsets /\ z \in Offsets
  BY PXType
<1>1. CASE m.free = {}
  <2>1. w = [m |-> m, ok |-> FALSE]
    BY <1>1 DEF MapNew
  <2>2. Kept(m, lab, m, lab, rts, p, {})
    BY DEF Kept, StillHas, Others
  <2>3. ~ (Cardinality(m.free) >= 3)
    <3>1. Contents(m)
      BY DEF Tidy
    <3>2. Cardinality(m.free) = 0
      BY <1>1, <3>1, FreeFinite
    <3> QED
      BY <3>2
  <2> HIDE DEF w
  <2> QED
    BY <2>1, <2>2, <2>3 DEF w, NewOutcome
<1>2. CASE m.free # {}
  <2>1. /\ Tidy(n, law, rts) /\ h \in Phys /\ h \in m.free /\ n.free = m.free \ {h}
        /\ law[h] = l
    BY <1>2, TakeTidy
  <2>2. Kept(m, lab, n, law, rts, p, {})
    BY <1>2, TakeKept
  <2>3. h \in Nat /\ h # Null
    BY <2>1, Consts
  <2>4. Cardinality(n.free) = Cardinality(m.free) - 1 /\ Cardinality(m.free) \in Nat
    BY <1>2, <2>1, FreeFinite DEF Tidy
  <2> HIDE DEF n, h, law
  <2>5. h \in Phys => h \notin n.free /\ law[h] = <<p, 3, PX(2, pg), PX(1, pg), PX(0, pg)>>
    BY <2>1
  <2>6. PICK lax : Tidy(u.m, lax, rts) /\ Kept(n, law, u.m, lax, rts, p, {})
    BY <2>1, <2>3, <2>5, MappagesTidy
  <2>7. \/ /\ u = [m |-> u.m, ok |-> TRUE] /\ Leaf(u.m.mem, rt, x, y, z) = h
        \/ /\ u = [m |-> u.m, ok |-> FALSE] /\ Leaf(u.m.mem, rt, x, y, z) = Null
           /\ ~ (Cardinality(n.free) >= 2)
    <3>1. Outcome(n, rt, pg, h, u)
      BY <2>1, <2>3, <2>5, MappagesTidy
    <3> HIDE DEF u
    <3> QED
      BY <3>1 DEF Outcome
  <2> HIDE DEF u
  <2>8. Kept(m, lab, u.m, lax, rts, p, {})
    BY <2>2, <2>6, KeptTrans
  <2>9. CASE u = [m |-> u.m, ok |-> TRUE] /\ Leaf(u.m.mem, rt, x, y, z) = h
    <3>1. w = u
      <4>1. u.ok = TRUE
        BY <2>9
      <4> QED
        BY <1>2, <4>1 DEF MapNew, u, n, h
    <3>2. Has(u.m.mem, rt, pg)
      BY <2>1, <2>9 DEF Has
    <3>3. w.m = u.m /\ w.ok = TRUE /\ w = [m |-> w.m, ok |-> w.ok]
      BY <2>9, <3>1
    <3> HIDE DEF w
    <3> QED
      BY <2>6, <2>8, <3>2, <3>3 DEF w, NewOutcome
  <2>10. CASE /\ u = [m |-> u.m, ok |-> FALSE] /\ Leaf(u.m.mem, rt, x, y, z) = Null
              /\ ~ (Cardinality(n.free) >= 2)
    <3> DEFINE k == Give(u.m, {h})
    <3>1. w = [m |-> k, ok |-> FALSE]
      <4>1. u.ok = FALSE
        BY <2>10
      <4>2. w = [u EXCEPT !.m = k]
        BY <1>2, <4>1 DEF MapNew, u, n, h
      <4>3. ASSUME NEW a, NEW b, u = [m |-> a, ok |-> b]
            PROVE  [u EXCEPT !.m = k] = [m |-> k, ok |-> b]
        BY <4>3
      <4> QED
        BY <2>10, <4>2, <4>3
    <3>2. lax[h] = l
      BY <2>1, <2>6 DEF Kept
    <3>3. ASSUME NEW r \in Slots, rts[r] # Null
          PROVE  /\ rts[r] \notin {h}
                 /\ \A a \in Offsets : Mid(u.m.mem, rts[r], a) \notin {h}
                 /\ \A a, b \in Offsets : Low(u.m.mem, rts[r], a, b) \notin {h}
                 /\ \A a, b, d \in Offsets : Leaf(u.m.mem, rts[r], a, b, d) \notin {h}
      <4>1. Tree(u.m.mem, u.m.free, lax, r, rts[r])
        BY <2>6, <3>3 DEF Tidy
      <4>2. rts[r] # h
        BY <3>2, <4>1 DEF Tree
      <4>3. ASSUME NEW a \in Offsets
            PROVE  Mid(u.m.mem, rts[r], a) # h
        BY <2>3, <3>2, <4>1 DEF Tree
      <4>4. ASSUME NEW a \in Offsets, NEW b \in Offsets
            PROVE  Low(u.m.mem, rts[r], a, b) # h
        BY <2>3, <3>2, <4>1 DEF Tree
      <4>5. ASSUME NEW a \in Offsets, NEW b \in Offsets, NEW d \in Offsets,
                   Leaf(u.m.mem, rts[r], a, b, d) = h
            PROVE  FALSE
        <5>1. lax[h] = <<r, 3, a, b, d>>
          BY <2>1, <4>1, <4>5 DEF Tree
        <5>2. r = p /\ a = x /\ b = y /\ d = z
          BY <3>2, <5>1
        <5> QED
          BY <2>3, <2>10, <4>5, <5>2
      <4> QED
        BY <4>2, <4>3, <4>4, <4>5
    <3>4. /\ Tidy(k, lax, rts)
          /\ k.free = u.m.free \cup {h} /\ \A q \in Phys \ {h} : k.mem[q] = u.m.mem[q]
          /\ \A r \in Slots : rts[r] # Null => \A a, b, d \in Offsets :
               Leaf(k.mem, rts[r], a, b, d) = Leaf(u.m.mem, rts[r], a, b, d)
      BY <2>1, <2>6, <3>3, GiveTidy
    <3> HIDE DEF k
    <3>6. Kept(m, lab, k, lax, rts, p, {})
      <4>1. \A q \in Phys \ m.free : q \notin k.free /\ lax[q] = lab[q]
        BY <2>1, <2>8, <3>4 DEF Kept
      <4>2. \A r \in Slots, v \in Vpns :
              rts[r] # Null /\ Has(m.mem, rts[r], v) => Has(k.mem, rts[r], v)
        BY <2>8, <3>4, PXType DEF Kept, StillHas, Has
      <4>3. Others(m, lab, k, lax, p)
        BY <2>1, <2>8, <3>4 DEF Kept, Others
      <4> QED
        BY <4>1, <4>2, <4>3 DEF Kept, StillHas
    <3> HIDE DEF w
    <3> QED
      BY <2>4, <2>10, <3>1, <3>4, <3>6 DEF w, NewOutcome
  <2> QED
    BY <2>7, <2>9, <2>10
<1> QED
  BY <1>1, <1>2

-----------------------------------------------------------------------------
\* uvmunmap()

LEMMA UnmapTidy ==
  ASSUME NEW m, NEW lab, NEW rts, Tidy(m, lab, rts), NEW p \in Slots, rts[p] # Null,
         NEW pages \in SUBSET Vpns, \A pg \in pages : Has(m.mem, rts[p], pg)
  PROVE  LET n == Unmap(m, rts[p], pages)
         IN  Tidy(n, lab, rts) /\ StillHas(m, n, rts, p, pages) /\ Others(m, lab, n, lab, p)
<1> DEFINE rt == rts[p]
           t(pg) == Table(m.mem, rt, pg)
           Cleared(q, x) == \E pg \in pages : t(pg) = q /\ PX(0, pg) = x
           nn == [q \in Phys |-> [x \in Offsets |-> IF Cleared(q, x) THEN Zero
                                                    ELSE m.mem[q][x]]]
           k == [m EXCEPT !.mem = nn]
           G == {m.mem[t(pg)][PX(0, pg)].pa : pg \in pages}
           n == Unmap(m, rt, pages)
           L(mm, pg) == Leaf(mm, rt, PX(2, pg), PX(1, pg), PX(0, pg))
<1>1. n = Give(k, G)
  BY DEF Unmap
<1>2. /\ m.mem \in [Phys -> [Offsets -> Ptes]] /\ m.free \in SUBSET Phys
      /\ m = [mem |-> m.mem, free |-> m.free] /\ \A q \in m.free : m.mem[q] = Fill(Junk)
      /\ Tree(m.mem, m.free, lab, p, rt)
  BY DEF Tidy, Contents
<1>3. k = [mem |-> nn, free |-> m.free]
  <2>1. ASSUME NEW a, NEW b, m = [mem |-> a, free |-> b], NEW g
        PROVE  [m EXCEPT !.mem = g] = [mem |-> g, free |-> b]
    BY <2>1
  <2> HIDE DEF nn
  <2> QED
    BY <1>2, <2>1
<1>4. \A mm, pg : t(pg) = Low(m.mem, rt, PX(2, pg), PX(1, pg))
  BY DEF Table, Low, Mid
<1>5. ASSUME NEW pg \in pages
      PROVE  /\ PX(2, pg) \in Offsets /\ PX(1, pg) \in Offsets /\ PX(0, pg) \in Offsets
             /\ t(pg) \in Phys \ m.free /\ lab[t(pg)] = <<p, 0, PX(2, pg), PX(1, pg), 0>>
             /\ m.mem[t(pg)][PX(0, pg)].pa = L(m.mem, pg)
             /\ L(m.mem, pg) \in Phys \ m.free
             /\ lab[L(m.mem, pg)] = <<p, 3, PX(2, pg), PX(1, pg), PX(0, pg)>>
  <2>1. PX(2, pg) \in Offsets /\ PX(1, pg) \in Offsets /\ PX(0, pg) \in Offsets
    BY PXType
  <2>2. L(m.mem, pg) \in Phys
    BY DEF Has
  <2>3. t(pg) # Null
    BY <1>4, <2>2, DownNull, Consts DEF Leaf
  <2>4. t(pg) \in Phys \ m.free /\ lab[t(pg)] = <<p, 0, PX(2, pg), PX(1, pg), 0>>
    BY <1>2, <1>4, <2>1, <2>3 DEF Tree
  <2>5. m.mem[t(pg)][PX(0, pg)].pa = L(m.mem, pg)
    BY <1>4, <2>2, Consts DEF Leaf, Down
  <2> QED
    BY <1>2, <2>1, <2>2, <2>4, <2>5 DEF Tree
<1> HIDE DEF t, Cleared
<1>6. \A q \in Phys, x \in Offsets : nn[q][x] = IF Cleared(q, x) THEN Zero ELSE m.mem[q][x]
  OBVIOUS
<1>7. nn \in [Phys -> [Offsets -> Ptes]]
  BY <1>2, CellTypes
<1>8. \A q \in m.free : nn[q] = m.mem[q]
  <2>1. ASSUME NEW q \in m.free, NEW x \in Offsets
        PROVE  ~ Cleared(q, x)
    BY <1>5 DEF Cleared
  <2>2. ASSUME NEW q \in m.free
        PROVE  nn[q] = m.mem[q]
    <3>1. nn[q] = [x \in Offsets |-> m.mem[q][x]]
      BY <1>2, <2>1
    <3>2. m.mem[q] \in [Offsets -> Ptes]
      BY <1>2
    <3> QED
      BY <3>1, <3>2
  <2> QED
    BY <2>2
<1> HIDE DEF nn
<1>9. k.mem = nn /\ k.free = m.free /\ Contents(k)
  BY <1>2, <1>3, <1>7, <1>8 DEF Contents
<1>10. ASSUME NEW r \in Slots \ {p}, rts[r] # Null
       PROVE  /\ Tree(nn, m.free, lab, r, rts[r])
              /\ \A a, b, c \in Offsets :
                   Leaf(nn, rts[r], a, b, c) = Leaf(m.mem, rts[r], a, b, c)
  <2>1. Tree(m.mem, m.free, lab, r, rts[r])
    BY <1>10 DEF Tidy
  <2>2. ASSUME NEW q \in Phys \ m.free, lab[q][1] = r, NEW x \in Offsets
        PROVE  nn[q][x] = m.mem[q][x]
    <3>1. ~ Cleared(q, x)
      BY <1>5, <2>2 DEF Cleared
    <3> QED
      BY <1>6, <3>1
  <2>3. Still(m.mem, m.free, lab, nn, m.free, lab, r)
    BY <2>2 DEF Still, Same
  <2> QED
    BY <2>1, <2>3, Frame
<1>11. /\ \A a \in Offsets : Mid(nn, rt, a) = Mid(m.mem, rt, a)
       /\ \A a, b \in Offsets : Low(nn, rt, a, b) = Low(m.mem, rt, a, b)
  <2>1. ASSUME NEW q \in Phys, lab[q][2] # 0, NEW x \in Offsets
        PROVE  nn[q][x] = m.mem[q][x]
    <3>1. ~ Cleared(q, x)
      BY <1>5, <2>1 DEF Cleared
    <3> QED
      BY <1>6, <3>1
  <2>2. ASSUME NEW a \in Offsets
        PROVE  Mid(nn, rt, a) = Mid(m.mem, rt, a)
    <3>1. rt \in Phys /\ lab[rt][2] # 0
      BY <1>2 DEF Tree
    <3>2. nn[rt][a] = m.mem[rt][a]
      BY <2>1, <3>1
    <3> QED
      BY <3>2 DEF Mid, Down
  <2>3. ASSUME NEW a \in Offsets, NEW b \in Offsets
        PROVE  Low(nn, rt, a, b) = Low(m.mem, rt, a, b)
    <3> DEFINE d == Mid(m.mem, rt, a)
    <3>1. d # Null => d \in Phys /\ lab[d][2] # 0
      BY <1>2 DEF Tree
    <3> HIDE DEF d
    <3>2. d # Null => nn[d][b] = m.mem[d][b]
      BY <2>1, <3>1
    <3>3. Down(nn, d, b) = Down(m.mem, d, b)
      BY <3>2 DEF Down
    <3> QED
      BY <2>2, <3>3 DEF Low, d
  <2> QED
    BY <2>2, <2>3
<1>12. ASSUME NEW a \in Offsets, NEW b \in Offsets, NEW c \in Offsets
       PROVE  LET l == Leaf(m.mem, rt, a, b, c)
              IN  /\ Leaf(nn, rt, a, b, c) \in {l, Null}
                  /\ l \in Phys /\ Leaf(nn, rt, a, b, c) = Null =>
                       \E pg \in pages : a = PX(2, pg) /\ b = PX(1, pg) /\ c = PX(0, pg)
                  /\ l \in G /\ l \in Phys => Leaf(nn, rt, a, b, c) = Null
  <2> DEFINE l == Leaf(m.mem, rt, a, b, c)
             d == Low(m.mem, rt, a, b)
  <2>1. d # Null => d \in Phys /\ lab[d] = <<p, 0, a, b, 0>>
    BY <1>2 DEF Tree
  <2>2. l = Down(m.mem, d, c) /\ Leaf(nn, rt, a, b, c) = Down(nn, d, c)
    BY <1>11 DEF Leaf
  <2>3. l \in Phys => lab[l] = <<p, 3, a, b, c>>
    BY <1>2 DEF Tree
  <2> HIDE DEF l, d
  <2>4. CASE d = Null
    BY <2>2, <2>4, DownNull, Consts DEF l
  <2>5. CASE d # Null /\ Cleared(d, c)
    <3>1. PICK pg \in pages : t(pg) = d /\ PX(0, pg) = c
      BY <2>5 DEF Cleared
    <3>2. PX(2, pg) = a /\ PX(1, pg) = b
      BY <1>5, <2>1, <2>5, <3>1
    <3>3. nn[d][c] = Zero
      BY <1>6, <2>1, <2>5
    <3>4. Down(nn, d, c) = Null
      BY <3>3 DEF Down, Zero, Num, Pte
    <3> QED
      BY <2>2, <3>1, <3>2, <3>4
  <2>6. CASE d # Null /\ ~ Cleared(d, c)
    <3>1. nn[d][c] = m.mem[d][c]
      BY <1>6, <2>1, <2>6
    <3>2. Down(nn, d, c) = l
      BY <2>2, <3>1 DEF Down
    <3>3. ASSUME l \in G, l \in Phys PROVE FALSE
      <4>1. PICK pg \in pages : l = m.mem[t(pg)][PX(0, pg)].pa
        BY <3>3
      <4>2. l = L(m.mem, pg)
        BY <1>5, <4>1
      <4>3. lab[l] = <<p, 3, PX(2, pg), PX(1, pg), PX(0, pg)>>
        BY <1>5, <4>2
      <4>4. PX(2, pg) = a /\ PX(1, pg) = b /\ PX(0, pg) = c
        BY <2>3, <3>3, <4>3
      <4>5. t(pg) = d
        BY <1>4, <4>4 DEF d
      <4> QED
        BY <2>6, <4>4, <4>5 DEF Cleared
    <3>4. l \in Phys => l # Null
      BY Consts
    <3> QED
      BY <2>2, <3>2, <3>3, <3>4 DEF l
  <2> QED
    BY <2>4, <2>5, <2>6 DEF l
<1>13. Tree(nn, m.free, lab, p, rt)
  <2>1. rt \in Phys \ m.free /\ lab[rt] = <<p, 2, 0, 0, 0>>
    BY <1>2 DEF Tree
  <2>2. ASSUME NEW a \in Offsets, NEW b \in Offsets, NEW c \in Offsets,
               Leaf(nn, rt, a, b, c) \in Phys
        PROVE  /\ Leaf(nn, rt, a, b, c) \notin m.free
               /\ lab[Leaf(nn, rt, a, b, c)] = <<p, 3, a, b, c>>
    <3>1. Leaf(nn, rt, a, b, c) = Leaf(m.mem, rt, a, b, c)
      BY <1>12, <2>2, Consts
    <3> QED
      BY <1>2, <2>2, <3>1 DEF Tree
  <2> QED
    BY <1>2, <1>11, <2>1, <2>2 DEF Tree
<1>14. Tidy(k, lab, rts)
  BY <1>9, <1>10, <1>13 DEF Tidy
<1>15. G \in SUBSET Phys /\ \A q \in G : lab[q][1] = p /\ lab[q][2] = 3
  BY <1>5
<1> HIDE DEF G, k
<1>16. ASSUME NEW r \in Slots, rts[r] # Null
       PROVE  /\ rts[r] \notin G
              /\ \A a \in Offsets : Mid(k.mem, rts[r], a) \notin G
              /\ \A a, b \in Offsets : Low(k.mem, rts[r], a, b) \notin G
              /\ \A a, b, c \in Offsets : Leaf(k.mem, rts[r], a, b, c) \notin G
  <2>1. Tree(nn, m.free, lab, r, rts[r])
    BY <1>10, <1>13, <1>16
  <2>2. Null \notin G
    BY <1>15, Consts
  <2>3. rts[r] \notin G
    BY <1>15, <2>1 DEF Tree
  <2>4. ASSUME NEW a \in Offsets
        PROVE  Mid(nn, rts[r], a) \notin G
    BY <1>15, <2>1, <2>2 DEF Tree
  <2>5. ASSUME NEW a \in Offsets, NEW b \in Offsets
        PROVE  Low(nn, rts[r], a, b) \notin G
    BY <1>15, <2>1, <2>2 DEF Tree
  <2>6. ASSUME NEW a \in Offsets, NEW b \in Offsets, NEW c \in Offsets,
               Leaf(nn, rts[r], a, b, c) \in G
        PROVE  FALSE
    <3>1. Leaf(nn, rts[r], a, b, c) \in Phys
      BY <1>15, <2>6
    <3>2. r = p
      BY <1>15, <2>1, <2>6, <3>1 DEF Tree
    <3> QED
      BY <1>12, <2>2, <2>6, <3>1, <3>2
  <2> QED
    BY <1>9, <2>3, <2>4, <2>5, <2>6
<1>17. /\ Tidy(n, lab, rts)
       /\ n.free = k.free \cup G /\ \A q \in Phys \ G : n.mem[q] = k.mem[q]
       /\ \A r \in Slots : rts[r] # Null => \A a, b, c \in Offsets :
            Leaf(n.mem, rts[r], a, b, c) = Leaf(k.mem, rts[r], a, b, c)
  BY <1>1, <1>14, <1>15, <1>16, GiveTidy
<1> HIDE DEF n
<1>18. ASSUME NEW r \in Slots, NEW v \in Vpns, rts[r] # Null, Has(m.mem, rts[r], v),
              r = p => v \notin pages
       PROVE  Has(n.mem, rts[r], v)
  <2> DEFINE a == PX(2, v)
             b == PX(1, v)
             c == PX(0, v)
  <2>1. a \in Offsets /\ b \in Offsets /\ c \in Offsets
    BY PXType
  <2>2. Leaf(n.mem, rts[r], a, b, c) = Leaf(nn, rts[r], a, b, c)
    BY <1>9, <1>17, <1>18, <2>1
  <2>3. Leaf(nn, rts[r], a, b, c) = Leaf(m.mem, rts[r], a, b, c)
    <3>1. CASE r # p
      BY <1>10, <1>18, <2>1, <3>1
    <3>2. CASE r = p
      <4>1. ~ \E pg \in pages : a = PX(2, pg) /\ b = PX(1, pg) /\ c = PX(0, pg)
        BY <1>18, <3>2, PXUnique DEF Vpns
      <4>2. Leaf(m.mem, rt, a, b, c) \in Phys
        BY <1>18, <3>2 DEF Has
      <4> HIDE DEF a, b, c
      <4> QED
        BY <1>12, <2>1, <3>2, <4>1, <4>2
    <3> QED
      BY <3>1, <3>2
  <2> QED
    BY <1>18, <2>2, <2>3 DEF Has
<1>19. Others(m, lab, n, lab, p)
  <2>1. ASSUME NEW q \in Phys \ m.free, lab[q][1] # p
        PROVE  q \notin n.free /\ n.mem[q] = m.mem[q]
    <3>1. q \notin G
      BY <1>15, <2>1
    <3>2. \A x \in Offsets : ~ Cleared(q, x)
      BY <1>5, <2>1 DEF Cleared
    <3>3. \A x \in Offsets : nn[q][x] = m.mem[q][x]
      BY <1>6, <3>2
    <3>4. nn[q] = m.mem[q]
      <4>1. nn[q] \in [Offsets -> Ptes] /\ m.mem[q] \in [Offsets -> Ptes]
        BY <1>2, <1>7
      <4> QED
        BY <3>3, <4>1
    <3> QED
      BY <1>9, <1>17, <3>1, <3>4
  <2> QED
    BY <2>1 DEF Others
<1> QED
  BY <1>17, <1>18, <1>19 DEF n, StillHas

-----------------------------------------------------------------------------
\* The loop of uvmalloc() and uvmcopy()

\* Induction.
LEMMA NatInd ==
  ASSUME NEW S \in SUBSET Nat, 0 \in S, \A n \in S : n + 1 \in S
  PROVE  S = Nat
<1>1. SUFFICES ASSUME Nat \ S # {} PROVE FALSE
  OBVIOUS
<1>2. Min(Nat \ S) \in Nat \ S /\ \A k \in Nat \ S : Min(Nat \ S) <= k
  BY <1>1, LeastOf
<1>3. PICK m \in Nat \ S : \A k \in Nat \ S : m <= k
  BY <1>2
<1>4. m # 0 /\ m \in Nat /\ m \notin S
  BY <1>3
<1>5. m - 1 \in Nat /\ m - 1 < m
  BY <1>4
<1>6. m - 1 \in S
  BY <1>3, <1>5
<1>7. (m - 1) + 1 = m
  BY <1>4
<1> QED
  BY <1>4, <1>6, <1>7

IsLoop(f, m0, rt, from, to, c, perm) ==
  f = [k \in from .. to |-> IF k = from THEN [m |-> m0, ok |-> TRUE]
                            ELSE MapOne(f[k - 1], rt, from, k - 1, c, perm)]

LEMMA LoopExists ==
  ASSUME NEW m0, NEW rt, NEW from \in Nat, NEW to \in Nat, from <= to, NEW c, NEW perm
  PROVE  \E f : IsLoop(f, m0, rt, from, to, c, perm)
<1> DEFINE F(f, n) == f = [k \in from .. from + n |->
                             IF k = from THEN [m |-> m0, ok |-> TRUE]
                             ELSE MapOne(f[k - 1], rt, from, k - 1, c, perm)]
           S == {n \in Nat : \E f : F(f, n)}
<1>1. 0 \in S
  <2> DEFINE f == [k \in from .. from + 0 |-> [m |-> m0, ok |-> TRUE]]
  <2>1. \A k \in from .. from + 0 : k = from
    OBVIOUS
  <2>2. F(f, 0)
    BY <2>1
  <2> QED
    BY <2>2
<1>2. ASSUME NEW n \in S
      PROVE  n + 1 \in S
  <2>1. PICK f : F(f, n)
    OBVIOUS
  <2> DEFINE g == [k \in from .. from + (n + 1) |->
                     IF k = from + (n + 1) THEN MapOne(f[k - 1], rt, from, k - 1, c, perm)
                     ELSE f[k]]
  <2>2. ASSUME NEW k \in from .. from + (n + 1)
        PROVE  g[k] = IF k = from THEN [m |-> m0, ok |-> TRUE]
                      ELSE MapOne(g[k - 1], rt, from, k - 1, c, perm)
    <3>1. k # from => k - 1 \in from .. from + n /\ k - 1 # from + (n + 1)
      OBVIOUS
    <3>2. k # from => g[k - 1] = f[k - 1]
      BY <3>1
    <3>3. CASE k = from + (n + 1)
      <4>1. k # from
        BY <3>3
      <4>2. g[k] = MapOne(f[k - 1], rt, from, k - 1, c, perm)
        BY <3>3
      <4> HIDE DEF g
      <4> QED
        BY <3>2, <4>1, <4>2
    <3>4. CASE k # from + (n + 1)
      <4>1. k \in from .. from + n
        BY <3>4
      <4>2. g[k] = f[k]
        BY <3>4
      <4>3. f[k] = IF k = from THEN [m |-> m0, ok |-> TRUE]
                   ELSE MapOne(f[k - 1], rt, from, k - 1, c, perm)
        BY <2>1, <4>1
      <4> HIDE DEF g
      <4> QED
        BY <3>2, <4>2, <4>3
    <3> QED
      BY <3>3, <3>4
  <2>3. g = [k \in from .. from + (n + 1) |-> g[k]]
    OBVIOUS
  <2> HIDE DEF g
  <2>4. F(g, n + 1)
    BY <2>2, <2>3
  <2> QED
    BY <2>4
<1> HIDE DEF F
<1>3. S = Nat
  BY <1>1, <1>2, NatInd
<1>4. PICK f : F(f, to - from)
  BY <1>3
<1>5. from + (to - from) = to
  OBVIOUS
<1> QED
  BY <1>4, <1>5 DEF F, IsLoop

LEMMA MapAllLoop ==
  ASSUME NEW m0, NEW rt, NEW from \in Nat, NEW to \in Nat, from <= to, NEW c, NEW perm
  PROVE  \E f : /\ MapAll(m0, rt, from, to, c, perm) = f[to]
                /\ f[from] = [m |-> m0, ok |-> TRUE]
                /\ \A k \in from .. to : k # from =>
                     f[k] = MapOne(f[k - 1], rt, from, k - 1, c, perm)
<1> DEFINE loop == CHOOSE f : IsLoop(f, m0, rt, from, to, c, perm)
<1>1. \E f : IsLoop(f, m0, rt, from, to, c, perm)
  BY LoopExists
<1>2. IsLoop(loop, m0, rt, from, to, c, perm)
  BY <1>1
<1>3. MapAll(m0, rt, from, to, c, perm) = loop[to]
  BY DEF MapAll, IsLoop
<1> HIDE DEF loop
<1>4. loop[from] = [m |-> m0, ok |-> TRUE]
  BY <1>2 DEF IsLoop
<1>5. ASSUME NEW k \in from .. to, k # from
      PROVE  loop[k] = MapOne(loop[k - 1], rt, from, k - 1, c, perm)
  BY <1>2, <1>5 DEF IsLoop
<1> QED
  BY <1>3, <1>4, <1>5

LEMMA MapAllTidy ==
  ASSUME NEW m0, NEW lab, NEW rts, Tidy(m0, lab, rts), NEW p \in Slots, rts[p] # Null,
         NEW from \in Nat, NEW to \in Nat, from <= to, from .. to - 1 \subseteq Vpns,
         NEW c, \A k \in from .. to - 1 : c[k] \in [Offsets -> Ptes],
         NEW perm, \A k \in from .. to - 1 : perm[k] \in SUBSET Flags
  PROVE  LET r == MapAll(m0, rts[p], from, to, c, perm)
         IN  /\ \E law : Tidy(r.m, law, rts) /\ Others(m0, lab, r.m, law, p)
             /\ StillHas(m0, r.m, rts, p, from .. to - 1)
             /\ r.ok \in BOOLEAN
             /\ r.ok => \A pg \in from .. to - 1 : Has(r.m.mem, rts[p], pg)
<1> DEFINE rt == rts[p]
           P == from .. to - 1
<1>1. PICK f : /\ MapAll(m0, rt, from, to, c, perm) = f[to]
               /\ f[from] = [m |-> m0, ok |-> TRUE]
               /\ \A k \in from .. to : k # from =>
                    f[k] = MapOne(f[k - 1], rt, from, k - 1, c, perm)
  BY MapAllLoop
<1> DEFINE Good(r, k) ==
             /\ r = [m |-> r.m, ok |-> r.ok] /\ r.ok \in BOOLEAN
             /\ \E law : Tidy(r.m, law, rts) /\ Others(m0, lab, r.m, law, p)
             /\ StillHas(m0, r.m, rts, p, P)
             /\ r.ok => \A pg \in from .. k - 1 : Has(r.m.mem, rt, pg)
           S == {n \in Nat : from + n <= to => Good(f[from + n], from + n)}
<1>2. 0 \in S
  <2>1. StillHas(m0, m0, rts, p, P)
    BY DEF StillHas
  <2>2. f[from].m = m0 /\ f[from].ok = TRUE
    BY <1>1
  <2>a. Others(m0, lab, m0, lab, p)
    BY DEF Others
  <2>3. Good(f[from], from)
    BY <1>1, <2>1, <2>2, <2>a
  <2>4. from + 0 = from
    OBVIOUS
  <2> HIDE DEF Good
  <2> QED
    BY <2>3, <2>4
<1>3. ASSUME NEW n \in S
      PROVE  n + 1 \in S
  <2> DEFINE pg == from + n
             k == from + (n + 1)
             r == f[pg]
             w == MapNew(r.m, rt, pg, c[pg], perm[pg])
  <2>1. SUFFICES ASSUME k <= to PROVE Good(f[k], k)
    <3> HIDE DEF Good
    <3> QED
      OBVIOUS
  <2>2. pg \in P /\ k \in from .. to /\ k # from /\ k - 1 = pg /\ pg <= to /\ pg \in Vpns
        /\ pg \in Nat
    BY <2>1
  <2>3. Good(r, pg)
    <3> HIDE DEF Good
    <3> QED
      BY <2>2
  <2>4. f[k] = IF ~ r.ok THEN r
               ELSE IF w.ok THEN w
               ELSE [w EXCEPT !.m = Unmap(w.m, rt, from .. pg - 1)]
    BY <1>1, <2>2 DEF MapOne
  <2> HIDE DEF r, k, pg
  <2>5. CASE ~ r.ok
    BY <2>3, <2>4, <2>5
  <2>6. CASE r.ok
    <3>1. PICK law : Tidy(r.m, law, rts) /\ Others(m0, lab, r.m, law, p)
      BY <2>3
    <3>2. c[pg] \in [Offsets -> Ptes] /\ perm[pg] \in SUBSET Flags
      BY <2>2
    <3>3. PICK lax : Tidy(w.m, lax, rts) /\ Kept(r.m, law, w.m, lax, rts, p, {})
      BY <2>2, <3>1, <3>2, MapNewTidy
    <3>a. NewOutcome(r.m, rt, pg, w)
      BY <2>2, <3>1, <3>2, MapNewTidy
    <3> HIDE DEF w
    <3>4. /\ w = [m |-> w.m, ok |-> w.ok] /\ w.ok \in BOOLEAN
          /\ w.ok => Has(w.m.mem, rt, pg)
      BY <3>a DEF NewOutcome
    <3>5. \A q \in Slots, v \in Vpns : rts[q] # Null /\ Has(r.m.mem, rts[q], v) =>
            Has(w.m.mem, rts[q], v)
      BY <3>3 DEF Kept, StillHas
    <3>6. StillHas(m0, w.m, rts, p, P)
      BY <2>3, <3>5 DEF StillHas
    <3>7. \A v \in from .. pg - 1 : v \in P /\ v \in Vpns /\ Has(w.m.mem, rt, v)
      BY <2>2, <2>3, <2>6, <3>5
    <3>b. Others(m0, lab, w.m, lax, p)
      BY <3>1, <3>3, OthersTrans DEF Kept
    <3>8. CASE w.ok
      <4>1. f[k] = w
        BY <2>4, <2>6, <3>8
      <4>2. \A v \in from .. k - 1 : v \in from .. pg - 1 \/ v = pg
        BY <2>2
      <4> QED
        BY <3>3, <3>4, <3>6, <3>7, <3>8, <3>b, <4>1, <4>2
    <3>9. CASE ~ w.ok
      <4> DEFINE u == Unmap(w.m, rt, from .. pg - 1)
      <4>1. /\ Tidy(u, lax, rts) /\ StillHas(w.m, u, rts, p, from .. pg - 1)
            /\ Others(w.m, lax, u, lax, p)
        BY <3>3, <3>7, UnmapTidy
      <4> HIDE DEF u
      <4>2. f[k] = [w EXCEPT !.m = u]
        BY <2>4, <2>6, <3>9 DEF u
      <4>3. f[k] = [m |-> u, ok |-> FALSE]
        <5>1. ASSUME NEW a, NEW b, w = [m |-> a, ok |-> b]
              PROVE  [w EXCEPT !.m = u] = [m |-> u, ok |-> b]
          BY <5>1
        <5> QED
          BY <3>4, <3>9, <4>2, <5>1
      <4>4. StillHas(m0, u, rts, p, P)
        BY <3>6, <3>7, <4>1 DEF StillHas
      <4>5. f[k].m = u /\ f[k].ok = FALSE
        BY <4>3
      <4>6. Others(m0, lab, u, lax, p)
        BY <3>b, <4>1, OthersTrans
      <4> QED
        BY <4>1, <4>3, <4>4, <4>5, <4>6
    <3> QED
      BY <3>4, <3>8, <3>9
  <2> QED
    BY <2>3, <2>5, <2>6
<1> HIDE DEF Good
<1>4. S = Nat
  BY <1>2, <1>3, NatInd
<1>5. to - from \in Nat /\ from + (to - from) = to
  OBVIOUS
<1>6. Good(f[to], to)
  <2>1. from + (to - from) <= to => Good(f[from + (to - from)], from + (to - from))
    BY <1>4, <1>5
  <2> QED
    BY <1>5, <2>1
<1> QED
  BY <1>1, <1>6 DEF Good

-----------------------------------------------------------------------------
\* allocproc() and proc_pagetable()

\* A new root, without entries.
LEMMA NewRoot ==
  ASSUME NEW mm, NEW fr, NEW lab, NEW p, NEW rt \in Phys \ fr, lab[rt] = <<p, 2, 0, 0, 0>>,
         mm[rt] = Fill(Zero)
  PROVE  Tree(mm, fr, lab, p, rt)
<1>1. \A x \in Offsets : Mid(mm, rt, x) = Null
  BY DEF Mid, Down, Fill, Zero, Num, Pte
<1>2. \A x, y \in Offsets : Low(mm, rt, x, y) = Null
  BY <1>1, DownNull DEF Low
<1>3. \A x, y, z \in Offsets : Leaf(mm, rt, x, y, z) = Null
  BY <1>2, DownNull DEF Leaf
<1> QED
  BY <1>1, <1>2, <1>3, Consts DEF Tree

\* All of what mappages() does.
Mapped(m, lab, rts, p, pg, pa, perm) ==
  LET w == Mappages(m, rts[p], pg, pa, perm)
  IN  /\ \E law : /\ Tidy(w.m, law, rts)
                  /\ Kept(m, lab, w.m, law, rts, p, IF pa \in Phys THEN {} ELSE Vpns)
      /\ Outcome(m, rts[p], pg, pa, w)
      /\ Cardinality(w.m.free) >= Cardinality(m.free) - 2
      /\ Table(m.mem, rts[p], pg) # Null => w.m.free = m.free

LEMMA MapStep ==
  ASSUME NEW m, NEW lab, NEW rts, Tidy(m, lab, rts), NEW p \in Slots, rts[p] # Null,
         NEW pg \in Vpns, NEW pa \in Nat \ {Null}, NEW perm \in SUBSET Flags,
         pa \in Phys => /\ pa \notin m.free
                        /\ lab[pa] = <<p, 3, PX(2, pg), PX(1, pg), PX(0, pg)>>
  PROVE  Mapped(m, lab, rts, p, pg, pa, perm)
<1> DEFINE w == Mappages(m, rts[p], pg, pa, perm)
<1>1. /\ \E law : /\ Tidy(w.m, law, rts)
                  /\ Kept(m, lab, w.m, law, rts, p, IF pa \in Phys THEN {} ELSE Vpns)
      /\ Outcome(m, rts[p], pg, pa, w)
      /\ Cardinality(w.m.free) >= Cardinality(m.free) - 2
      /\ Table(m.mem, rts[p], pg) # Null => w.m.free = m.free
  BY MappagesTidy
<1> HIDE DEF w
<1> QED
  BY <1>1 DEF Mapped, w

\* What allocproc() returns: memory in which q has a tree with two pages at the top.
Allocated(m, lab, rts, q, a) ==
  LET ros == [rts EXCEPT ![q] = a.rt]
  IN  /\ a.rt \in Phys
      /\ \E law : Tidy(a.m, law, ros) /\ Others(m, lab, a.m, law, q)
      /\ Has(a.m.mem, a.rt, TRAPFRAME) /\ Has(a.m.mem, a.rt, USYSCALL)
      /\ \A r \in Slots \ {q}, v \in Vpns :
           rts[r] # Null /\ Has(m.mem, rts[r], v) => Has(a.m.mem, rts[r], v)

LEMMA AllocTidy ==
  ASSUME NEW m0, NEW lab, NEW rts, Tidy(m0, lab, rts), DOMAIN rts = Slots,
         rts = [r \in Slots |-> rts[r]],
         NEW q \in Slots, rts[q] = Null, NEW id \in Nat
  PROVE  LET a == AllocProc(m0, id)
         IN  /\ a.ok \in BOOLEAN
             /\ a.ok => Allocated(m0, lab, rts, q, a)
             /\ Cardinality(m0.free) >= 5 =>
                  a.ok /\ Cardinality(a.m.free) >= Cardinality(m0.free) - 5
<1> DEFINE h0 == Page(m0)
           m1 == Take(m0, Fill(Junk))
           h1 == Page(m1)
           pidPage == [Fill(Junk) EXCEPT ![0] = Num(id)]
           m2 == Take(m1, pidPage)
           rt == Page(m2)
           m3 == Take(m2, Fill(Zero))
           a  == Mappages(m3, rt, TRAMPOLINE, KernelText, {"R", "X"})
           b  == Mappages(a.m, rt, TRAPFRAME, h0, {"R", "W"})
           c  == Mappages(b.m, rt, USYSCALL, h1, {"R", "U"})
           n  == AllocProc(m0, id)
           l0 == <<q, 3, PX(2, TRAPFRAME), PX(1, TRAPFRAME), PX(0, TRAPFRAME)>>
           l1 == <<q, 3, PX(2, USYSCALL), PX(1, USYSCALL), PX(0, USYSCALL)>>
           law1 == Moved(lab, h0, l0)
           law2 == Moved(law1, h1, l1)
           law3 == Moved(law2, rt, <<q, 2, 0, 0, 0>>)
           ros == [rts EXCEPT ![q] = rt]
<1>0. n = IF Cardinality(m0.free) < 3 \/ ~ a.ok
          THEN [m |-> m0, rt |-> rt, ok |-> FALSE]
          ELSE [m |-> c.m, rt |-> rt, ok |-> TRUE]
  BY DEF AllocProc
<1> SUFFICES /\ n.ok \in BOOLEAN
             /\ n.ok => Allocated(m0, lab, rts, q, n)
             /\ Cardinality(m0.free) >= 5 =>
                  n.ok /\ Cardinality(n.m.free) >= Cardinality(m0.free) - 5
  OBVIOUS
<1>1. Cardinality(m0.free) \in Nat /\ Contents(m0)
  BY FreeFinite DEF Tidy
<1> HIDE DEF n
<1>2. CASE Cardinality(m0.free) < 3
  <2>1. n.ok = FALSE
    BY <1>0, <1>2
  <2>2. ~ (Cardinality(m0.free) >= 5)
    BY <1>1, <1>2
  <2> HIDE DEF h0, m1, h1, m2, rt, m3, a, b, c
  <2> QED
    BY <2>1, <2>2
<1>3. CASE ~ (Cardinality(m0.free) < 3)
  <2>1. /\ Fill(Junk) \in [Offsets -> Ptes] /\ Fill(Zero) \in [Offsets -> Ptes]
        /\ [Fill(Junk) EXCEPT ![0] = Num(id)] \in [Offsets -> Ptes]
    BY CellTypes
  <2>2. m0.free # {}
    BY <1>1, <1>3, FreeFinite
  <2>3. /\ Tidy(m1, law1, rts) /\ h0 \in Phys /\ h0 \in m0.free /\ m1.free = m0.free \ {h0}
        /\ law1[h0] = l0 /\ Kept(m0, lab, m1, law1, rts, q, {})
        /\ Cardinality(m1.free) = Cardinality(m0.free) - 1
    <3>1. Taken(m0, lab, rts, Fill(Junk), l0, q)
      BY <2>1, <2>2, TakeAll
    <3> QED
      BY <3>1 DEF Taken
  <2> HIDE DEF h0, m1, law1, pidPage, l0, l1
  <2>4. m1.free # {} /\ Contents(m1)
    BY <1>1, <1>3, <2>3, FreeFinite DEF Tidy
  <2>5. /\ Tidy(m2, law2, rts) /\ h1 \in Phys /\ h1 \in m1.free /\ m2.free = m1.free \ {h1}
        /\ law2[h1] = l1 /\ Kept(m1, law1, m2, law2, rts, q, {})
        /\ Cardinality(m2.free) = Cardinality(m1.free) - 1
    <3>1. Taken(m1, law1, rts, pidPage, l1, q)
      <4>1. pidPage \in [Offsets -> Ptes]
        BY <2>1 DEF pidPage
      <4> QED
        BY <2>3, <2>4, <4>1, TakeAll
    <3> QED
      BY <3>1 DEF Taken
  <2> HIDE DEF h1, m2, law2
  <2>6. m2.free # {} /\ Contents(m2)
    BY <1>1, <1>3, <2>3, <2>5, FreeFinite DEF Tidy
  <2>7. /\ Tidy(m3, law3, rts) /\ rt \in Phys /\ rt \in m2.free /\ m3.free = m2.free \ {rt}
        /\ law3[rt] = <<q, 2, 0, 0, 0>> /\ Kept(m2, law2, m3, law3, rts, q, {})
        /\ m3.mem[rt] = Fill(Zero)
        /\ Cardinality(m3.free) = Cardinality(m2.free) - 1
    <3>1. Taken(m2, law2, rts, Fill(Zero), <<q, 2, 0, 0, 0>>, q)
      BY <2>1, <2>5, <2>6, TakeAll
    <3> QED
      BY <3>1 DEF Taken
  <2> HIDE DEF rt, m3, law3
  <2>8. Kept(m0, lab, m3, law3, rts, q, {})
    BY <2>3, <2>5, <2>7, KeptTrans
  <2>9. /\ h0 \notin m3.free /\ law3[h0] = l0
        /\ h1 \notin m3.free /\ law3[h1] = l1
    BY <2>3, <2>5, <2>7 DEF Kept
  <2>10. ros[q] = rt /\ rt # Null /\ \A r \in Slots \ {q} : ros[r] = rts[r]
    BY <2>7, Consts
  <2>11. Tidy(m3, law3, ros)
    <3>1. Tree(m3.mem, m3.free, law3, q, rt)
      BY <2>7, NewRoot
    <3> QED
      BY <2>7, <2>10, <3>1 DEF Tidy
  <2>12. /\ TRAMPOLINE \in Vpns /\ TRAPFRAME \in Vpns /\ USYSCALL \in Vpns
         /\ \A mm : /\ Table(mm, rt, TRAPFRAME) = Table(mm, rt, TRAMPOLINE)
                    /\ Table(mm, rt, USYSCALL) = Table(mm, rt, TRAMPOLINE)
    BY Top DEF Table
  <2>13. {"R", "X"} \in SUBSET Flags /\ {"R", "W"} \in SUBSET Flags
         /\ {"R", "U"} \in SUBSET Flags
    BY DEF Flags
  <2> HIDE DEF ros
  <2>14. PICK law4 : /\ Tidy(a.m, law4, ros)
                     /\ Kept(m3, law3, a.m, law4, ros, q, Vpns)
    BY <2>10, <2>11, <2>12, <2>13, MappagesTidy, Consts
  <2>15. /\ Outcome(m3, rt, TRAMPOLINE, KernelText, a)
         /\ Cardinality(a.m.free) >= Cardinality(m3.free) - 2
    BY <2>10, <2>11, <2>12, <2>13, MappagesTidy, Consts
  <2> HIDE DEF a
  <2>16. CASE ~ a.ok
    <3>1. n.ok = FALSE
      BY <1>0, <2>16
    <3>2. ~ (Cardinality(m3.free) >= 2)
      BY <2>15, <2>16 DEF Outcome
    <3>3. ~ (Cardinality(m0.free) >= 5)
      BY <1>1, <2>3, <2>5, <2>7, <3>2
    <3> QED
      BY <3>1, <3>3
  <2>17. CASE a.ok
    <3>1. n = [m |-> c.m, rt |-> rt, ok |-> TRUE]
      BY <1>0, <1>3, <2>17
    <3>2. Table(a.m.mem, rt, TRAMPOLINE) # Null
      <4>1. a = [m |-> a.m, ok |-> FALSE] => a.ok = FALSE
        OBVIOUS
      <4> QED
        BY <2>15, <2>17, <4>1 DEF Outcome
    <3>3. h0 \notin a.m.free /\ law4[h0] = l0 /\ h1 \notin a.m.free /\ law4[h1] = l1
      BY <2>3, <2>5, <2>9, <2>14 DEF Kept
    <3>4. h0 \in Nat /\ h1 \in Nat /\ h0 # Null /\ h1 # Null
      BY <2>3, <2>5, Consts
    <3>5. Mapped(a.m, law4, ros, q, TRAPFRAME, h0, {"R", "W"})
      BY <2>3, <2>10, <2>12, <2>13, <2>14, <3>3, <3>4, MapStep DEF l0
    <3>6. Mappages(a.m, ros[q], TRAPFRAME, h0, {"R", "W"}) = b
      BY <2>10
    <3>7. Table(a.m.mem, ros[q], TRAPFRAME) # Null
      BY <2>10, <2>12, <3>2
    <3> HIDE DEF b
    <3>8. PICK law5 : /\ Tidy(b.m, law5, ros)
                      /\ Kept(a.m, law4, b.m, law5, ros, q, {})
      BY <2>3, <3>5, <3>6 DEF Mapped
    <3>9. /\ Outcome(a.m, rt, TRAPFRAME, h0, b)
          /\ b.m.free = a.m.free
      BY <2>10, <3>5, <3>6, <3>7 DEF Mapped
    <3>10. /\ Table(b.m.mem, rt, USYSCALL) # Null /\ Has(b.m.mem, rt, TRAPFRAME)
      BY <2>3, <2>12, <3>2, <3>9 DEF Outcome, Has
    <3>11. h1 \notin b.m.free /\ law5[h1] = l1
      BY <2>5, <3>3, <3>8 DEF Kept
    <3>12. Mapped(b.m, law5, ros, q, USYSCALL, h1, {"R", "U"})
      BY <2>5, <2>10, <2>12, <2>13, <3>4, <3>8, <3>11, MapStep DEF l1
    <3>13. Mappages(b.m, ros[q], USYSCALL, h1, {"R", "U"}) = c
      BY <2>10
    <3>14. Table(b.m.mem, ros[q], USYSCALL) # Null
      BY <2>10, <3>10
    <3> HIDE DEF c
    <3>15. PICK law6 : /\ Tidy(c.m, law6, ros)
                      /\ Kept(b.m, law5, c.m, law6, ros, q, {})
      BY <2>5, <3>12, <3>13 DEF Mapped
    <3>16. /\ Outcome(b.m, rt, USYSCALL, h1, c)
           /\ c.m.free = b.m.free
      BY <2>10, <3>12, <3>13, <3>14 DEF Mapped
    <3>17. Has(c.m.mem, rt, USYSCALL)
      BY <2>5, <3>10, <3>16 DEF Outcome, Has
    <3>18. Has(c.m.mem, rt, TRAPFRAME)
      BY <2>10, <2>12, <3>10, <3>15 DEF Kept, StillHas
    <3>19. ASSUME NEW r \in Slots \ {q}, NEW v \in Vpns, rts[r] # Null,
                  Has(m0.mem, rts[r], v)
           PROVE  Has(c.m.mem, rts[r], v)
      <4>1. Has(m3.mem, rts[r], v)
        BY <2>8, <3>19 DEF Kept, StillHas
      <4>2. Has(a.m.mem, rts[r], v)
        BY <2>10, <2>14, <3>19, <4>1 DEF Kept, StillHas
      <4>3. Has(b.m.mem, rts[r], v)
        BY <2>10, <3>8, <3>19, <4>2 DEF Kept, StillHas
      <4> QED
        BY <2>10, <3>15, <3>19, <4>3 DEF Kept, StillHas
    <3>20. n.m = c.m /\ n.rt = rt /\ n.ok = TRUE
      BY <3>1
    <3>a. Others(m0, lab, c.m, law6, q)
      <4>1. Others(m0, lab, a.m, law4, q)
        BY <2>8, <2>14, OthersTrans DEF Kept
      <4>2. Others(a.m, law4, c.m, law6, q)
        BY <3>8, <3>15, OthersTrans DEF Kept
      <4> QED
        BY <4>1, <4>2, OthersTrans
    <3>21. Allocated(m0, lab, rts, q, n)
      BY <2>7, <3>15, <3>17, <3>18, <3>19, <3>20, <3>a DEF Allocated, ros
    <3>22. Contents(a.m)
      BY <2>14 DEF Tidy
    <3>23. Cardinality(a.m.free) \in Nat
      BY <3>22, FreeFinite
    <3>24. Cardinality(n.m.free) >= Cardinality(m0.free) - 5
      BY <1>1, <2>3, <2>5, <2>7, <2>15, <3>9, <3>16, <3>20, <3>23
    <3> QED
      BY <3>20, <3>21, <3>24
  <2>18. a.ok \in BOOLEAN
    <3>1. (a = [m |-> a.m, ok |-> TRUE] => a.ok = TRUE)
          /\ (a = [m |-> a.m, ok |-> FALSE] => a.ok = FALSE)
      OBVIOUS
    <3> QED
      BY <2>15, <3>1 DEF Outcome
  <2> QED
    BY <2>16, <2>17, <2>18
<1> QED
  BY <1>1, <1>2, <1>3

-----------------------------------------------------------------------------
\* The mask of pgaccss()

MaskStep(bits, b, rest) ==
  IF b = LongBits THEN 0 ELSE (IF b \in bits THEN 1 ELSE 0) + 2 * rest

IsMask(f, bits, n) == f = [b \in LongBits - n .. LongBits |-> MaskStep(bits, b, f[b + 1])]

LEMMA MaskExists ==
  ASSUME NEW bits, NEW n \in Nat
  PROVE  \E f : IsMask(f, bits, n) /\ f \in [LongBits - n .. LongBits -> Nat]
<1> DEFINE F(f, k) == IsMask(f, bits, k) /\ f \in [LongBits - k .. LongBits -> Nat]
           S == {k \in Nat : \E f : F(f, k)}
<1>0. LongBits \in Nat
  BY VmAssumption
<1>1. 0 \in S
  <2> DEFINE f == [b \in LongBits - 0 .. LongBits |-> 0]
  <2>1. \A b \in LongBits - 0 .. LongBits : b = LongBits
    BY <1>0
  <2>2. IsMask(f, bits, 0)
    BY <1>0, <2>1 DEF IsMask, MaskStep
  <2> QED
    BY <2>2
<1>2. ASSUME NEW k \in S
      PROVE  k + 1 \in S
  <2>1. PICK f : F(f, k)
    OBVIOUS
  <2> DEFINE l == LongBits - (k + 1)
             g == [b \in l .. LongBits |-> IF b = l THEN MaskStep(bits, b, f[b + 1])
                                           ELSE f[b]]
  <2>2. l + 1 \in LongBits - k .. LongBits /\ l # LongBits
    BY <1>0
  <2>3. f[l + 1] \in Nat
    BY <2>1, <2>2
  <2>4. MaskStep(bits, l, f[l + 1]) \in Nat
    BY <2>3 DEF MaskStep
  <2>5. ASSUME NEW b \in l .. LongBits
        PROVE  g[b] = MaskStep(bits, b, g[b + 1]) /\ g[b] \in Nat
    <3>1. CASE b = LongBits
      <4>1. b \in LongBits - k .. LongBits /\ b # l
        BY <1>0, <2>2, <3>1
      <4>2. g[b] = f[b] /\ f[b] \in Nat
        BY <2>1, <4>1
      <4>3. f[b] = MaskStep(bits, b, f[b + 1])
        BY <2>1, <4>1 DEF IsMask
      <4> QED
        BY <3>1, <4>2, <4>3 DEF MaskStep
    <3>2. CASE b # LongBits
      <4>1. b + 1 \in LongBits - k .. LongBits /\ b + 1 # l /\ b + 1 \in l .. LongBits
        BY <1>0, <3>2
      <4>2. g[b + 1] = f[b + 1]
        BY <4>1
      <4>3. CASE b = l
        <5>1. g[b] = MaskStep(bits, b, f[b + 1])
          BY <4>3
        <5> HIDE DEF g
        <5> QED
          BY <2>4, <4>2, <4>3, <5>1
      <4>4. CASE b # l
        <5>1. b \in LongBits - k .. LongBits
          BY <1>0, <4>4
        <5>2. g[b] = f[b] /\ f[b] \in Nat
          BY <2>1, <4>4, <5>1
        <5>3. f[b] = MaskStep(bits, b, f[b + 1])
          BY <2>1, <5>1 DEF IsMask
        <5> HIDE DEF g
        <5> QED
          BY <4>2, <5>2, <5>3
      <4> QED
        BY <4>3, <4>4
    <3> QED
      BY <3>1, <3>2
  <2>6. g = [b \in l .. LongBits |-> g[b]]
    OBVIOUS
  <2> HIDE DEF g
  <2>7. F(g, k + 1)
    BY <2>5, <2>6 DEF IsMask
  <2> QED
    BY <2>7
<1> HIDE DEF F
<1>3. S = Nat
  BY <1>1, <1>2, NatInd
<1>4. \E f : F(f, n)
  BY <1>3
<1> QED
  BY <1>4 DEF F

\* It is a number.
LEMMA MaskType ==
  ASSUME NEW bits
  PROVE  MaskOf(bits) \in Nat
<1> DEFINE G(f) == f = [b \in 0 .. LongBits |->
                          IF b = LongBits THEN 0
                          ELSE (IF b \in bits THEN 1 ELSE 0) + 2 * f[b + 1]]
           from == CHOOSE f : G(f)
<1>0. LongBits \in Nat
  BY VmAssumption
<1>1. \A f : G(f) <=> IsMask(f, bits, LongBits)
  BY <1>0 DEF IsMask, MaskStep
<1>2. G(from)
  BY <1>0, <1>1, MaskExists
<1>3. MaskOf(bits) = from[0]
  BY DEF MaskOf
<1> HIDE DEF from
<1> DEFINE T == {k \in Nat : k <= LongBits => from[LongBits - k] \in Nat}
<1>4. 0 \in T
  BY <1>0, <1>2
<1>5. ASSUME NEW k \in T
      PROVE  k + 1 \in T
  <2>1. SUFFICES ASSUME k + 1 <= LongBits
                 PROVE  from[LongBits - (k + 1)] \in Nat
    OBVIOUS
  <2> DEFINE b == LongBits - (k + 1)
  <2>2. b \in 0 .. LongBits /\ b # LongBits /\ b + 1 = LongBits - k
    BY <1>0, <2>1
  <2>3. from[b + 1] \in Nat
    BY <1>0, <2>1, <2>2
  <2> HIDE DEF b
  <2>4. from[b] = (IF b \in bits THEN 1 ELSE 0) + 2 * from[b + 1]
    BY <1>2, <2>2
  <2>5. from[b] \in Nat
    BY <2>3, <2>4
  <2> QED
    BY <2>5 DEF b
<1> HIDE DEF G
<1>6. T = Nat
  BY <1>4, <1>5, NatInd
<1>7. from[LongBits - LongBits] \in Nat
  BY <1>0, <1>6
<1> QED
  BY <1>0, <1>3, <1>7

-----------------------------------------------------------------------------
\* The initial states

LEMMA InitInv ==
  Init => VmInv
<1> SUFFICES ASSUME Init PROVE VmInv
  OBVIOUS
<1> DEFINE start == [mem |-> [q \in Phys |-> Fill(Junk)], free |-> Phys]
           none == [p \in Slots |-> Null]
           lab == [q \in Phys |-> Null]
           a == AllocProc(start, 1)
           ros == [none EXCEPT ![First] = a.rt]
           u == MapNew(a.m, a.rt, 0, Fill(Zero), {"R", "W", "X", "U"})
<1>0. First \in Slots
  BY VmAssumption DEF First
<1>1. Tidy(start, lab, none)
  BY CellTypes, Consts DEF Tidy, Contents
<1>2. Cardinality(start.free) = NPages
  <2>1. 1 \in Int /\ NPages \in Int /\ 1 <= NPages
    BY Consts
  <2>2. Cardinality(1 .. NPages) = NPages
    BY <2>1, FS_Interval
  <2> QED
    BY <2>2 DEF Phys
<1> HIDE DEF start, lab
<1>3. /\ a.ok => Allocated(start, lab, none, First, a)
      /\ Cardinality(start.free) >= 5 =>
           a.ok /\ Cardinality(a.m.free) >= Cardinality(start.free) - 5
  BY <1>0, <1>1, AllocTidy
<1>4. Allocated(start, lab, none, First, a) /\ Cardinality(a.m.free) >= NPages - 5
  BY <1>2, <1>3, Consts
<1> HIDE DEF a
<1>5. PICK law : Tidy(a.m, law, ros)
  BY <1>4 DEF Allocated
<1>6. /\ a.rt \in Phys /\ ros[First] = a.rt /\ a.rt # Null
      /\ Has(a.m.mem, a.rt, TRAPFRAME) /\ Has(a.m.mem, a.rt, USYSCALL)
  BY <1>0, <1>4, Consts DEF Allocated
<1>7. Cardinality(a.m.free) \in Nat /\ Cardinality(a.m.free) >= 3
  <2>1. Contents(a.m)
    BY <1>5 DEF Tidy
  <2>2. Cardinality(a.m.free) \in Nat
    BY <2>1, FreeFinite
  <2> QED
    BY <1>4, <2>2, Consts
<1>8. 0 \in Vpns /\ TRAPFRAME \in Vpns /\ USYSCALL \in Vpns
  BY BelowMax, MaxVa, Top
<1>9. Fill(Zero) \in [Offsets -> Ptes] /\ {"R", "W", "X", "U"} \in SUBSET Flags
  BY CellTypes DEF Flags
<1>10. u = MapNew(a.m, ros[First], 0, Fill(Zero), {"R", "W", "X", "U"})
  BY <1>6
<1> HIDE DEF u, ros
<1>11. /\ \E lax : Tidy(u.m, lax, ros) /\ Kept(a.m, law, u.m, lax, ros, First, {})
       /\ NewOutcome(a.m, ros[First], 0, u)
  BY <1>0, <1>5, <1>6, <1>8, <1>9, <1>10, MapNewTidy
<1>12. PICK lax : Tidy(u.m, lax, ros) /\ Kept(a.m, law, u.m, lax, ros, First, {})
  BY <1>11
<1>13. Has(u.m.mem, a.rt, 0)
  BY <1>6, <1>7, <1>11 DEF NewOutcome
<1>14. Has(u.m.mem, a.rt, TRAPFRAME) /\ Has(u.m.mem, a.rt, USYSCALL)
  BY <1>0, <1>6, <1>8, <1>12 DEF Kept, StillHas
<1>15. /\ mem = u.m.mem /\ free = u.m.free
       /\ root = [p \in Slots |-> IF p = First THEN a.rt ELSE Null]
       /\ sz   = [p \in Slots |-> IF p = First THEN 1 ELSE 0]
       /\ nextpid = 2 /\ panicked = FALSE
  BY DEF Init, u, a, start
<1>16. root = ros
  BY <1>15 DEF ros
<1>17. Memory = u.m
  BY <1>12, <1>15 DEF Tidy, Contents, Memory
<1>18. sz \in [Slots -> 0 .. MaxSz]
  BY <1>15, VmAssumption, MaxVa
<1>19. root \in [Slots -> Phys \cup {Null}]
  BY <1>6, <1>15
<1>20. VTypeOK
  BY <1>12, <1>15, <1>17, <1>18, <1>19 DEF VTypeOK, Tidy
<1>21. ASSUME NEW p \in Live, NEW pg \in Needed(p)
       PROVE  Has(mem, root[p], pg)
  <2>1. p = First
    BY <1>15 DEF Live
  <2>2. root[p] = a.rt /\ sz[p] = 1
    BY <1>0, <1>15, <2>1
  <2>3. pg \in {0, TRAPFRAME, USYSCALL}
    BY <2>2 DEF Needed
  <2> QED
    BY <1>13, <1>14, <1>15, <2>2, <2>3
<1> QED
  BY <1>12, <1>16, <1>17, <1>20, <1>21 DEF VmInv

-----------------------------------------------------------------------------
\* Steps

LEMMA StepInv ==
  ASSUME NEW m, Becomes(m), \E lab : Tidy(m, lab, root'),
         root' \in [Slots -> Phys \cup {Null}], sz' \in [Slots -> 0 .. MaxSz],
         nextpid' \in Nat, panicked' \in BOOLEAN,
         \A p \in Slots : root'[p] # Null =>
           \A pg \in (0 .. sz'[p] - 1) \cup {TRAPFRAME, USYSCALL} :
             Has(m.mem, root'[p], pg)
  PROVE  VmInv'
<1>1. m = [mem |-> m.mem, free |-> m.free] /\ Contents(m)
  BY DEF Tidy, Contents
<1>2. Memory' = m /\ mem' = m.mem
  BY <1>1 DEF Memory, Becomes
<1>3. VTypeOK'
  BY <1>1, <1>2 DEF VTypeOK
<1>4. (\A p \in Live : \A pg \in Needed(p) : Has(mem, root[p], pg))'
  BY <1>2 DEF Live, Needed
<1> QED
  BY <1>2, <1>3, <1>4 DEF VmInv

\* The pages a process can have are not those at the top.
LEMMA PageRange ==
  ASSUME VTypeOK, NEW p \in Slots
  PROVE  /\ sz[p] \in Nat /\ sz[p] <= MaxSz /\ MaxSz <= USYSCALL /\ MaxSz \in Nat
         /\ 0 .. MaxSz - 1 \subseteq Vpns
         /\ Needed(p) \subseteq Vpns
         /\ TRAPFRAME \in Vpns /\ USYSCALL \in Vpns
         /\ TRAPFRAME \notin 0 .. MaxSz - 1 /\ USYSCALL \notin 0 .. MaxSz - 1
<1>1. MaxSz \in Nat /\ MaxSz <= USYSCALL
  BY VmAssumption, MaxVa
<1>2. sz[p] \in Nat /\ sz[p] <= MaxSz
  BY <1>1 DEF VTypeOK
<1>3. \A pg \in 0 .. MaxSz - 1 : pg \in Nat /\ pg < MaxVaPage
  BY <1>1, MaxVa
<1>4. 0 .. MaxSz - 1 \subseteq Vpns
  BY <1>3, BelowMax
<1>5. TRAPFRAME \in Vpns /\ USYSCALL \in Vpns
  BY Top
<1>6. 0 .. sz[p] - 1 \subseteq 0 .. MaxSz - 1
  BY <1>1, <1>2
<1>7. TRAPFRAME \notin 0 .. MaxSz - 1 /\ USYSCALL \notin 0 .. MaxSz - 1
  BY <1>1, MaxVa
<1> QED
  BY <1>1, <1>2, <1>4, <1>5, <1>6, <1>7 DEF Needed

\* The entry of a page.
EntryIs(lab, p, pg) ==
  LET t == Table(mem, root[p], pg)
      e == Entry(root[p], pg)
  IN  /\ e \in Ptes
      /\ t # Null => /\ t \in Phys \ free /\ lab[t] = <<p, 0, PX(2, pg), PX(1, pg), 0>>
                     /\ e = mem[t][PX(0, pg)]
      /\ "V" \in e.flags => t # Null
      /\ "V" \in e.flags /\ e.pa \in Phys =>
           e.pa \notin free /\ lab[e.pa] = <<p, 3, PX(2, pg), PX(1, pg), PX(0, pg)>>
      /\ Has(mem, root[p], pg) =>
           "V" \in e.flags /\ e.pa \in Phys /\ mem[e.pa] \in [Offsets -> Ptes]

LEMMA EntryOf ==
  ASSUME NEW lab, Tidy(Memory, lab, root), NEW p \in Slots, root[p] # Null, NEW pg \in Vpns
  PROVE  EntryIs(lab, p, pg)
<1> DEFINE t == Table(mem, root[p], pg)
           e == Entry(root[p], pg)
           x == PX(2, pg)
           y == PX(1, pg)
           z == PX(0, pg)
<1>1. x \in Offsets /\ y \in Offsets /\ z \in Offsets
  BY PXType
<1>2. /\ Tree(mem, free, lab, p, root[p]) /\ mem \in [Phys -> [Offsets -> Ptes]]
  BY DEF Tidy, Contents, Memory
<1>3. t = Low(mem, root[p], x, y)
  BY DEF Table, Low, Mid
<1>4. e = IF t = Null THEN Zero ELSE mem[t][z]
  BY DEF Entry
<1>5. Leaf(mem, root[p], x, y, z) = IF t # Null /\ "V" \in mem[t][z].flags THEN mem[t][z].pa
                                    ELSE Null
  BY <1>3 DEF Leaf, Down
<1>6. Has(mem, root[p], pg) <=> Leaf(mem, root[p], x, y, z) \in Phys
  BY DEF Has
<1> HIDE DEF t, e, x, y, z
<1>7. t # Null => t \in Phys \ free /\ lab[t] = <<p, 0, x, y, 0>>
  BY <1>1, <1>2, <1>3 DEF Tree
<1>8. e \in Ptes
  BY <1>1, <1>2, <1>4, <1>7, CellTypes
<1>9. "V" \in e.flags => t # Null /\ Leaf(mem, root[p], x, y, z) = e.pa
  BY <1>4, <1>5 DEF Zero, Num, Pte
<1>10. Leaf(mem, root[p], x, y, z) \in Phys =>
         /\ Leaf(mem, root[p], x, y, z) \notin free
         /\ lab[Leaf(mem, root[p], x, y, z)] = <<p, 3, x, y, z>>
  BY <1>1, <1>2 DEF Tree
<1>11. Leaf(mem, root[p], x, y, z) \in Phys => "V" \in e.flags
  BY <1>4, <1>5, Consts
<1> QED
  BY <1>2, <1>4, <1>6, <1>7, <1>8, <1>9, <1>10, <1>11 DEF EntryIs, t, e, x, y, z

\* What a step leaves alone but for the pages of p, it leaves alone for the others.
Alone(p) == \A r \in Slots \ {p} : Mine(r)' = Mine(r)

LEMMA OthersAlone ==
  ASSUME VmInv, NEW lab, Tidy(Memory, lab, root), NEW m, Becomes(m), NEW law, NEW p,
         Others(Memory, lab, m, law, p),
         \A r \in Slots \ {p} : root'[r] = root[r] /\ sz'[r] = sz[r]
  PROVE  Alone(p)
<1> SUFFICES ASSUME NEW r \in Slots \ {p} PROVE Mine(r)' = Mine(r)
  BY DEF Alone
<1>1. VTypeOK /\ (root[r] # Null => \A pg \in Needed(r) : Has(mem, root[r], pg))
  BY DEF VmInv, Live
<1>2. root'[r] = root[r] /\ Needed(r)' = Needed(r)
  BY DEF Needed
<1>3. CASE root[r] = Null
  BY <1>2, <1>3 DEF Mine
<1>4. CASE root[r] # Null
  <2>1. \A q \in Phys \ free : lab[q][1] = r => mem'[q] = mem[q]
    BY DEF Others, Becomes, Memory
  <2>2. ASSUME NEW pg \in Needed(r)
        PROVE  /\ Entry(root[r], pg)' = Entry(root[r], pg)
               /\ mem'[Entry(root[r], pg).pa] = mem[Entry(root[r], pg).pa]
    <3> DEFINE rt == root[r]
               d == Down(mem, rt, PX(2, pg))
               t == Down(mem, d, PX(1, pg))
    <3>1. pg \in Vpns
      BY <1>1, PageRange
    <3>2. PX(2, pg) \in Offsets /\ PX(1, pg) \in Offsets
      BY <3>1, PXType
    <3>3. EntryIs(lab, r, pg) /\ Has(mem, rt, pg)
      BY <1>1, <1>4, <3>1, EntryOf
    <3>4. Tree(mem, free, lab, r, rt)
      BY <1>4 DEF Tidy, Memory
    <3>5. mem'[rt] = mem[rt]
      BY <2>1, <3>4 DEF Tree
    <3>6. d # Null => mem'[d] = mem[d]
      BY <2>1, <3>2, <3>4 DEF Tree, Mid
    <3>7. t # Null /\ mem'[t] = mem[t] /\ t = Table(mem, rt, pg)
      BY <2>1, <3>3 DEF EntryIs, Table
    <3>8. Down(mem', rt, PX(2, pg)) = d
      BY <3>5 DEF Down
    <3> HIDE DEF d
    <3>9. Down(mem', d, PX(1, pg)) = t
      BY <3>6 DEF Down
    <3>10. Table(mem', rt, pg) = t
      BY <3>8, <3>9 DEF Table
    <3> HIDE DEF t
    <3>11. Entry(root[r], pg)' = Entry(root[r], pg)
      BY <1>2, <3>7, <3>10 DEF Entry
    <3> QED
      BY <2>1, <3>3, <3>11 DEF EntryIs
  <2> QED
    BY <1>2, <2>2 DEF Mine
<1> QED
  BY <1>3, <1>4

LEMMA SameAlone ==
  ASSUME UNCHANGED <<mem, root, sz>>, NEW p
  PROVE  Alone(p)
  BY DEF Alone, Mine, Needed, Entry

LEMMA GrowInv ==
  ASSUME VmInv, NEW p \in Slots, root[p] # Null, NEW n \in Counts, Grow(p, n),
         UNCHANGED panicked
  PROVE  VmInv' /\ Alone(p)
<1> DEFINE from == sz[p]
           to == sz[p] + n
           new == from .. to - 1
           blank == [pg \in new |-> Fill(Zero)]
           perm == [pg \in new |-> {"R", "U", "W"}]
           r == MapAll(Memory, root[p], from, to, blank, perm)
<1>1. PICK lab : Tidy(Memory, lab, root)
  BY DEF VmInv
<1>2. VTypeOK /\ \A q \in Slots : root[q] # Null => \A pg \in Needed(q) : Has(mem, root[q], pg)
  BY DEF VmInv, Live
<1>3. n \in Nat /\ from \in Nat /\ to \in Nat /\ from <= to /\ to <= MaxSz
  BY <1>2, PageRange, VmAssumption DEF Grow
<1>4. new \subseteq Vpns
  BY <1>2, <1>3, PageRange
<1>5. /\ \A k \in new : blank[k] \in [Offsets -> Ptes]
      /\ \A k \in new : perm[k] \in SUBSET Flags
  BY CellTypes DEF Flags
<1>6. /\ Becomes(r.m) /\ UNCHANGED <<root, nextpid>>
      /\ sz' = IF r.ok THEN [sz EXCEPT ![p] = @ + n] ELSE sz
  <2>1. sz[p] + n - 1 = to - 1
    BY <1>3
  <2> QED
    BY <2>1 DEF Grow
<1> HIDE DEF blank, perm, new
<1>7. /\ \E law : Tidy(r.m, law, root) /\ Others(Memory, lab, r.m, law, p)
      /\ StillHas(Memory, r.m, root, p, new)
      /\ r.ok \in BOOLEAN
      /\ r.ok => \A pg \in new : Has(r.m.mem, root[p], pg)
  BY <1>1, <1>3, <1>4, <1>5, MapAllTidy DEF new
<1> HIDE DEF r
<1>8. \A q \in Slots : root[q] # Null => Needed(q) \subseteq Vpns
  BY <1>2, PageRange
<1>9. \A pg \in Needed(p) : pg \notin new
  BY <1>2, <1>3, PageRange DEF Needed, new
<1>10. Memory.mem = mem
  BY DEF Memory
<1>11. \A q \in Slots : root[q] # Null => \A pg \in Needed(q) : Has(r.m.mem, root[q], pg)
  BY <1>2, <1>7, <1>8, <1>9, <1>10 DEF StillHas
<1>12. root' \in [Slots -> Phys \cup {Null}] /\ nextpid' \in Nat /\ panicked' \in BOOLEAN
  BY <1>2, <1>6 DEF VTypeOK
<1>13. sz' \in [Slots -> 0 .. MaxSz]
  BY <1>2, <1>3, <1>6 DEF VTypeOK
<1>14. ASSUME NEW q \in Slots, root'[q] # Null,
              NEW pg \in (0 .. sz'[q] - 1) \cup {TRAPFRAME, USYSCALL}
       PROVE  Has(r.m.mem, root'[q], pg)
  <2>1. CASE pg \in Needed(q)
    BY <1>6, <1>11, <1>14, <2>1
  <2>2. CASE pg \notin Needed(q)
    <3>1. q = p /\ r.ok /\ sz'[p] = to
      BY <1>2, <1>6, <1>14, <2>2 DEF Needed, VTypeOK
    <3>2. pg \in new
      BY <1>2, <1>3, <1>14, <2>2, <3>1, PageRange DEF Needed, new
    <3> QED
      BY <1>6, <1>7, <3>1, <3>2
  <2> QED
    BY <2>1, <2>2
<1>15. \A q \in Slots \ {p} : root'[q] = root[q] /\ sz'[q] = sz[q]
  BY <1>2, <1>6 DEF VTypeOK
<1>16. Alone(p)
  BY <1>1, <1>6, <1>7, <1>15, OthersAlone
<1> QED
  BY <1>6, <1>7, <1>12, <1>13, <1>14, <1>16, StepInv

LEMMA SameInv ==
  ASSUME VmInv, UNCHANGED <<mem, free, root, sz>>, nextpid' \in Nat, panicked' \in BOOLEAN
  PROVE  VmInv'
  BY DEF VmInv, VTypeOK, Memory, Live, Needed

LEMMA ForkInv ==
  ASSUME VmInv, NEW p \in Slots, root[p] # Null, NEW q \in Slots, Fork(p, q),
         UNCHANGED panicked
  PROVE  VmInv' /\ Alone(q)
<1> DEFINE a == AllocProc(Memory, nextpid)
           copied == [pg \in 0 .. sz[p] - 1 |-> mem[Entry(root[p], pg).pa]]
           flags  == [pg \in 0 .. sz[p] - 1 |-> Entry(root[p], pg).flags]
           c == MapAll(a.m, a.rt, 0, sz[p], copied, flags)
           ros == [root EXCEPT ![q] = a.rt]
           new == 0 .. sz[p] - 1
<1>1. PICK lab : Tidy(Memory, lab, root)
  BY DEF VmInv
<1>2. VTypeOK /\ \A r \in Slots : root[r] # Null => \A pg \in Needed(r) : Has(mem, root[r], pg)
  BY DEF VmInv, Live
<1>3. /\ root[q] = Null /\ nextpid' \in Nat /\ panicked' \in BOOLEAN
      /\ IF a.ok /\ c.ok
         THEN /\ Becomes(c.m) /\ root' = ros /\ sz' = [sz EXCEPT ![q] = sz[p]]
         ELSE UNCHANGED <<mem, free, root, sz>>
  BY <1>2 DEF Fork, VTypeOK
<1>4. CASE ~ (a.ok /\ c.ok)
  BY <1>3, <1>4, SameInv, SameAlone
<1>5. CASE a.ok /\ c.ok
  <2>1. /\ sz[p] \in Nat /\ 0 <= sz[p] /\ 0 \in Nat /\ new \subseteq Vpns
        /\ new \subseteq Needed(p)
    BY <1>2, PageRange DEF Needed
  <2>2. /\ \A k \in new : copied[k] \in [Offsets -> Ptes]
        /\ \A k \in new : flags[k] \in SUBSET Flags
    <3>1. ASSUME NEW k \in new
          PROVE  mem[Entry(root[p], k).pa] \in [Offsets -> Ptes]
                 /\ Entry(root[p], k).flags \in SUBSET Flags
      <4>1. EntryIs(lab, p, k)
        BY <1>1, <2>1, EntryOf
      <4>2. Has(mem, root[p], k)
        BY <1>2, <2>1
      <4> QED
        BY <4>1, <4>2 DEF EntryIs, Ptes, Cells, Flags
    <3> QED
      BY <3>1
  <2>3. /\ a.ok => Allocated(Memory, lab, root, q, a)
    <3>1. root = [r \in Slots |-> root[r]] /\ DOMAIN root = Slots /\ nextpid \in Nat
      BY <1>2 DEF VTypeOK
    <3> QED
      BY <1>1, <1>3, <3>1, AllocTidy
  <2> HIDE DEF a, copied, flags
  <2>4. PICK law : Tidy(a.m, law, ros) /\ Others(Memory, lab, a.m, law, q)
    BY <1>5, <2>3 DEF Allocated
  <2>5. /\ a.rt \in Phys /\ a.rt # Null /\ ros[q] = a.rt
        /\ \A r \in Slots \ {q} : ros[r] = root[r]
        /\ Has(a.m.mem, a.rt, TRAPFRAME) /\ Has(a.m.mem, a.rt, USYSCALL)
        /\ \A r \in Slots \ {q}, v \in Vpns :
             root[r] # Null /\ Has(mem, root[r], v) => Has(a.m.mem, root[r], v)
        /\ ros \in [Slots -> Phys \cup {Null}]
    BY <1>2, <1>5, <2>3, Consts DEF Allocated, VTypeOK, Memory
  <2> HIDE DEF ros
  <2>6. c = MapAll(a.m, ros[q], 0, sz[p], copied, flags)
    BY <2>5
  <2> HIDE DEF c
  <2>7. /\ \E lax : Tidy(c.m, lax, ros) /\ Others(a.m, law, c.m, lax, q)
        /\ StillHas(a.m, c.m, ros, q, new)
        /\ c.ok => \A pg \in new : Has(c.m.mem, ros[q], pg)
    BY <2>1, <2>2, <2>4, <2>5, <2>6, MapAllTidy
  <2>8. Has(c.m.mem, a.rt, TRAPFRAME) /\ Has(c.m.mem, a.rt, USYSCALL)
    <3>1. TRAPFRAME \notin new /\ USYSCALL \notin new /\ TRAPFRAME \in Vpns /\ USYSCALL \in Vpns
      BY <1>2, PageRange
    <3> QED
      BY <2>5, <2>7, <3>1 DEF StillHas
  <2>9. sz' \in [Slots -> 0 .. MaxSz]
    BY <1>2, <1>3, <1>5 DEF VTypeOK
  <2>10. ASSUME NEW r \in Slots, root'[r] # Null,
                NEW pg \in (0 .. sz'[r] - 1) \cup {TRAPFRAME, USYSCALL}
         PROVE  Has(c.m.mem, root'[r], pg)
    <3>1. CASE r = q
      <4>1. sz'[r] = sz[p]
        BY <1>2, <1>3, <1>5, <3>1 DEF VTypeOK
      <4> QED
        BY <1>3, <1>5, <2>5, <2>7, <2>8, <2>10, <3>1, <4>1
    <3>2. CASE r # q
      <4>1. sz'[r] = sz[r] /\ root'[r] = root[r] /\ ros[r] = root[r]
        BY <1>2, <1>3, <1>5, <2>5, <3>2 DEF VTypeOK
      <4>2. pg \in Needed(r) /\ pg \in Vpns
        BY <1>2, <2>10, <4>1, PageRange DEF Needed
      <4>3. Has(a.m.mem, root[r], pg)
        BY <1>2, <2>5, <2>10, <3>2, <4>1, <4>2
      <4> QED
        BY <2>7, <2>10, <3>2, <4>1, <4>2, <4>3 DEF StillHas
    <3> QED
      BY <3>1, <3>2
  <2>11. Alone(q)
    <3>1. PICK lax : Others(a.m, law, c.m, lax, q)
      BY <2>7
    <3>2. Others(Memory, lab, c.m, lax, q)
      BY <2>4, <3>1, OthersTrans
    <3>3. \A r \in Slots \ {q} : root'[r] = root[r] /\ sz'[r] = sz[r]
      BY <1>2, <1>3, <1>5, <2>5 DEF VTypeOK
    <3> QED
      BY <1>1, <1>3, <1>5, <3>2, <3>3, OthersAlone
  <2> QED
    BY <1>3, <1>5, <2>5, <2>7, <2>9, <2>10, <2>11, StepInv
<1> QED
  BY <1>4, <1>5

LEMMA ShrinkInv ==
  ASSUME VmInv, NEW p \in Slots, root[p] # Null, NEW n \in Counts, Shrink(p, n),
         UNCHANGED panicked
  PROVE  VmInv' /\ Alone(p)
<1> DEFINE old == sz[p] - n .. sz[p] - 1
           m == Unmap(Memory, root[p], old)
<1>1. PICK lab : Tidy(Memory, lab, root)
  BY DEF VmInv
<1>2. VTypeOK /\ \A r \in Slots : root[r] # Null => \A pg \in Needed(r) : Has(mem, root[r], pg)
  BY DEF VmInv, Live
<1>3. /\ n \in Nat /\ n <= sz[p] /\ sz[p] \in Nat
      /\ Becomes(m) /\ sz' = [sz EXCEPT ![p] = @ - n] /\ UNCHANGED <<root, nextpid>>
  BY <1>2, PageRange, VmAssumption DEF Shrink
<1>4. old \subseteq Vpns /\ old \subseteq Needed(p)
  BY <1>2, <1>3, PageRange DEF Needed
<1>5. Memory.mem = mem
  BY DEF Memory
<1>6. /\ Tidy(m, lab, root) /\ StillHas(Memory, m, root, p, old)
      /\ Others(Memory, lab, m, lab, p)
  BY <1>1, <1>2, <1>4, <1>5, UnmapTidy
<1> HIDE DEF m
<1>7. sz' \in [Slots -> 0 .. MaxSz]
  BY <1>2, <1>3, PageRange DEF VTypeOK
<1>8. ASSUME NEW r \in Slots, root'[r] # Null,
             NEW pg \in (0 .. sz'[r] - 1) \cup {TRAPFRAME, USYSCALL}
      PROVE  Has(m.mem, root'[r], pg)
  <2>1. sz'[r] = IF r = p THEN sz[r] - n ELSE sz[r]
    BY <1>2, <1>3 DEF VTypeOK
  <2>2. pg \in Needed(r) /\ pg \in Vpns
    BY <1>2, <1>3, <1>8, <2>1, PageRange DEF Needed
  <2>3. r = p => pg \notin old
    <3>1. TRAPFRAME \notin old /\ USYSCALL \notin old
      BY <1>2, <1>3, PageRange
    <3> QED
      BY <1>3, <1>8, <2>1, <3>1
  <2> QED
    BY <1>2, <1>3, <1>5, <1>6, <1>8, <2>2, <2>3 DEF StillHas
<1>9. \A r \in Slots \ {p} : root'[r] = root[r] /\ sz'[r] = sz[r]
  BY <1>2, <1>3 DEF VTypeOK
<1>10. Alone(p)
  BY <1>1, <1>3, <1>6, <1>9, OthersAlone
<1> QED
  BY <1>2, <1>3, <1>6, <1>7, <1>8, <1>10, StepInv DEF VTypeOK

\* The tables of a process are in use, and at its places,
LEMMA TablesAre ==
  ASSUME NEW lab, Tidy(Memory, lab, root), NEW p \in Slots, root[p] # Null
  PROVE  \A h \in Tables(root[p]) : h \in Phys \ free /\ lab[h][1] = p /\ lab[h][2] # 3
<1> DEFINE rt == root[p]
<1>1. /\ Tree(mem, free, lab, p, rt) /\ mem \in [Phys -> [Offsets -> Ptes]]
  BY DEF Tidy, Contents, Memory
<1>2. rt \in Phys \ free /\ lab[rt] = <<p, 2, 0, 0, 0>>
  BY <1>1 DEF Tree
<1> HIDE DEF rt
<1>3. ASSUME NEW t \in Phys, NEW h \in Below(t)
      PROVE  \E x \in Offsets : h = Down(mem, t, x) /\ h # Null
  <2>1. PICK x \in Offsets : h = mem[t][x].pa /\ "V" \in mem[t][x].flags
    BY DEF Below
  <2>2. h # Null /\ t # Null
    BY <1>1, <2>1, Consts DEF Ptes
  <2> QED
    BY <2>1, <2>2 DEF Down
<1>4. ASSUME NEW h \in Below(rt)
      PROVE  \E x \in Offsets : h = Mid(mem, rt, x) /\ h \in Phys \ free /\ lab[h] = <<p, 1, x, 0, 0>>
  BY <1>1, <1>2, <1>3 DEF Mid, Tree
<1>5. ASSUME NEW t \in Below(rt), NEW h \in Below(t)
      PROVE  h \in Phys \ free /\ lab[h][1] = p /\ lab[h][2] # 3
  <2>1. PICK x \in Offsets : t = Mid(mem, rt, x) /\ t \in Phys
    BY <1>4
  <2>2. PICK y \in Offsets : h = Low(mem, rt, x, y) /\ h # Null
    BY <1>3, <2>1 DEF Low
  <2>3. h \in Phys \ free /\ lab[h] = <<p, 0, x, y, 0>>
    BY <1>1, <2>2 DEF Tree
  <2> QED
    BY <2>3
<1> QED
  BY <1>2, <1>4, <1>5 DEF Tables, rt

\* and so are the other pages that go with it.
LEMMA OwnedIs ==
  ASSUME NEW lab, Tidy(Memory, lab, root), NEW p \in Slots, root[p] # Null, VTypeOK,
         \A pg \in Needed(p) : Has(mem, root[p], pg)
  PROVE  \A h \in Owned(p) : h \in Phys \ free /\ lab[h][1] = p
<1>1. ASSUME NEW pg \in Needed(p)
      PROVE  Entry(root[p], pg).pa \in Phys \ free /\ lab[Entry(root[p], pg).pa][1] = p
  <2>1. EntryIs(lab, p, pg)
    BY PageRange, EntryOf
  <2> QED
    BY <2>1 DEF EntryIs
<1>2. \A h \in Pages(p) \cup Extras(p) : \E pg \in Needed(p) : h = Entry(root[p], pg).pa
  BY DEF Pages, Extras, Needed
<1>3. \A h \in Tables(root[p]) : h \in Phys \ free /\ lab[h][1] = p
  BY TablesAre
<1> QED
  BY <1>1, <1>2, <1>3 DEF Owned

LEMMA ExitInv ==
  ASSUME VmInv, NEW p \in Slots, root[p] # Null, Exit(p), UNCHANGED panicked
  PROVE  VmInv' /\ Alone(p)
<1> DEFINE P == Owned(p)
           m == Give(Memory, P)
           ros == [root EXCEPT ![p] = Null]
<1>1. PICK lab : Tidy(Memory, lab, root)
  BY DEF VmInv
<1>2. VTypeOK /\ \A r \in Slots : root[r] # Null => \A pg \in Needed(r) : Has(mem, root[r], pg)
  BY DEF VmInv, Live
<1>3. /\ Becomes(m) /\ root' = ros /\ sz' = [sz EXCEPT ![p] = 0] /\ UNCHANGED nextpid
  BY DEF Exit
<1>4. /\ Memory.mem = mem /\ Memory.free = free
  BY DEF Memory
<1>5. \A h \in P : h \in Phys \ free /\ lab[h][1] = p
  BY <1>1, <1>2, OwnedIs
<1>6. \A r \in Slots : ros[r] # Null => r # p /\ root[r] = ros[r]
  BY <1>2 DEF VTypeOK
<1> HIDE DEF P
<1>7. ASSUME NEW r \in Slots, ros[r] # Null
      PROVE  /\ ros[r] \notin P
             /\ \A a \in Offsets : Mid(mem, ros[r], a) \notin P
             /\ \A a, b \in Offsets : Low(mem, ros[r], a, b) \notin P
             /\ \A a, b, c \in Offsets : Leaf(mem, ros[r], a, b, c) \notin P
  <2>1. Tree(mem, free, lab, r, ros[r]) /\ r # p
    BY <1>1, <1>4, <1>6, <1>7 DEF Tidy
  <2>2. ros[r] \notin P
    <3>1. lab[ros[r]][1] = r
      BY <2>1 DEF Tree
    <3> QED
      BY <1>5, <2>1, <3>1
  <2>3. ASSUME NEW a \in Offsets
        PROVE  Mid(mem, ros[r], a) \notin P
    <3> DEFINE h == Mid(mem, ros[r], a)
    <3>1. h # Null => lab[h][1] = r
      BY <2>1 DEF Tree
    <3> QED
      BY <1>5, <2>1, <3>1, Consts
  <2>4. ASSUME NEW a \in Offsets, NEW b \in Offsets
        PROVE  Low(mem, ros[r], a, b) \notin P
    <3> DEFINE h == Low(mem, ros[r], a, b)
    <3>1. h # Null => lab[h][1] = r
      BY <2>1 DEF Tree
    <3> QED
      BY <1>5, <2>1, <3>1, Consts
  <2>5. ASSUME NEW a \in Offsets, NEW b \in Offsets, NEW c \in Offsets
        PROVE  Leaf(mem, ros[r], a, b, c) \notin P
    <3> DEFINE h == Leaf(mem, ros[r], a, b, c)
    <3>1. h \in Phys => lab[h][1] = r
      BY <2>1 DEF Tree
    <3> QED
      BY <1>5, <2>1, <3>1
  <2> QED
    BY <2>2, <2>3, <2>4, <2>5
<1>8. /\ Tidy(m, lab, ros)
      /\ m.free = free \cup P /\ \A q \in Phys \ P : m.mem[q] = mem[q]
      /\ \A r \in Slots : ros[r] # Null =>
           \A a, b, c \in Offsets : Leaf(m.mem, ros[r], a, b, c) = Leaf(mem, ros[r], a, b, c)
  <2>1. P \in SUBSET Phys
    BY <1>5
  <2> HIDE DEF ros
  <2> QED
    BY <1>1, <1>4, <1>6, <1>7, <2>1, GiveTidy
<1> HIDE DEF m
<1>9. sz' \in [Slots -> 0 .. MaxSz] /\ root' \in [Slots -> Phys \cup {Null}]
  BY <1>2, <1>3, PageRange DEF VTypeOK
<1>10. ASSUME NEW r \in Slots, root'[r] # Null,
              NEW pg \in (0 .. sz'[r] - 1) \cup {TRAPFRAME, USYSCALL}
       PROVE  Has(m.mem, root'[r], pg)
  <2>1. r # p /\ root'[r] = root[r] /\ sz'[r] = sz[r] /\ root[r] # Null /\ ros[r] # Null
    BY <1>2, <1>3, <1>6, <1>10 DEF VTypeOK
  <2>2. pg \in Needed(r) /\ pg \in Vpns
    BY <1>2, <1>10, <2>1, PageRange DEF Needed
  <2>3. PX(2, pg) \in Offsets /\ PX(1, pg) \in Offsets /\ PX(0, pg) \in Offsets
    BY <2>2, PXType
  <2> QED
    BY <1>2, <1>3, <1>8, <2>1, <2>2, <2>3 DEF Has
<1>11. Others(Memory, lab, m, lab, p)
  BY <1>4, <1>5, <1>8 DEF Others
<1>12. \A r \in Slots \ {p} : root'[r] = root[r] /\ sz'[r] = sz[r]
  BY <1>2, <1>3 DEF VTypeOK
<1>13. Alone(p)
  BY <1>1, <1>3, <1>11, <1>12, OthersAlone
<1> QED
  BY <1>2, <1>3, <1>8, <1>9, <1>10, <1>13, StepInv DEF VTypeOK

-----------------------------------------------------------------------------
\* Data

\* The memory m has the tables of the present one, and what others than p use.
Alike(lab, m, p) ==
  /\ Contents(m) /\ m.free = free
  /\ \A q \in Phys \ free : lab[q][2] # 3 => \A x \in Offsets : Same(m.mem[q][x], mem[q][x])
  /\ \A q \in Phys \ free : lab[q][1] # p => m.mem[q] = mem[q]

LEMMA AlikeSelf ==
  ASSUME NEW lab, Tidy(Memory, lab, root), NEW p
  PROVE  Alike(lab, Memory, p)
  BY DEF Alike, Tidy, Memory, Same

LEMMA AlikeInv ==
  ASSUME VmInv, NEW lab, Tidy(Memory, lab, root), NEW m, NEW p, Alike(lab, m, p),
         Becomes(m), UNCHANGED <<root, sz, nextpid>>, panicked' \in BOOLEAN
  PROVE  VmInv' /\ Alone(p)
<1>1. VTypeOK /\ \A r \in Slots : root[r] # Null => \A pg \in Needed(r) : Has(mem, root[r], pg)
  BY DEF VmInv, Live
<1>2. /\ Memory.mem = mem /\ Memory.free = free
  BY DEF Memory
<1>3. ASSUME NEW r \in Slots, root[r] # Null
      PROVE  /\ Tree(m.mem, m.free, lab, r, root[r])
             /\ \A a, b, c \in Offsets : Leaf(m.mem, root[r], a, b, c) = Leaf(mem, root[r], a, b, c)
  <2>1. Tree(mem, free, lab, r, root[r])
    BY <1>2, <1>3 DEF Tidy
  <2>2. Still(mem, free, lab, m.mem, m.free, lab, r)
    BY DEF Still, Alike
  <2> QED
    BY <2>1, <2>2, Frame
<1>4. Tidy(m, lab, root)
  BY <1>3 DEF Tidy, Alike
<1>5. ASSUME NEW r \in Slots, root'[r] # Null,
             NEW pg \in (0 .. sz'[r] - 1) \cup {TRAPFRAME, USYSCALL}
      PROVE  Has(m.mem, root'[r], pg)
  <2>1. pg \in Needed(r) /\ pg \in Vpns /\ root'[r] = root[r]
    BY <1>1, <1>5, PageRange DEF Needed
  <2>2. PX(2, pg) \in Offsets /\ PX(1, pg) \in Offsets /\ PX(0, pg) \in Offsets
    BY <2>1, PXType
  <2> QED
    BY <1>1, <1>3, <1>5, <2>1, <2>2 DEF Has
<1>6. Others(Memory, lab, m, lab, p)
  BY <1>2 DEF Others, Alike
<1>7. Alone(p)
  BY <1>6, OthersAlone
<1> QED
  BY <1>1, <1>4, <1>5, <1>7, StepInv DEF VTypeOK

\* The flags of the entries of some pages are others; it is valid or not as before.
LEMMA FlagsAlike ==
  ASSUME NEW lab, Tidy(Memory, lab, root), NEW nn, NEW p,
         nn \in [Phys -> [Offsets -> Ptes]],
         \A q \in Phys : lab[q][1] # p => nn[q] = mem[q],
         \A q \in free : nn[q] = mem[q],
         \A q \in Phys, x \in Offsets : Same(nn[q][x], mem[q][x])
  PROVE  Alike(lab, [Memory EXCEPT !.mem = nn], p)
<1>1. [Memory EXCEPT !.mem = nn] = [mem |-> nn, free |-> free]
  BY DEF Memory
<1>2. Contents(Memory)
  BY DEF Tidy
<1> QED
  BY <1>1, <1>2 DEF Alike, Contents, Memory

\* One entry of a table of p has other flags.
LEMMA EntryAlike ==
  ASSUME NEW lab, Tidy(Memory, lab, root), NEW p \in Slots, root[p] # Null,
         NEW pg \in Vpns, Table(mem, root[p], pg) # Null,
         NEW fl \in SUBSET Flags, "V" \in fl <=> "V" \in Entry(root[p], pg).flags
  PROVE  LET t == Table(mem, root[p], pg)
             nn == [mem EXCEPT ![t][PX(0, pg)].flags = fl]
         IN  Alike(lab, [Memory EXCEPT !.mem = nn], p)
<1> DEFINE t == Table(mem, root[p], pg)
           x == PX(0, pg)
           nn == [mem EXCEPT ![t][x].flags = fl]
           e == [mem[t][x] EXCEPT !.flags = fl]
<1>1. EntryIs(lab, p, pg)
  BY EntryOf
<1>2. /\ t \in Phys \ free /\ Entry(root[p], pg) = mem[t][x] /\ x \in Offsets
  BY <1>1, PXType DEF EntryIs
<1>3. mem \in [Phys -> [Offsets -> Ptes]] /\ free \in SUBSET Phys
  BY DEF Tidy, Contents, Memory
<1> HIDE DEF t, x
<1>4. /\ nn[t] = [mem[t] EXCEPT ![x] = e]
      /\ \A q \in Phys \ {t} : nn[q] = mem[q]
      /\ nn = [q \in Phys |-> nn[q]]
  BY <1>2, <1>3
<1>5. mem[t][x] \in Ptes
  BY <1>2, <1>3
<1>6. e \in Ptes /\ Same(e, mem[t][x])
  <2>1. PICK f \in SUBSET Flags, pa \in Nat : mem[t][x] = [flags |-> f, pa |-> pa]
    BY <1>5 DEF Ptes, Cells, Flags
  <2>2. e = [flags |-> fl, pa |-> pa]
    BY <2>1
  <2>3. "V" \in fl <=> "V" \in mem[t][x].flags
    BY <1>2 DEF x
  <2> QED
    BY <1>5, <2>1, <2>2, <2>3 DEF Same, Ptes, Cells, Flags
<1> HIDE DEF nn, e
<1>7. nn[t] \in [Offsets -> Ptes]
  BY <1>2, <1>3, <1>4, <1>6
<1>8. nn \in [Phys -> [Offsets -> Ptes]]
  BY <1>3, <1>4, <1>7
<1>9. \A q \in Phys, o \in Offsets : Same(nn[q][o], mem[q][o])
  BY <1>2, <1>3, <1>4, <1>6 DEF Same
<1>10. \A q \in Phys : lab[q][1] # p => nn[q] = mem[q]
  BY <1>1, <1>2, <1>4 DEF EntryIs, t
<1>11. Alike(lab, [Memory EXCEPT !.mem = nn], p)
  BY <1>2, <1>3, <1>4, <1>8, <1>9, <1>10, FlagsAlike
<1> QED
  BY <1>11 DEF nn, t, x

LEMMA UvmclearInv ==
  ASSUME VmInv, NEW p \in Slots, root[p] # Null, NEW pg \in 0 .. sz[p] - 1,
         Uvmclear(p, pg), UNCHANGED panicked
  PROVE  VmInv' /\ Alone(p)
<1> DEFINE t == Table(mem, root[p], pg)
           fl == Entry(root[p], pg).flags \ {"U"}
           nn == [mem EXCEPT ![t][PX(0, pg)].flags = fl]
           m == [Memory EXCEPT !.mem = nn]
<1>1. PICK lab : Tidy(Memory, lab, root)
  BY DEF VmInv
<1>2. VTypeOK /\ \A q \in Needed(p) : Has(mem, root[p], q)
  BY DEF VmInv, Live
<1>3. pg \in Vpns /\ Has(mem, root[p], pg)
  BY <1>2, PageRange DEF Needed
<1>4. EntryIs(lab, p, pg)
  BY <1>1, <1>3, EntryOf
<1>5. /\ t # Null /\ t \in Phys /\ Entry(root[p], pg) = mem[t][PX(0, pg)]
      /\ fl \in SUBSET Flags /\ ("V" \in fl <=> "V" \in Entry(root[p], pg).flags)
  BY <1>3, <1>4 DEF EntryIs, Ptes, Cells, Flags
<1>6. Alike(lab, m, p)
  BY <1>1, <1>3, <1>5, EntryAlike
<1>7. mem' = [mem EXCEPT ![t][PX(0, pg)].flags = @ \ {"U"}] /\ UNCHANGED <<free, root, sz, nextpid>>
  BY DEF Uvmclear
<1>8. mem' = nn
  BY <1>5, <1>7
<1> HIDE DEF nn
<1>9. Becomes(m)
  BY <1>7, <1>8 DEF Becomes, Memory
<1> QED
  BY <1>1, <1>2, <1>6, <1>7, <1>9, AlikeInv DEF VTypeOK

\* The hardware lets the program at pages that are mapped.
LEMMA AccessedAlike ==
  ASSUME NEW lab, Tidy(Memory, lab, root), NEW p \in Slots, root[p] # Null,
         NEW pg \in Vpns, "V" \in Entry(root[p], pg).flags
  PROVE  Alike(lab, Accessed(Memory, p, pg), p)
<1> DEFINE t == Table(mem, root[p], pg)
           fl == Entry(root[p], pg).flags \cup {"A"}
           nn == [mem EXCEPT ![t][PX(0, pg)].flags = fl]
<1>1. EntryIs(lab, p, pg)
  BY EntryOf
<1>2. /\ t # Null /\ t \in Phys /\ Entry(root[p], pg) = mem[t][PX(0, pg)]
      /\ fl \in SUBSET Flags /\ ("V" \in fl <=> "V" \in Entry(root[p], pg).flags)
  BY <1>1 DEF EntryIs, Ptes, Cells, Flags
<1>3. Alike(lab, [Memory EXCEPT !.mem = nn], p)
  BY <1>2, EntryAlike
<1>4. Accessed(Memory, p, pg) = [Memory EXCEPT !.mem = nn]
  BY <1>2 DEF Accessed, Memory
<1> QED
  BY <1>3, <1>4

\* Bytes are written to pages that are mapped, and so to no table.
LEMMA WrittenAlike ==
  ASSUME NEW lab, Tidy(Memory, lab, root), NEW p \in Slots, root[p] # Null,
         NEW m, Alike(lab, m, p), NEW a, NEW s \in Seq(Nat),
         \A k \in DOMAIN s : /\ PageOf(a + k - 1) \in Vpns
                             /\ "V" \in Entry(root[p], PageOf(a + k - 1)).flags
  PROVE  Alike(lab, Written(m, root[p], a, s), p)
<1> DEFINE Ks(q, o) == {k \in DOMAIN s : /\ Entry(root[p], PageOf(a + k - 1)).pa = q
                                         /\ (a + k - 1) % PGSIZE = o}
           nn == [q \in Phys |-> [o \in Offsets |->
                    IF Ks(q, o) = {} THEN m.mem[q][o]
                    ELSE Num(s[CHOOSE k \in Ks(q, o) : TRUE])]]
           n == Written(m, root[p], a, s)
<1>1. /\ m = [mem |-> m.mem, free |-> free] /\ m.free = free
      /\ m.mem \in [Phys -> [Offsets -> Ptes]] /\ free \in SUBSET Phys
      /\ \A q \in free : m.mem[q] = Fill(Junk)
  BY DEF Alike, Contents
<1>2. n = [m EXCEPT !.mem = nn]
  BY DEF Written
<1>3. ASSUME NEW q \in Phys, NEW o \in Offsets, Ks(q, o) # {}
      PROVE  /\ q \notin free /\ lab[q][2] = 3 /\ lab[q][1] = p
             /\ Num(s[CHOOSE k \in Ks(q, o) : TRUE]) \in Ptes
  <2>1. PICK k \in DOMAIN s : Entry(root[p], PageOf(a + k - 1)).pa = q
    BY <1>3
  <2>2. EntryIs(lab, p, PageOf(a + k - 1))
    BY EntryOf
  <2>3. q \notin free /\ lab[q][2] = 3 /\ lab[q][1] = p
    BY <2>1, <2>2 DEF EntryIs
  <2>4. (CHOOSE i \in Ks(q, o) : TRUE) \in DOMAIN s
    BY <1>3
  <2>5. s[CHOOSE i \in Ks(q, o) : TRUE] \in Nat
    BY <2>4
  <2> QED
    BY <2>3, <2>5, CellTypes
<1>4. \A q \in Phys, o \in Offsets :
        nn[q][o] = IF Ks(q, o) = {} THEN m.mem[q][o]
                   ELSE Num(s[CHOOSE k \in Ks(q, o) : TRUE])
  OBVIOUS
<1>5. nn = [q \in Phys |-> nn[q]] /\ \A q \in Phys : nn[q] = [o \in Offsets |-> nn[q][o]]
  OBVIOUS
<1> HIDE DEF Ks, nn
<1>6. nn \in [Phys -> [Offsets -> Ptes]]
  <2>1. ASSUME NEW q \in Phys, NEW o \in Offsets
        PROVE  nn[q][o] \in Ptes
    <3>1. m.mem[q][o] \in Ptes
      BY <1>1
    <3>2. Ks(q, o) # {} => Num(s[CHOOSE k \in Ks(q, o) : TRUE]) \in Ptes
      BY <1>3
    <3>3. nn[q][o] = IF Ks(q, o) = {} THEN m.mem[q][o]
                     ELSE Num(s[CHOOSE k \in Ks(q, o) : TRUE])
      BY <1>4
    <3> QED
      BY <3>1, <3>2, <3>3
  <2>2. \A q \in Phys : nn[q] \in [Offsets -> Ptes]
    BY <1>5, <2>1
  <2> QED
    BY <1>5, <2>2
<1>7. ASSUME NEW q \in Phys, q \in free \/ lab[q][2] # 3 \/ lab[q][1] # p
      PROVE  nn[q] = m.mem[q]
  <2>1. \A o \in Offsets : nn[q][o] = m.mem[q][o]
    BY <1>3, <1>4, <1>7
  <2>2. m.mem[q] \in [Offsets -> Ptes]
    BY <1>1
  <2> QED
    BY <1>5, <2>1, <2>2
<1>8. n = [mem |-> nn, free |-> free]
  <2>1. \A f : [[mem |-> f, free |-> free] EXCEPT !.mem = nn] = [mem |-> nn, free |-> free]
    OBVIOUS
  <2> QED
    BY <1>1, <1>2, <2>1
<1> HIDE DEF n
<1>9. Contents(n)
  BY <1>1, <1>6, <1>7, <1>8 DEF Contents
<1>10. \A q \in Phys \ free : lab[q][2] # 3 => \A x \in Offsets : Same(n.mem[q][x], mem[q][x])
  BY <1>7, <1>8 DEF Alike
<1>11. \A q \in Phys \ free : lab[q][1] # p => n.mem[q] = mem[q]
  BY <1>7, <1>8 DEF Alike
<1>12. Alike(lab, n, p)
  BY <1>8, <1>9, <1>10, <1>11 DEF Alike
<1> QED
  BY <1>12 DEF n

-----------------------------------------------------------------------------
\* How far a copy gets

LEMMA DivMono ==
  ASSUME NEW n \in Nat, NEW k \in Nat, n <= k, NEW d \in Nat \ {0}
  PROVE  n \div d <= k \div d
<1> DEFINE u == n \div d
           v == k \div d
<1>1. u \in Nat /\ n % d \in 0 .. d - 1 /\ n = d * u + (n % d)
  BY DivDef
<1>2. v \in Nat /\ k % d \in 0 .. d - 1 /\ k = d * v + (k % d)
  BY DivDef
<1> HIDE DEF u, v
<1>3. SUFFICES ASSUME v + 1 <= u PROVE FALSE
  BY <1>1, <1>2 DEF u, v
<1>4. d * (v + 1) <= d * u
  BY <1>1, <1>2, <1>3, TimesLe
<1>5. d * (v + 1) = d * v + d /\ d * v \in Nat /\ d * u \in Nat
  BY <1>1, <1>2, Times
<1> QED
  BY <1>1, <1>2, <1>4, <1>5

LEMMA DivBelow ==
  ASSUME NEW n \in Nat, NEW k \in Nat, NEW d \in Nat \ {0}, n < (k + 1) * d
  PROVE  n \div d <= k
<1> DEFINE u == n \div d
<1>1. u \in Nat /\ n % d \in 0 .. d - 1 /\ n = d * u + (n % d)
  BY DivDef
<1> HIDE DEF u
<1>2. SUFFICES ASSUME k + 1 <= u PROVE FALSE
  BY <1>1 DEF u
<1>3. d * (k + 1) <= d * u
  BY <1>1, <1>2, TimesLe
<1>4. d * (k + 1) = (k + 1) * d /\ d * u \in Nat /\ (k + 1) * d \in Nat
  BY <1>1, Times
<1> QED
  BY <1>1, <1>3, <1>4

LEMMA DivAbove ==
  ASSUME NEW n \in Nat, NEW k \in Nat, NEW d \in Nat \ {0}, n \div d <= k
  PROVE  (k + 1) * d - n \in Nat
<1> DEFINE u == n \div d
<1>1. u \in Nat /\ n % d \in 0 .. d - 1 /\ n = d * u + (n % d)
  BY DivDef
<1> HIDE DEF u
<1>2. d * (u + 1) <= d * (k + 1)
  BY <1>1, TimesLe DEF u
<1>3. d * (k + 1) = (k + 1) * d /\ d * u \in Nat /\ (k + 1) * d \in Nat
      /\ d * (u + 1) = d * u + d
  BY <1>1, Times
<1> QED
  BY <1>1, <1>2, <1>3

LEMMA GreatestOf ==
  ASSUME NEW S \in SUBSET Nat, S # {}, NEW b \in Nat, \A k \in S : k <= b
  PROVE  Max(S) \in S /\ \A k \in S : k <= Max(S)
<1> DEFINE T == {b - k : k \in S}
<1>1. T \in SUBSET Nat /\ T # {}
  OBVIOUS
<1>2. Min(T) \in T /\ \A k \in T : Min(T) <= k
  BY <1>1, LeastOf
<1> DEFINE l == Min(T)
<1> HIDE DEF l
<1>3. PICK g \in S : l = b - g
  BY <1>2 DEF l
<1> HIDE DEF T
<1>4. \A k \in S : k <= g
  <2>1. ASSUME NEW k \in S
        PROVE  k <= g
    <3>1. l <= b - k
      BY <1>2 DEF T, l
    <3> QED
      BY <1>3, <3>1
  <2> QED
    BY <2>1
<1>5. Max(S) = CHOOSE x \in S : \A y \in S : x >= y
  BY DEF Max
<1> QED
  BY <1>3, <1>4, <1>5

\* The bytes that are reached are on pages with the flags.
LEMMA ReachedPages ==
  ASSUME NEW rt, NEW a \in Nat, NEW n \in Nat \ {0}, NEW flags
  PROVE  LET r == Reached(rt, a, n, flags)
         IN  /\ r \in 0 .. n
             /\ \A k \in 1 .. r : /\ PageOf(a + k - 1) \in Vpns
                                  /\ flags \subseteq Entry(rt, PageOf(a + k - 1)).flags
<1> DEFINE ok(pg) == pg < MaxVaPage /\ flags \subseteq Entry(rt, pg).flags
           from == PageOf(a)
           to == PageOf(a + n - 1)
           pages == {pg \in from .. to : \A below \in from .. pg : ok(below)}
           r == Reached(rt, a, n, flags)
           last == Max(pages)
           far == (last + 1) * PGSIZE - a
<1>0. PGSIZE \in Nat \ {0}
  BY Consts
<1>1. from \in Nat /\ to \in Nat
  <2>1. a + n - 1 \in Nat
    OBVIOUS
  <2> QED
    BY <1>0, <2>1, DivDef DEF PageOf
<1>2. r = IF pages = {} THEN 0 ELSE Min({n, far})
  BY DEF Reached
<1>3. CASE pages = {}
  BY <1>2, <1>3
<1>4. CASE pages # {}
  <2>1. last \in pages
    <3>1. pages \in SUBSET Nat /\ \A k \in pages : k <= to
      BY <1>1
    <3> HIDE DEF pages
    <3> QED
      BY <1>1, <1>4, <3>1, GreatestOf
  <2>2. last \in Nat /\ from <= last /\ \A below \in from .. last : ok(below)
    BY <1>1, <2>1
  <2> HIDE DEF ok, pages, last
  <2>3. far \in Nat
    BY <1>0, <2>2, DivAbove DEF PageOf
  <2>4. (last + 1) * PGSIZE = far + a
    BY <1>0, <2>2
  <2> HIDE DEF far
  <2>5. r = Min({n, far})
    BY <1>2, <1>4
  <2>6. Min({n, far}) \in {n, far} /\ Min({n, far}) <= n /\ Min({n, far}) <= far
    BY <2>3, LeastOf
  <2>7. r \in 0 .. n /\ r <= far
    BY <2>3, <2>5, <2>6
  <2> HIDE DEF r
  <2>8. ASSUME NEW k \in 1 .. r
        PROVE  /\ PageOf(a + k - 1) \in Vpns
               /\ flags \subseteq Entry(rt, PageOf(a + k - 1)).flags
    <3>1. a + k - 1 \in Nat /\ a <= a + k - 1 /\ a + k - 1 < (last + 1) * PGSIZE
      BY <2>3, <2>4, <2>7
    <3>2. PageOf(a + k - 1) \in Nat /\ PageOf(a + k - 1) <= last
      BY <1>0, <2>2, <3>1, DivBelow, DivDef DEF PageOf
    <3>3. from <= PageOf(a + k - 1)
      BY <1>0, <3>1, DivMono DEF PageOf
    <3>4. ok(PageOf(a + k - 1))
      BY <1>1, <2>2, <3>2, <3>3
    <3> QED
      BY <3>2, <3>4, BelowMax DEF ok
  <2> QED
    BY <2>7, <2>8 DEF r
<1> QED
  BY <1>3, <1>4

-----------------------------------------------------------------------------
\* The program, copyout() and pgaccess()

LEMMA AddrIs ==
  ASSUME NEW a \in Addrs
  PROVE  a \in Nat /\ PageOf(a) \in Nat /\ PageOf(a) \in Vpns
<1>1. a \in Nat /\ PGSIZE \in Nat \ {0} /\ PX(2, PageOf(a)) < PGSIZE
  BY VmAssumption
<1>2. PageOf(a) \in Nat
  BY <1>1, DivDef DEF PageOf
<1> QED
  BY <1>1, <1>2 DEF Vpns

LEMMA LoadInv ==
  ASSUME VmInv, NEW p \in Slots, root[p] # Null, NEW a \in Addrs, Load(p, a),
         UNCHANGED panicked
  PROVE  VmInv' /\ Alone(p)
<1>1. PICK lab : Tidy(Memory, lab, root)
  BY DEF VmInv
<1>2. PageOf(a) \in Vpns /\ "V" \in Entry(root[p], PageOf(a)).flags
  BY AddrIs DEF Load, Access
<1>3. Alike(lab, Accessed(Memory, p, PageOf(a)), p)
  BY <1>1, <1>2, AccessedAlike
<1>4. Becomes(Accessed(Memory, p, PageOf(a))) /\ UNCHANGED <<root, sz, nextpid>>
  BY DEF Load
<1>5. panicked' \in BOOLEAN
  BY DEF VmInv, VTypeOK
<1> QED
  BY <1>1, <1>3, <1>4, <1>5, AlikeInv

LEMMA StoreInv ==
  ASSUME VmInv, NEW p \in Slots, root[p] # Null, NEW a \in Addrs, NEW b \in Nat,
         Store(p, a, b), UNCHANGED panicked
  PROVE  VmInv' /\ Alone(p)
<1> DEFINE m == Accessed(Memory, p, PageOf(a))
<1>1. PICK lab : Tidy(Memory, lab, root)
  BY DEF VmInv
<1>2. PageOf(a) \in Vpns /\ "V" \in Entry(root[p], PageOf(a)).flags /\ a \in Nat
  BY AddrIs DEF Store, Access
<1>3. Alike(lab, m, p)
  BY <1>1, <1>2, AccessedAlike
<1>4. <<b>> \in Seq(Nat) /\ \A k \in DOMAIN <<b>> : a + k - 1 = a
  BY <1>2
<1>5. Becomes(Written(m, root[p], a, <<b>>)) /\ UNCHANGED <<root, sz, nextpid>>
  BY DEF Store
<1> HIDE DEF m
<1>6. Alike(lab, Written(m, root[p], a, <<b>>), p)
  BY <1>1, <1>2, <1>3, <1>4, WrittenAlike
<1>7. panicked' \in BOOLEAN
  BY DEF VmInv, VTypeOK
<1> QED
  BY <1>1, <1>5, <1>6, <1>7, AlikeInv

LEMMA CopyoutInv ==
  ASSUME VmInv, NEW p \in Slots, root[p] # Null, NEW a \in Addrs, NEW s \in Data,
         Copyout(p, a, s), UNCHANGED panicked
  PROVE  VmInv' /\ Alone(p)
<1> DEFINE n == Reached(root[p], a, Len(s), CopyoutFlags)
           u == SubSeq(s, 1, n)
<1>1. PICK lab : Tidy(Memory, lab, root)
  BY DEF VmInv
<1>2. s \in Seq(Nat) /\ Len(s) \in Nat \ {0} /\ a \in Nat
  BY AddrIs, VmAssumption
<1>3. /\ n \in 0 .. Len(s)
      /\ \A k \in 1 .. n : /\ PageOf(a + k - 1) \in Vpns
                           /\ CopyoutFlags \subseteq Entry(root[p], PageOf(a + k - 1)).flags
  BY <1>2, ReachedPages
<1>4. Becomes(Written(Memory, root[p], a, u)) /\ UNCHANGED <<root, sz, nextpid>>
  BY DEF Copyout
<1> HIDE DEF n
<1>5. u \in Seq(Nat) /\ DOMAIN u = 1 .. n
  <2>1. /\ DOMAIN u = 1 .. n
    BY <1>2, <1>3
  <2>2. \A k \in 1 .. n : u[k] \in Nat
    BY <1>2, <1>3
  <2>3. u = [k \in 1 .. n |-> u[k]] /\ n \in Nat
    BY <1>3
  <2> HIDE DEF u
  <2> QED
    BY <2>1, <2>2, <2>3
<1>6. Alike(lab, Memory, p)
  BY <1>1, AlikeSelf
<1> HIDE DEF u
<1>7. Alike(lab, Written(Memory, root[p], a, u), p)
  BY <1>1, <1>3, <1>5, <1>6, WrittenAlike DEF CopyoutFlags
<1>8. panicked' \in BOOLEAN
  BY DEF VmInv, VTypeOK
<1> QED
  BY <1>1, <1>4, <1>7, <1>8, AlikeInv

LEMMA PgaccssInv ==
  ASSUME VmInv, NEW p \in Slots, root[p] # Null, NEW first \in Nat, NEW n \in Spans,
         NEW a \in Addrs, Pgaccss(p, first, n, a)
  PROVE  VmInv' /\ Alone(p)
<1> DEFINE rt    == root[p]
           pages == first .. first + n - 1
           hit   == {pg \in pages : "A" \in Entry(rt, pg).flags}
           mask  == MaskOf(UNION {Bits(pg - first) : pg \in hit})
           Seen(q, x) == \E pg \in hit : Table(mem, rt, pg) = q /\ PX(0, pg) = x
           nn == [q \in Phys |-> [x \in Offsets |->
                    IF Seen(q, x) THEN [mem[q][x] EXCEPT !.flags = @ \ {"A"}]
                    ELSE mem[q][x]]]
           m == [Memory EXCEPT !.mem = nn]
           Fails == \/ \E pg \in pages : pg >= MaxVaPage \/ Table(mem, rt, pg) = Null
                    \/ Reached(rt, a, 1, CopyoutFlags) = 0
<1>1. PICK lab : Tidy(Memory, lab, root)
  BY DEF VmInv
<1>2. /\ UNCHANGED <<root, sz, nextpid>>
      /\ IF Fails THEN panicked' = TRUE /\ UNCHANGED <<mem, free, result>>
                  ELSE Becomes(Written(m, rt, a, <<mask>>)) /\ UNCHANGED panicked
  BY DEF Pgaccss
<1>3. VTypeOK /\ n \in Nat /\ a \in Nat
  BY VmAssumption, AddrIs DEF VmInv
<1> HIDE DEF mask
<1>4. CASE Fails
  BY <1>2, <1>3, <1>4, SameInv, SameAlone DEF VTypeOK
<1>5. CASE ~ Fails
  <2>1. ASSUME NEW pg \in pages
        PROVE  pg \in Vpns /\ Table(mem, rt, pg) # Null
    BY <1>3, <1>5, BelowMax, MaxVa
  <2>2. ASSUME NEW pg \in hit
        PROVE  Table(mem, rt, pg) \notin free /\ lab[Table(mem, rt, pg)][1] = p
    <3>1. EntryIs(lab, p, pg)
      BY <1>1, <2>1, EntryOf
    <3> QED
      BY <2>1, <3>1 DEF EntryIs
  <2>3. /\ mem \in [Phys -> [Offsets -> Ptes]] /\ free \in SUBSET Phys
    BY <1>1 DEF Tidy, Contents, Memory
  <2>4. \A q \in Phys, x \in Offsets : q \in free \/ lab[q][1] # p => ~ Seen(q, x)
    BY <2>2
  <2>5. \A q \in Phys, x \in Offsets :
          nn[q][x] = IF Seen(q, x) THEN [mem[q][x] EXCEPT !.flags = @ \ {"A"}] ELSE mem[q][x]
    OBVIOUS
  <2>6. nn = [q \in Phys |-> nn[q]] /\ \A q \in Phys : nn[q] = [x \in Offsets |-> nn[q][x]]
    OBVIOUS
  <2> HIDE DEF Seen, nn
  <2>7. ASSUME NEW c \in Ptes
        PROVE  [c EXCEPT !.flags = @ \ {"A"}] \in Ptes /\ Same([c EXCEPT !.flags = @ \ {"A"}], c)
    <3>1. PICK f \in SUBSET Flags, pa \in Nat : c = [flags |-> f, pa |-> pa]
      BY DEF Ptes, Cells, Flags
    <3>2. [c EXCEPT !.flags = @ \ {"A"}] = [flags |-> f \ {"A"}, pa |-> pa]
      BY <3>1
    <3> QED
      BY <3>1, <3>2 DEF Same, Ptes, Cells, Flags
  <2>8. ASSUME NEW q \in Phys, NEW x \in Offsets
        PROVE  nn[q][x] \in Ptes /\ Same(nn[q][x], mem[q][x])
    <3>1. mem[q][x] \in Ptes
      BY <2>3
    <3> QED
      BY <2>5, <2>7, <3>1 DEF Same
  <2>9. nn \in [Phys -> [Offsets -> Ptes]]
    <3>1. \A q \in Phys : nn[q] \in [Offsets -> Ptes]
      BY <2>6, <2>8
    <3> QED
      BY <2>6, <3>1
  <2>10. ASSUME NEW q \in Phys, q \in free \/ lab[q][1] # p
         PROVE  nn[q] = mem[q]
    <3>1. q \in Phys /\ mem[q] \in [Offsets -> Ptes]
      BY <2>3
    <3>2. \A x \in Offsets : nn[q][x] = mem[q][x]
      BY <2>4, <2>5, <2>10
    <3> QED
      BY <2>6, <3>1, <3>2
  <2>11. Alike(lab, m, p)
    BY <1>1, <2>3, <2>8, <2>9, <2>10, FlagsAlike
  <2> HIDE DEF m
  <2>12. <<mask>> \in Seq(Nat)
    BY MaskType DEF mask
  <2>13. PageOf(a) \in Vpns /\ "V" \in Entry(rt, PageOf(a)).flags
    <3> DEFINE r == Reached(rt, a, 1, CopyoutFlags)
    <3>1. 1 \in Nat \ {0}
      OBVIOUS
    <3>2. /\ r \in 0 .. 1
          /\ \A k \in 1 .. r : /\ PageOf(a + k - 1) \in Vpns
                               /\ CopyoutFlags \subseteq Entry(rt, PageOf(a + k - 1)).flags
      BY <1>3, <3>1, ReachedPages
    <3>3. r # 0
      BY <1>5
    <3> HIDE DEF r
    <3>4. 1 \in 1 .. r /\ a + 1 - 1 = a
      BY <1>3, <3>2, <3>3
    <3>5. /\ PageOf(a + 1 - 1) \in Vpns
          /\ CopyoutFlags \subseteq Entry(rt, PageOf(a + 1 - 1)).flags
      BY <3>2, <3>4
    <3> QED
      BY <3>4, <3>5 DEF CopyoutFlags
  <2>14. \A k \in DOMAIN <<mask>> : a + k - 1 = a
    BY <1>3
  <2>15. Alike(lab, Written(m, rt, a, <<mask>>), p)
    BY <1>1, <2>11, <2>12, <2>13, <2>14, WrittenAlike
  <2> QED
    BY <1>1, <1>2, <1>3, <1>5, <2>15, AlikeInv DEF VTypeOK
<1> QED
  BY <1>4, <1>5

-----------------------------------------------------------------------------
\* The theorem

\* A step keeps the invariant, and a process's memory changes by its own calls only.
OnlyOwn ==
  \A p \in Slots : Mine(p)' # Mine(p) =>
    /\ IF root[p] = Null THEN \E q \in Live : Fork(q, p)
                         ELSE OwnCall(p) \/ AskAccess(p)
    /\ \A q \in Slots \ {p} : Mine(q)' = Mine(q)

OneStep == VmInv' /\ OnlyOwn

LEMMA OwnCallInv ==
  ASSUME VmInv, NEW p \in Slots, root[p] # Null, OwnCall(p), UNCHANGED panicked
  PROVE  VmInv' /\ Alone(p)
<1>1. CASE Exit(p)
  BY <1>1, ExitInv
<1>2. CASE \E n \in Counts : Grow(p, n) \/ Shrink(p, n)
  BY <1>2, GrowInv, ShrinkInv
<1>3. CASE \E pg \in 0 .. sz[p] - 1 : Uvmclear(p, pg)
  BY <1>3, UvmclearInv
<1>4. ASSUME NEW a \in Addrs,
             Load(p, a) \/ \E s \in Data : Store(p, a, s[1]) \/ Copyout(p, a, s)
      PROVE  VmInv' /\ Alone(p)
  <2>1. CASE Load(p, a)
    BY <2>1, LoadInv
  <2>2. ASSUME NEW s \in Data, Store(p, a, s[1])
        PROVE  VmInv' /\ Alone(p)
    <3>1. s \in Seq(Nat) /\ s # <<>>
      BY VmAssumption
    <3>2. s[1] \in Nat
      BY <3>1
    <3> QED
      BY <2>2, <3>2, StoreInv
  <2>3. ASSUME NEW s \in Data, Copyout(p, a, s)
        PROVE  VmInv' /\ Alone(p)
    BY <2>3, CopyoutInv
  <2> QED
    BY <1>4, <2>1, <2>2, <2>3
<1> QED
  BY <1>1, <1>2, <1>3, <1>4 DEF OwnCall

LEMMA NextInv ==
  ASSUME VmInv, [Next]_vars
  PROVE  OneStep
<1>1. nextpid \in Nat /\ panicked \in BOOLEAN
  BY DEF VmInv, VTypeOK
<1>2. ASSUME UNCHANGED <<mem, free, root, sz, nextpid, panicked>>
      PROVE  OneStep
  <2>1. \A p \in Slots : Mine(p)' = Mine(p)
    BY <1>2 DEF Mine, Needed, Entry
  <2>2. VmInv'
    BY <1>1, <1>2, SameInv
  <2> QED
    BY <2>1, <2>2 DEF OneStep, OnlyOwn
<1>3. ASSUME NEW p \in Live, ReadOnly(p), UNCHANGED panicked
      PROVE  OneStep
  BY <1>2, <1>3 DEF ReadOnly, Vmprint, Copyin, Copyinstr
<1>4. ASSUME NEW p \in Live, OwnCall(p) \/ AskAccess(p), Alone(p), VmInv'
      PROVE  OneStep
  BY <1>4 DEF OneStep, OnlyOwn, Alone, Live
<1>5. ASSUME NEW p \in Live, OwnCall(p), UNCHANGED panicked
      PROVE  OneStep
  <2>1. VmInv' /\ Alone(p)
    BY <1>5, OwnCallInv DEF Live
  <2> QED
    BY <1>4, <1>5, <2>1
<1>6. ASSUME NEW p \in Live, NEW q \in Slots, Fork(p, q), UNCHANGED panicked
      PROVE  OneStep
  <2>1. VmInv' /\ Alone(q)
    BY <1>6, ForkInv DEF Live
  <2>2. root[q] = Null
    BY <1>6 DEF Fork
  <2> QED
    BY <1>6, <2>1, <2>2 DEF OneStep, OnlyOwn, Alone
<1>7. ASSUME NEW p \in Live, AskAccess(p)
      PROVE  OneStep
  <2>1. VmInv' /\ Alone(p)
    BY <1>7, AddrIs, PgaccssInv DEF Live, AskAccess
  <2> QED
    BY <1>4, <1>7, <2>1
<1>8. CASE UNCHANGED vars
  BY <1>2, <1>8 DEF vars
<1>9. CASE Next
  BY <1>2, <1>3, <1>5, <1>6, <1>7, <1>9 DEF Next, Return, Change
<1> QED
  BY <1>8, <1>9

\* What the invariant is for.
LEMMA InvTypeOK ==
  VmInv => TypeOK
<1> SUFFICES ASSUME VmInv PROVE TypeOK
  OBVIOUS
<1>1. VTypeOK
  BY DEF VmInv
<1>2. /\ mem \in [Phys -> [Offsets -> Ptes]] /\ free \subseteq Phys
      /\ \A q \in free : mem[q] = Fill(Junk)
  BY <1>1 DEF VTypeOK, Contents, Memory
<1>3. mem \in [Phys -> [Offsets -> Cells]]
  BY <1>2 DEF Ptes
<1> QED
  BY <1>1, <1>2, <1>3 DEF TypeOK, VTypeOK

LEMMA InvApart ==
  VmInv => PagesApart
<1> SUFFICES ASSUME VmInv, NEW p \in Live
             PROVE  /\ Owned(p) \subseteq Phys \ free
                    /\ \A q \in Live \ {p} : Owned(p) \cap Owned(q) = {}
                    /\ Tables(root[p]) \cap (Pages(p) \cup Extras(p)) = {}
                    /\ \A pg, pn \in Needed(p) :
                         Entry(root[p], pg).pa = Entry(root[p], pn).pa => pg = pn
  BY DEF PagesApart
<1>1. PICK lab : Tidy(Memory, lab, root)
  BY DEF VmInv
<1>2. VTypeOK /\ \A r \in Slots : root[r] # Null => \A pg \in Needed(r) : Has(mem, root[r], pg)
  BY DEF VmInv, Live
<1>3. p \in Slots /\ root[p] # Null
  BY DEF Live
<1>4. ASSUME NEW r \in Live
      PROVE  \A h \in Owned(r) : h \in Phys \ free /\ lab[h][1] = r
  BY <1>1, <1>2, OwnedIs DEF Live
<1>5. Owned(p) \subseteq Phys \ free /\ \A q \in Live \ {p} : Owned(p) \cap Owned(q) = {}
  BY <1>4
<1>6. ASSUME NEW pg \in Needed(p)
      PROVE  /\ pg \in Nat
             /\ lab[Entry(root[p], pg).pa] = <<p, 3, PX(2, pg), PX(1, pg), PX(0, pg)>>
  <2>1. pg \in Vpns
    BY <1>2, <1>3, PageRange
  <2>2. EntryIs(lab, p, pg)
    BY <1>1, <1>3, <2>1, EntryOf
  <2> QED
    BY <1>2, <1>3, <2>1, <2>2 DEF EntryIs, Vpns
<1>7. \A h \in Pages(p) \cup Extras(p) : lab[h][2] = 3
  <2>1. \A h \in Pages(p) \cup Extras(p) : \E pg \in Needed(p) : h = Entry(root[p], pg).pa
    BY DEF Pages, Extras, Needed
  <2>2. \A pg \in Needed(p) : lab[Entry(root[p], pg).pa][2] = 3
    BY <1>6
  <2> QED
    BY <2>1, <2>2
<1>8. \A h \in Tables(root[p]) : lab[h][2] # 3
  BY <1>1, <1>2, <1>3, TablesAre
<1>9. ASSUME NEW pg \in Needed(p), NEW pn \in Needed(p),
             Entry(root[p], pg).pa = Entry(root[p], pn).pa
      PROVE  pg = pn
  <2>1. PX(2, pg) = PX(2, pn) /\ PX(1, pg) = PX(1, pn) /\ PX(0, pg) = PX(0, pn)
    BY <1>6, <1>9
  <2> QED
    BY <1>6, <2>1, PXUnique
<1> QED
  BY <1>5, <1>7, <1>8, <1>9

\* Every variable keeps its type, and free pages hold nothing but junk.
THEOREM Types == Spec => []TypeOK
<1>1. Init => VmInv
  BY InitInv
<1>2. VmInv /\ [Next]_vars => VmInv'
  BY NextInv DEF OneStep
<1>3. VmInv => TypeOK
  BY InvTypeOK
<1> QED
  BY <1>1, <1>2, <1>3, PTL DEF Spec

\* No page of memory has two uses: kalloc() does not give it to somebody else, no
\* other process has it, and it is at one place of its process's tables.
THEOREM NoPageTwice == Spec => []PagesApart
<1>1. Init => VmInv
  BY InitInv
<1>2. VmInv /\ [Next]_vars => VmInv'
  BY NextInv DEF OneStep
<1>3. VmInv => PagesApart
  BY InvApart
<1> QED
  BY <1>1, <1>2, <1>3, PTL DEF Spec

\* A process's memory changes by its own calls only, whether they succeed or fail
\* half way, and fork() changes the child's only.
THEOREM Isolation == Spec => OwnCallsOnly
<1>1. Init => VmInv
  BY InitInv
<1>2. VmInv /\ [Next]_vars => VmInv'
  BY NextInv DEF OneStep
<1>3. VmInv /\ [Next]_vars =>
        [\A p \in Slots : Mine(p)' # Mine(p) =>
           /\ IF root[p] = Null THEN \E q \in Live : Fork(q, p)
                                ELSE OwnCall(p) \/ AskAccess(p)
           /\ \A q \in Slots \ {p} : Mine(q)' = Mine(q)]_vars
  BY NextInv DEF OneStep, OnlyOwn
<1> QED
  BY <1>1, <1>2, <1>3, PTL DEF Spec, OwnCallsOnly
=============================================================================
