--------------------------- MODULE ProgramsProofs ---------------------------
(***************************************************************************)
(* What find prints, proved for every tree of directories, every number of *)
(* descriptors, and whatever other processes create and remove meanwhile;  *)
(* and the sieve as a program among others, where what PrimesProofs proves *)
(* of it alone still holds.                                                *)
(*                                                                         *)
(* The argument for find: the calls that have a directory open are those   *)
(* on the way down from the root (FrameInv), so each directory is visited  *)
(* once.  An entry of a directory d is done with (Through) once d's call   *)
(* is past it, or a call for a directory above d is past the one that      *)
(* leads to d.  Of the files nobody has touched those done with have been  *)
(* printed (HitInv), and only stat() changes which these are: it looks the *)
(* name up again, and finds the entry that was read unless somebody has    *)
(* removed it (StatInv).  At the end everything is done with.              *)
(***************************************************************************)
EXTENDS Programs, FiniteSetTheorems, WellFoundedInduction, TLAPS

-----------------------------------------------------------------------------
\* Numbers

\* "Less than" on the numbers is well founded: the library's theorem with its
\* operator written out.
LEMMA Less == IsWellFoundedOn({ss \in Nat \X Nat : ss[1] < ss[2]}, Nat)
  BY NatLessThanWellFounded DEF OpToRel

\* A set of numbers that has a member has a least one.
LEMMA Least ==
  ASSUME NEW S \in SUBSET Nat, S # {}
  PROVE  \E m \in S : \A k \in S : m <= k
<1> DEFINE R == {ss \in Nat \X Nat : ss[1] < ss[2]}
<1>1. IsWellFoundedOn(R, Nat)
  BY Less
<1> HIDE DEF R
<1>2. PICK m \in S : \A y \in S : ~ (<<y, m>> \in R)
  BY <1>1, WFMin
<1>3. ASSUME NEW k \in S
      PROVE  m <= k
  <2>1. m \in Nat /\ k \in Nat
    OBVIOUS
  <2>2. ~ (k < m)
    BY <1>2, <2>1 DEF R
  <2> QED
    BY <2>1, <2>2
<1> QED
  BY <1>3

-----------------------------------------------------------------------------
\* The tree

Entry == [name : Seq(STRING), node : Nodes \cup {None}]

\* How far a directory is from the root, or farther.
Height == CHOOSE h \in [Dirs -> 0 .. Cardinality(Dirs)] :
            \A d \in Dirs \ {Root} : h[Above(d)] < h[d]

\* A set of directories that has with each the one above.
Upward(S) == \A x \in S : x # Root => Above(x) \in S

\* d is a or below a.
Under(a, d) == \A S \in SUBSET Dirs : d \in S /\ Upward(S) => a \in S

LEMMA Heights ==
  ASSUME FindAssumption
  PROVE  /\ Root \in Dirs /\ \A d \in Dirs : Above(d) \in Dirs
         /\ Height \in [Dirs -> Nat]
         /\ \A d \in Dirs \ {Root} : Height[Above(d)] < Height[d]
<1>1. Root \in Dirs /\ \A d \in Dirs : Above(d) \in Dirs
  BY DEF FindAssumption
<1>2. IsFiniteSet(Dirs)
  BY DEF FindAssumption
<1>3. Cardinality(Dirs) \in Nat
  BY <1>2, FS_CardinalityType
<1>4. \E h \in [Dirs -> 0 .. Cardinality(Dirs)] : \A d \in Dirs \ {Root} : h[Above(d)] < h[d]
  BY DEF FindAssumption
<1>5. /\ Height \in [Dirs -> 0 .. Cardinality(Dirs)]
      /\ \A d \in Dirs \ {Root} : Height[Above(d)] < Height[d]
  BY <1>4, Zenon DEF Height
<1>6. Height \in [Dirs -> Nat]
  BY <1>3, <1>5
<1> QED
  BY <1>1, <1>5, <1>6

\* Of a set of directories one is nearest to the root.
LEMMA Nearest ==
  ASSUME FindAssumption, NEW S \in SUBSET Dirs, S # {}
  PROVE  \E m \in S : \A d \in S : Height[m] <= Height[d]
<1> DEFINE H == {Height[d] : d \in S}
<1>1. H \in SUBSET Nat /\ H # {}
  BY Heights
<1>2. PICK n \in H : \A k \in H : n <= k
  BY <1>1, Least
<1>3. PICK m \in S : Height[m] = n
  BY <1>2
<1> QED
  BY <1>2, <1>3

LEMMA UnderSelf ==
  ASSUME NEW d
  PROVE  Under(d, d)
  BY DEF Under

LEMMA UnderTrans ==
  ASSUME NEW a, NEW b, NEW d, Under(a, b), Under(b, d)
  PROVE  Under(a, d)
  BY DEF Under

LEMMA UnderUp ==
  ASSUME NEW x, NEW d, Under(x, d), x # Root
  PROVE  Under(Above(x), d)
  BY DEF Under, Upward

\* What is above a directory, and is not itself, is above the next one.
LEMMA UnderBelow ==
  ASSUME FindAssumption, NEW a, NEW x \in Dirs, Under(a, x), a # x
  PROVE  x # Root /\ Under(a, Above(x))
<1>1. x # Root
  <2>1. SUFFICES ASSUME x = Root PROVE FALSE
    OBVIOUS
  <2>2. Upward({Root}) /\ {Root} \in SUBSET Dirs
    BY <2>1 DEF Upward
  <2>3. a \in {Root}
    BY <2>1, <2>2 DEF Under
  <2> QED
    BY <2>1, <2>3
<1>2. ASSUME NEW S \in SUBSET Dirs, Above(x) \in S, Upward(S)
      PROVE  a \in S
  <2>1. Upward(S \cup {x})
    BY <1>2 DEF Upward
  <2>2. a \in S \cup {x}
    BY <2>1 DEF Under
  <2> QED
    BY <2>2
<1> QED
  BY <1>1, <1>2 DEF Under

LEMMA UnderHeight ==
  ASSUME FindAssumption, NEW a, NEW d \in Dirs, Under(a, d)
  PROVE  a \in Dirs /\ Height[a] <= Height[d]
<1> DEFINE S == {s \in Dirs : Height[s] <= Height[d]}
<1>1. d \in S
  BY Heights
<1>2. Upward(S)
  BY Heights DEF Upward
<1>3. a \in S
  BY <1>1, <1>2 DEF Under
<1> QED
  BY <1>3

\* Every directory is in the tree.
LEMMA UnderRoot ==
  ASSUME FindAssumption, NEW d \in Dirs
  PROVE  Under(Root, d)
<1> DEFINE S == {s \in Dirs : ~ Under(Root, s)}
<1>1. SUFFICES ASSUME S # {} PROVE FALSE
  OBVIOUS
<1>2. PICK m \in S : \A s \in S : Height[m] <= Height[s]
  BY <1>1, Nearest
<1>3. m # Root /\ m \in Dirs /\ ~ Under(Root, m)
  BY <1>2, UnderSelf
<1>4. Height[Above(m)] < Height[m] /\ Above(m) \in Dirs
  BY <1>3, Heights
<1>5. Height[Above(m)] \in Nat /\ Height[m] \in Nat
  BY <1>3, <1>4, Heights
<1>6. Above(m) \notin S
  BY <1>2, <1>4, <1>5
<1>7. Under(Root, Above(m))
  BY <1>4, <1>6
<1>8. Under(Above(m), m)
  BY <1>3, UnderSelf, UnderUp
<1> QED
  BY <1>3, <1>7, <1>8, UnderTrans

\* Below a directory is what is below one that is in it.
LEMMA UnderKid ==
  ASSUME FindAssumption, NEW a, NEW d \in Dirs, Under(a, d), a # d
  PROVE  \E y \in Dirs : y # Root /\ Above(y) = a /\ Under(y, d)
<1> DEFINE S == {s \in Dirs : Under(s, d) /\ s # a}
<1>1. SUFFICES ASSUME \A y \in Dirs : y # Root /\ Under(y, d) => Above(y) # a
               PROVE  FALSE
  OBVIOUS
<1>2. d \in S
  BY UnderSelf
<1>3. Upward(S)
  BY <1>1, UnderUp, Heights DEF Upward
<1>4. a \in S
  BY <1>2, <1>3 DEF Under
<1> QED
  BY <1>4

\* Two directories of one have nothing in common.
LEMMA Siblings ==
  ASSUME FindAssumption, NEW x \in Dirs \ {Root}, NEW y \in Dirs \ {Root},
         Above(x) = Above(y), NEW d \in Dirs, Under(x, d), Under(y, d)
  PROVE  x = y
<1> DEFINE S == {s \in Dirs : Under(x, s) /\ Under(y, s)}
<1>1. SUFFICES ASSUME x # y PROVE FALSE
  OBVIOUS
<1>2. PICK m \in S : \A s \in S : Height[m] <= Height[s]
  BY Nearest
<1>3. m \in Dirs /\ Under(x, m) /\ Under(y, m)
  BY <1>2
<1>4. /\ Height[Above(x)] < Height[x] /\ Above(x) \in Dirs
      /\ Height[x] \in Nat /\ Height[y] \in Nat /\ Height[Above(x)] \in Nat
      /\ Height[Above(y)] < Height[y]
  BY Heights
<1>5. m # x
  <2>1. SUFFICES ASSUME m = x PROVE FALSE
    OBVIOUS
  <2>2. Under(y, Above(x))
    BY <1>1, <1>3, <2>1, UnderBelow
  <2>3. Height[y] <= Height[Above(y)]
    BY <1>4, <2>2, UnderHeight
  <2> QED
    BY <1>4, <2>3
<1>6. m # y
  <2>1. SUFFICES ASSUME m = y PROVE FALSE
    OBVIOUS
  <2>2. Under(x, Above(x))
    BY <1>1, <1>3, <2>1, UnderBelow
  <2>3. Height[x] <= Height[Above(x)]
    BY <1>4, <2>2, UnderHeight
  <2> QED
    BY <1>4, <2>3
<1>7. m # Root /\ Under(x, Above(m)) /\ Under(y, Above(m))
  BY <1>3, <1>5, <1>6, UnderBelow
<1>8. Above(m) \in S /\ Height[Above(m)] < Height[m]
  BY <1>3, <1>7, Heights
<1>9. Height[m] <= Height[Above(m)] /\ Height[m] \in Nat /\ Height[Above(m)] \in Nat
  BY <1>2, <1>3, <1>8, Heights
<1> QED
  BY <1>8, <1>9

-----------------------------------------------------------------------------
\* Depth and Entered

\* f is given at the root, and from each directory for those in it.
Recurs(f, base, step) ==
  \A d \in Dirs : f[d] = IF d = Root THEN base ELSE step[<<d, f[Above(d)]>>]

\* There is such a function.
LEMMA Recursion ==
  ASSUME FindAssumption, NEW T, NEW base \in T, NEW step \in [Dirs \X T -> T]
  PROVE  \E f \in [Dirs -> T] : Recurs(f, base, step)
<1> DEFINE Closed(C) ==
             /\ <<Root, base>> \in C
             /\ \A d \in Dirs \ {Root}, t \in T :
                  <<Above(d), t>> \in C => <<d, step[<<d, t>>]>> \in C
           G == {g \in Dirs \X T : \A C \in SUBSET (Dirs \X T) : Closed(C) => g \in C}
           Clear(d) == \E t \in T : <<d, t>> \in G /\ \A u \in T : <<d, u>> \in G => u = t
           S == {d \in Dirs : ~ Clear(d)}
<1>1. /\ Root \in Dirs /\ \A d \in Dirs : Above(d) \in Dirs
      /\ Height \in [Dirs -> Nat]
      /\ \A d \in Dirs \ {Root} : Height[Above(d)] < Height[d]
  BY Heights
<1>2. Closed(G)
  <2>1. <<Root, base>> \in G
    BY <1>1
  <2>2. ASSUME NEW d \in Dirs \ {Root}, NEW t \in T, <<Above(d), t>> \in G
        PROVE  <<d, step[<<d, t>>]>> \in G
    <3>1. step[<<d, t>>] \in T
      OBVIOUS
    <3> QED
      BY <2>2, <3>1
  <2> QED
    BY <2>1, <2>2
\* A pair that is not one the rules make is not in G.
<1>3. ASSUME NEW d \in Dirs, NEW u \in T, <<d, u>> \in G,
             d = Root => u # base,
             \A t \in T : d # Root /\ <<Above(d), t>> \in G => u # step[<<d, t>>]
      PROVE  FALSE
  <2> DEFINE C == G \ {<<d, u>>}
  <2>1. <<Root, base>> \in C
    BY <1>2, <1>3
  <2>2. ASSUME NEW e \in Dirs \ {Root}, NEW t \in T, <<Above(e), t>> \in C
        PROVE  <<e, step[<<e, t>>]>> \in C
    <3>1. <<e, step[<<e, t>>]>> \in G
      BY <1>2, <2>2
    <3>2. <<e, step[<<e, t>>]>> # <<d, u>>
      BY <1>3, <2>2
    <3> QED
      BY <3>1, <3>2
  <2>3. Closed(C)
    BY <2>1, <2>2
  <2>4. C \in SUBSET (Dirs \X T)
    OBVIOUS
  <2>5. <<d, u>> \in C
    BY <1>3, <2>3, <2>4
  <2> QED
    BY <2>5
<1>4. S = {}
  <2>1. SUFFICES ASSUME S # {} PROVE FALSE
    OBVIOUS
  <2>2. PICK m \in S : \A s \in S : Height[m] <= Height[s]
    BY <2>1, Nearest
  <2>3. m \in Dirs /\ ~ Clear(m)
    BY <2>2
  <2> HIDE DEF G
  <2>4. CASE m = Root
    <3>1. <<m, base>> \in G
      BY <1>2, <2>4
    <3>2. \A u \in T : <<m, u>> \in G => u = base
      BY <1>3, <2>3, <2>4
    <3> QED
      BY <2>3, <3>1, <3>2
  <2>5. CASE m # Root
    <3>1. Above(m) \in Dirs /\ Height[Above(m)] < Height[m]
      BY <1>1, <2>3, <2>5
    <3>2. Height[Above(m)] \in Nat /\ Height[m] \in Nat
      BY <1>1, <2>3, <3>1
    <3>3. Above(m) \notin S
      <4> HIDE DEF S
      <4> QED
        BY <2>2, <3>1, <3>2
    <3>4. PICK t \in T : <<Above(m), t>> \in G /\ \A u \in T : <<Above(m), u>> \in G => u = t
      BY <3>1, <3>3
    <3>5. <<m, step[<<m, t>>]>> \in G /\ step[<<m, t>>] \in T
      BY <1>2, <2>3, <2>5, <3>4
    <3>6. \A u \in T : <<m, u>> \in G => u = step[<<m, t>>]
      BY <1>3, <2>3, <2>5, <3>4
    <3> QED
      BY <2>3, <3>5, <3>6
  <2> QED
    BY <2>4, <2>5
<1> DEFINE f == [d \in Dirs |-> CHOOSE t \in T : <<d, t>> \in G]
<1>5. \A d \in Dirs : Clear(d)
  BY <1>4
<1> HIDE DEF G
<1>6. \A d \in Dirs : f[d] \in T /\ <<d, f[d]>> \in G /\ \A u \in T : <<d, u>> \in G => u = f[d]
  BY <1>5, Zenon
<1>7. f \in [Dirs -> T]
  BY <1>6
<1> HIDE DEF f
<1>8. ASSUME NEW d \in Dirs
      PROVE  f[d] = IF d = Root THEN base ELSE step[<<d, f[Above(d)]>>]
  <2>1. CASE d = Root
    BY <1>2, <1>6, <2>1
  <2>2. CASE d # Root
    <3>1. <<d, step[<<d, f[Above(d)]>>]>> \in G /\ step[<<d, f[Above(d)]>>] \in T
      BY <1>1, <1>2, <1>6, <2>2
    <3> QED
      BY <1>6, <2>2, <3>1
  <2> QED
    BY <2>1, <2>2
<1> QED
  BY <1>7, <1>8 DEF Recurs

LEMMA Depths ==
  ASSUME FindAssumption
  PROVE  /\ Depth \in [Dirs -> Nat \ {0}] /\ Depth[Root] = 1
         /\ \A d \in Dirs \ {Root} : Depth[d] = Depth[Above(d)] + 1
<1> DEFINE T == Nat \ {0}
           step == [x \in Dirs \X T |-> x[2] + 1]
<1>1. step \in [Dirs \X T -> T]
  OBVIOUS
<1>2. 1 \in T
  OBVIOUS
<1>3. \A d \in Dirs, t \in T : step[<<d, t>>] = t + 1
  OBVIOUS
<1> HIDE DEF T, step
<1>4. PICK f \in [Dirs -> T] : Recurs(f, 1, step)
  BY <1>1, <1>2, Recursion
<1>5. Root \in Dirs /\ \A d \in Dirs : Above(d) \in Dirs
  BY Heights
<1>6. \A d \in Dirs : f[d] = IF d = Root THEN 1 ELSE f[Above(d)] + 1
  BY <1>3, <1>4, <1>5 DEF Recurs
<1>7. f = [d \in Dirs |-> IF d = Root THEN 1 ELSE f[Above(d)] + 1]
  BY <1>6
<1>8. Depth = [d \in Dirs |-> IF d = Root THEN 1 ELSE Depth[Above(d)] + 1]
  BY <1>7 DEF Depth
<1> DEFINE S == {d \in Dirs : Depth[d] \notin T}
<1>9. S = {}
  <2>1. SUFFICES ASSUME S # {} PROVE FALSE
    OBVIOUS
  <2>2. PICK m \in S : \A s \in S : Height[m] <= Height[s]
    BY <2>1, Nearest
  <2>3. m # Root
    BY <1>2, <1>5, <1>8, <2>2
  <2>4. /\ Above(m) \in Dirs /\ Height[Above(m)] < Height[m]
        /\ Height[Above(m)] \in Nat /\ Height[m] \in Nat
    BY <2>2, <2>3, Heights
  <2>5. Depth[Above(m)] \in T
    BY <2>2, <2>4
  <2>6. Depth[m] = Depth[Above(m)] + 1
    BY <1>8, <2>2, <2>3
  <2> QED
    BY <2>2, <2>5, <2>6 DEF T
<1>10. Depth \in [Dirs -> T]
  BY <1>8, <1>9
<1> QED
  BY <1>5, <1>8, <1>10 DEF T

LEMMA EnteredDef ==
  ASSUME FindAssumption, NEW d \in Dirs
  PROVE  Entered[d] <=> /\ Depth[d] <= MaxOpen
                        /\ d # Root => NoBlank(NameOf(d)) /\ Entered[Above(d)]
<1> DEFINE T == {0, 1}
           Good(e) == Depth[e] <= MaxOpen /\ (e # Root => NoBlank(NameOf(e)))
           base == IF Good(Root) THEN 1 ELSE 0
           step == [x \in Dirs \X T |-> IF Good(x[1]) /\ x[2] = 1 THEN 1 ELSE 0]
<1> HIDE DEF Good
<1>1. step \in [Dirs \X T -> T] /\ base \in T
  OBVIOUS
<1>2. \A e \in Dirs, t \in T : step[<<e, t>>] = IF Good(e) /\ t = 1 THEN 1 ELSE 0
  OBVIOUS
<1> HIDE DEF T, step
<1>3. PICK f \in [Dirs -> T] : Recurs(f, base, step)
  BY <1>1, Recursion
<1>4. Root \in Dirs /\ \A e \in Dirs : Above(e) \in Dirs
  BY Heights
<1> DEFINE g == [e \in Dirs |-> f[e] = 1]
<1>9. \A e \in Dirs : g[e] <=> f[e] = 1
  BY Zenon
<1> HIDE DEF g
<1>5. ASSUME NEW e \in Dirs
      PROVE  g[e] <=> Good(e) /\ (e # Root => g[Above(e)])
  <2>1. f[e] = IF e = Root THEN base ELSE step[<<e, f[Above(e)]>>]
    BY <1>3 DEF Recurs
  <2>2. CASE e = Root
    <3>1. f[e] = IF Good(Root) THEN 1 ELSE 0
      BY <2>1, <2>2
    <3> QED
      BY <1>9, <2>2, <3>1
  <2>3. CASE e # Root
    <3>1. Above(e) \in Dirs /\ f[Above(e)] \in T
      BY <1>4
    <3>2. f[e] = IF Good(e) /\ f[Above(e)] = 1 THEN 1 ELSE 0
      BY <1>2, <2>1, <2>3, <3>1
    <3> QED
      BY <1>9, <2>3, <3>1, <3>2
  <2> QED
    BY <2>2, <2>3
<1> DEFINE F(s, e) == /\ Depth[e] <= MaxOpen
                      /\ e # Root => NoBlank(NameOf(e)) /\ s[Above(e)]
<1>6. g = [e \in Dirs |-> F(g, e)]
  <2>1. \A e \in Dirs : g[e] <=> F(g, e)
    BY <1>5 DEF Good
  <2>2. g = [e \in Dirs |-> g[e]] /\ \A e \in Dirs : g[e] \in BOOLEAN
    BY DEF g
  <2>3. \A e \in Dirs : g[e] = F(g, e)
    BY <2>1, <2>2, Zenon
  <2> HIDE DEF F
  <2> QED
    BY <2>2, <2>3, Zenon
<1>7. Entered = [e \in Dirs |-> F(Entered, e)]
  BY <1>6, Zenon DEF Entered
<1>8. Entered[d] = F(Entered, d)
  <2> HIDE DEF F
  <2> QED
    BY <1>7, Zenon
<1> QED
  BY <1>8, Zenon

\* find gets to a directory through those above it.
LEMMA EnteredUp ==
  ASSUME FindAssumption, NEW a, NEW d \in Dirs, Under(a, d), Entered[d]
  PROVE  Entered[a]
<1> DEFINE S == {s \in Dirs : Entered[s]}
<1>1. Upward(S)
  BY EnteredDef, Heights DEF Upward
<1>2. a \in S
  BY <1>1 DEF Under
<1> QED
  BY <1>2

-----------------------------------------------------------------------------
\* Entries

\* Entry k of directory d is the directory x.
Child(x, d, k) ==
  /\ x \in Dirs /\ d \in Dirs /\ k \in DOMAIN Contents[d]
  /\ Contents[d][k].node = x /\ Contents[d][k].name \notin Dots

LEMMA Given ==
  ASSUME FindAssumption
  PROVE  /\ None \notin Nodes /\ MaxOpen \in Nat /\ Dirs \subseteq Nodes
         /\ Contents \in [Dirs -> Seq(Entry)]
         /\ \A v \in Volatile : v[1] \in Dirs /\ v[2] \in Entry /\ v[2].node \notin Dirs
                                /\ v[2].node \in Nodes
         /\ Hole \in Entry /\ Hole.node = None /\ Dot \in Seq(STRING)
         /\ \A p \in Paths : p = <<p[1], p[2]>> /\ p[1] \in Dirs /\ p[2] \in Seq(STRING)
<1>1. /\ None \notin Nodes /\ MaxOpen \in Nat /\ Contents \in [Dirs -> Seq(Entry)]
      /\ \A v \in Volatile : v \in Dirs \X [name : Seq(STRING), node : Nodes]
                             /\ v[2].node \notin Dirs
  BY DEF FindAssumption, Entry
<1>2. Dirs \subseteq Nodes
  BY DEF Dirs
<1>3. Hole \in Entry /\ Hole.node = None /\ Dot \in Seq(STRING)
  <2>1. <<>> \in Seq(STRING)
    OBVIOUS
  <2>2. Hole \in Entry /\ Hole.node = None
    BY <2>1 DEF Hole, Entry
  <2>3. Root \in Dirs /\ [name |-> Dot, node |-> Root] \in ToSet(Contents[Root])
    BY Zenon DEF FindAssumption
  <2>4. [name |-> Dot, node |-> Root] \in Entry
    BY <1>1, <2>3 DEF ToSet
  <2> QED
    BY <2>2, <2>4 DEF Entry
<1>4. \A v \in Volatile : v[1] \in Dirs /\ v[2] \in Entry /\ v[2].node \notin Dirs
                          /\ v[2].node \in Nodes
  BY <1>1 DEF Entry
<1>5. ASSUME NEW p \in Paths
      PROVE  p = <<p[1], p[2]>> /\ p[1] \in Dirs /\ p[2] \in Seq(STRING)
  <2>1. CASE \E d \in Dirs, e \in UNION {ToSet(Contents[b]) : b \in Dirs} : p = <<d, e.name>>
    <3>1. PICK d \in Dirs, e \in UNION {ToSet(Contents[b]) : b \in Dirs} : p = <<d, e.name>>
      BY <2>1
    <3>2. PICK b \in Dirs : e \in ToSet(Contents[b])
      BY <3>1
    <3>3. e \in Entry
      BY <1>1, <3>2 DEF ToSet
    <3> QED
      BY <3>1, <3>3 DEF Entry
  <2>2. CASE \E v \in Volatile : p = <<v[1], v[2].name>>
    BY <1>4, <2>2 DEF Entry
  <2> QED
    BY <2>1, <2>2 DEF Paths
<1> QED
  BY <1>1, <1>2, <1>3, <1>4, <1>5

\* No name is in a directory twice, and no directory is in two.
LEMMA Once ==
  ASSUME FindAssumption, NEW d \in Dirs, NEW k \in DOMAIN Contents[d],
         NEW l \in DOMAIN Contents[d]
  PROVE  /\ Contents[d][k] # Hole => Contents[d][k].node # None
         /\ Contents[d][k].name = Contents[d][l].name
              /\ Contents[d][k] # Hole /\ Contents[d][l] # Hole => k = l
         /\ Contents[d][k].node \in Dirs /\ Contents[d][k].name \notin Dots =>
              /\ Contents[d][k].node # Root /\ Above(Contents[d][k].node) = d
              /\ Contents[d][k].node = Contents[d][l].node
                   /\ Contents[d][l].name \notin Dots => k = l
         /\ Contents[d][k].node \in Dirs /\ Contents[d][l].node \in Dirs
              /\ ~ NoBlank(Contents[d][k].name) =>
                Contents[d][l].name # Getname(Contents[d][k].name)
<1>1. LET e == Contents[d][k]
          f == Contents[d][l]
      IN  /\ e # Hole => e.node # None
          /\ e.name = f.name /\ e # Hole /\ f # Hole => k = l
          /\ e.node \in Dirs /\ e.name \notin Dots =>
               /\ e.node # Root /\ Above(e.node) = d
               /\ e.node = f.node /\ f.name \notin Dots => k = l
          /\ e.node \in Dirs /\ f.node \in Dirs /\ ~ NoBlank(e.name) =>
               f.name # Getname(e.name)
  <2>1. \A b \in Dirs : \A o, j \in DOMAIN Contents[b] :
          LET e == Contents[b][o]
              f == Contents[b][j]
          IN  /\ e # Hole => e.node # None
              /\ e.name = f.name /\ e # Hole /\ f # Hole => o = j
              /\ e.node \in Dirs /\ e.name \notin Dots =>
                   /\ e.node # Root /\ Above(e.node) = b
                   /\ e.node = f.node /\ f.name \notin Dots => o = j
              /\ e.node \in Dirs /\ f.node \in Dirs /\ ~ NoBlank(e.name) =>
                   f.name # Getname(e.name)
    BY DEF FindAssumption
  <2> QED
    BY <2>1
<1> QED
  BY <1>1

LEMMA ChildUp ==
  ASSUME FindAssumption, NEW x, NEW d, NEW k, Child(x, d, k)
  PROVE  /\ x \in Dirs /\ d \in Dirs /\ x # Root /\ Above(x) = d
         /\ \A l : Child(x, d, l) => k = l
         /\ Under(d, x)
<1>1. x \in Dirs /\ d \in Dirs /\ x # Root /\ Above(x) = d
  BY Once DEF Child
<1>2. \A l : Child(x, d, l) => k = l
  BY Once DEF Child
<1>3. Under(d, x)
  BY <1>1, UnderSelf, UnderUp
<1> QED
  BY <1>1, <1>2, <1>3

LEMMA ChildName ==
  ASSUME FindAssumption, NEW x, NEW d, NEW k, Child(x, d, k)
  PROVE  NameOf(x) = Contents[d][k].name
<1> DEFINE P(e) == e.node = x /\ e.name \notin Dots
           e0 == CHOOSE e \in ToSet(Contents[d]) : P(e)
<1>1. Above(x) = d
  BY ChildUp
<1>2. Contents[d] \in Seq(Entry)
  BY Given DEF Child
<1>3. Contents[d][k] \in ToSet(Contents[d]) /\ P(Contents[d][k])
  BY <1>2 DEF Child, ToSet
<1>4. e0 \in ToSet(Contents[d]) /\ P(e0)
  BY <1>3, Zenon
<1>5. PICK l \in DOMAIN Contents[d] : e0 = Contents[d][l]
  BY <1>2, <1>4 DEF ToSet
<1>6. Child(x, d, l)
  BY <1>4, <1>5 DEF Child
<1>7. k = l
  BY <1>6, ChildUp
<1>8. NameOf(x) = e0.name
  BY <1>1, Zenon DEF NameOf
<1> QED
  BY <1>5, <1>7, <1>8

\* Every directory but the root is in the one above.
LEMMA ChildIs ==
  ASSUME FindAssumption, NEW x \in Dirs, x # Root
  PROVE  \E k : Child(x, Above(x), k)
<1>1. Above(x) \in Dirs
  BY Heights
<1>2. \E k \in DOMAIN Contents[Above(x)] :
        LET e == Contents[Above(x)][k] IN e.node = x /\ e.name \notin Dots
  BY Zenon DEF FindAssumption
<1> QED
  BY <1>1, <1>2 DEF Child

\* A name without blanks is not cut.
LEMMA Uncut ==
  ASSUME NEW name \in Seq(STRING), NoBlank(name)
  PROVE  Getname(name) = name
<1>1. {k \in DOMAIN name : name[k] # " "} = 1 .. Len(name)
  <2>1. DOMAIN name = 1 .. Len(name)
    OBVIOUS
  <2>2. \A k \in DOMAIN name : name[k] # " "
    BY Zenon DEF NoBlank
  <2> QED
    BY <2>1, <2>2
<1>2. Cardinality(1 .. Len(name)) = Len(name)
  <2>1. Len(name) \in Nat
    OBVIOUS
  <2>2. Len(name) \in Int /\ 1 \in Int
    BY <2>1
  <2>3. Cardinality(1 .. Len(name)) = IF 1 > Len(name) THEN 0 ELSE Len(name) - 1 + 1
    BY <2>2, FS_Interval
  <2> QED
    BY <2>1, <2>3
<1>3. SubSeq(name, 1, Len(name)) = name
  OBVIOUS
<1> QED
  BY <1>1, <1>2, <1>3 DEF Getname

-----------------------------------------------------------------------------
\* The invariant

FTypeOK ==
  /\ slot \in [Dirs -> Seq(Entry)]
  /\ frames \in Seq([dir : Dirs, next : Nat \ {0}])
  /\ where \in {"open", "read", "stat", "done"}
  /\ todo \in Dirs \X Seq(STRING)
  /\ open = Len(frames)
  /\ hits \in [Paths -> Nat]

\* Entry k of d was a directory at the beginning.
HasDir(d, k) == k \in DOMAIN Contents[d] /\ Contents[d][k].node \in Dirs

\* A directory's table does not shrink, the directories are where they were, and
\* no name is there twice.
SlotInv ==
  \A d \in Dirs :
    /\ DOMAIN Contents[d] \subseteq DOMAIN slot[d]
    /\ \A k \in DOMAIN slot[d] :
         /\ slot[d][k] # Hole => slot[d][k].node # None
         /\ slot[d][k].node \in Dirs \/ HasDir(d, k) =>
              k \in DOMAIN Contents[d] /\ slot[d][k] = Contents[d][k]
    /\ \A k, l \in DOMAIN slot[d] :
         slot[d][k].name = slot[d][l].name /\ slot[d][k] # Hole /\ slot[d][l] # Hole => k = l

Top == frames[Len(frames)]
\* The entry the innermost call has read last.
Current == slot[Top.dir][Top.next - 1]

\* The calls are those of the directories from the root down, each where it has
\* just read the next one's entry.
FrameInv ==
  /\ frames # <<>> => frames[1].dir = Root
  /\ \A j \in 1 .. Len(frames) :
       /\ Entered[frames[j].dir] /\ Depth[frames[j].dir] = j
       /\ frames[j].next <= Len(slot[frames[j].dir]) + 1
       /\ j < Len(frames) => Child(frames[j + 1].dir, frames[j].dir, frames[j].next - 1)
       /\ \A o \in 1 .. j : Under(frames[o].dir, frames[j].dir)

\* The name between reading it and stat() is that of the entry, or somebody has
\* removed it, and no directory has it.
StatInv ==
  \/ Current # Hole /\ Current.name = todo[2]
  \/ /\ todo \in disturbed
     /\ Current # Hole => <<Top.dir, Current.name>> \in disturbed
     /\ ~ HasDir(Top.dir, Top.next - 1)
     /\ \A k \in DOMAIN Contents[Top.dir] :
          Contents[Top.dir][k].node \in Dirs => Contents[Top.dir][k].name # todo[2]

WhereInv ==
  /\ where = "done" => frames = <<>>
  /\ where \in {"read", "stat"} => frames # <<>>
  /\ where = "open" /\ frames = <<>> => todo = <<Root, Dot>>
  /\ where \in {"open", "stat"} /\ frames # <<>> => todo[1] = Top.dir /\ Top.next >= 2
  /\ where = "stat" => StatInv
  /\ where = "open" /\ frames # <<>> =>
       /\ Child(Current.node, Top.dir, Top.next - 1)
       /\ todo[2] = Getname(Current.name)

\* The first entry that call j is not through with.
Cur(j) == IF j = Len(frames) /\ where = "read" THEN frames[j].next ELSE frames[j].next - 1

\* A call for directory a that is through with the entries before q is through
\* with entry k of directory d.
Passed(a, q, d, k) ==
  \/ a = d /\ k < q
  \/ \E x \in Dirs : \E l \in DOMAIN Contents[a] : Child(x, a, l) /\ Under(x, d) /\ l < q

Through(d, k) ==
  where = "done" \/ \E j \in 1 .. Len(frames) : Passed(frames[j].dir, Cur(j), d, k)

IsFile(n) == n \in Nodes /\ Kind[n] = "file"

Counted(d, name, k) ==
  /\ slot[d][k].name = name /\ IsFile(slot[d][k].node)
  /\ name = Ref /\ Searched(d) /\ Through(d, k)

\* Of the files nobody has touched those find is through with have been printed.
HitInv ==
  \A p \in Paths \ disturbed : NoBlank(p[2]) =>
    hits[p] = IF \E k \in DOMAIN slot[p[1]] : Counted(p[1], p[2], k) THEN 1 ELSE 0

FindInvariant == FTypeOK /\ SlotInv /\ FrameInv /\ WhereInv /\ HitInv

-----------------------------------------------------------------------------
\* Looking up

LEMMA LookupOf ==
  ASSUME FTypeOK, SlotInv, NEW d \in Dirs, NEW k \in DOMAIN slot[d], slot[d][k] # Hole
  PROVE  Lookup(d, slot[d][k].name) = slot[d][k].node
<1> DEFINE name == slot[d][k].name
           f == CHOOSE e \in Entries(d) : e.name = name
<1>1. slot[d][k] \in Entries(d)
  BY DEF Entries
<1>2. f \in Entries(d) /\ f.name = name
  BY <1>1, Zenon
<1>3. PICK l \in DOMAIN slot[d] : f = slot[d][l] /\ f # Hole
  BY <1>2 DEF Entries
<1>4. k = l
  BY <1>2, <1>3 DEF SlotInv
<1>5. Lookup(d, name) = f.node
  BY <1>1, Zenon DEF Lookup
<1> QED
  BY <1>3, <1>4, <1>5

LEMMA LookupIs ==
  ASSUME FTypeOK, NEW d \in Dirs, NEW name, Lookup(d, name) # None
  PROVE  \E k \in DOMAIN slot[d] : /\ slot[d][k] # Hole /\ slot[d][k].name = name
                                   /\ slot[d][k].node = Lookup(d, name)
<1> DEFINE f == CHOOSE e \in Entries(d) : e.name = name
<1>1. \E e \in Entries(d) : e.name = name
  BY Zenon DEF Lookup
<1>2. f \in Entries(d) /\ f.name = name
  BY <1>1, Zenon
<1>3. Lookup(d, name) = f.node
  BY <1>1, Zenon DEF Lookup
<1> HIDE DEF f
<1> QED
  BY <1>2, <1>3 DEF Entries

\* A directory is still where it was.
LEMMA SlotDir ==
  ASSUME FindAssumption, SlotInv, FTypeOK, NEW d \in Dirs, NEW k \in DOMAIN slot[d],
         slot[d][k].node \in Dirs \/ HasDir(d, k)
  PROVE  slot[d][k] = Contents[d][k] /\ slot[d][k] # Hole /\ slot[d][k].node \in Dirs
         /\ k \in DOMAIN Contents[d] /\ HasDir(d, k)
<1>1. slot[d][k] = Contents[d][k] /\ k \in DOMAIN Contents[d]
  BY DEF SlotInv
<1>2. None \notin Dirs /\ Hole.node = None
  BY Given
<1> QED
  BY <1>1, <1>2 DEF HasDir

-----------------------------------------------------------------------------
\* What a call is through with

LEMMA PassedNone ==
  ASSUME NEW a, NEW d, NEW k \in Nat \ {0}, Contents[a] \in Seq(Entry)
  PROVE  ~ Passed(a, 1, d, k)
  BY DEF Passed

\* One more entry, which is neither k itself nor a directory around d.
LEMMA PassedMore ==
  ASSUME NEW a, NEW q \in Nat, NEW d, NEW k \in Nat, Contents[a] \in Seq(Entry),
         a = d => k # q, \A x \in Dirs : Child(x, a, q) => ~ Under(x, d)
  PROVE  Passed(a, q + 1, d, k) <=> Passed(a, q, d, k)
  BY DEF Passed

\* When find is through with the same files as before, and has printed the same.
LEMMA HitSame ==
  ASSUME FindAssumption, HitInv, slot' = slot, hits' = hits, disturbed' = disturbed,
         ASSUME NEW d \in Dirs, NEW k \in DOMAIN slot[d], IsFile(slot[d][k].node), Searched(d)
         PROVE  Through(d, k)' <=> Through(d, k)
  PROVE  HitInv'
<1>1. SUFFICES ASSUME NEW p \in Paths, p \notin disturbed, NoBlank(p[2])
               PROVE  hits[p] = IF \E k \in DOMAIN slot[p[1]] : Counted(p[1], p[2], k)'
                                THEN 1 ELSE 0
  BY DEF HitInv
<1>2. p[1] \in Dirs
  BY Given
<1>3. ASSUME NEW k \in DOMAIN slot[p[1]]
      PROVE  Counted(p[1], p[2], k)' <=> Counted(p[1], p[2], k)
  BY <1>2, <1>3 DEF Counted
<1>4. hits[p] = IF \E k \in DOMAIN slot[p[1]] : Counted(p[1], p[2], k) THEN 1 ELSE 0
  BY <1>1 DEF HitInv
<1> QED
  BY <1>3, <1>4

-----------------------------------------------------------------------------
\* The steps

LEMMA FindBegins ==
  ASSUME FindAssumption, FindInit
  PROVE  FindInvariant
<1>1. FTypeOK
  <2>1. hits \in [Paths -> Nat]
    BY DEF FindInit
  <2>2. frames \in Seq([dir : Dirs, next : Nat \ {0}]) /\ Len(frames) = 0
    BY DEF FindInit
  <2> QED
    BY <2>1, <2>2, Given, Heights DEF FindInit, FTypeOK
<1>2. SlotInv
  BY Once DEF FindInit, SlotInv, HasDir
<1>3. FrameInv /\ WhereInv
  BY DEF FindInit, FrameInv, WhereInv
<1>4. HitInv
  <2>1. \A d, k : ~ Through(d, k)
    BY DEF FindInit, Through
  <2>2. \A p \in Paths : hits[p] = 0
    BY DEF FindInit
  <2> QED
    BY <2>1, <2>2 DEF HitInv, Counted
<1> QED
  BY <1>1, <1>2, <1>3, <1>4 DEF FindInvariant

\* What is in a call's frame.
LEMMA FrameType ==
  ASSUME FTypeOK
  PROVE  /\ Len(frames) \in Nat /\ (frames = <<>> <=> Len(frames) = 0)
         /\ \A j \in 1 .. Len(frames) : frames[j].dir \in Dirs /\ frames[j].next \in Nat \ {0}
         /\ frames # <<>> => Top.dir \in Dirs /\ Top.next \in Nat \ {0} /\ Len(frames) >= 1
         /\ \A d \in Dirs : slot[d] \in Seq(Entry)
<1> DEFINE T == [dir : Dirs, next : Nat \ {0}]
<1>1. frames \in Seq(T) /\ slot \in [Dirs -> Seq(Entry)]
  BY DEF FTypeOK
<1> HIDE DEF T
<1>2. Len(frames) \in Nat /\ (frames = <<>> <=> Len(frames) = 0)
  BY <1>1
<1>3. ASSUME NEW j \in 1 .. Len(frames)
      PROVE  frames[j].dir \in Dirs /\ frames[j].next \in Nat \ {0}
  <2>1. frames[j] \in T
    BY <1>1
  <2> QED
    BY <2>1 DEF T
<1>4. frames # <<>> => Top.dir \in Dirs /\ Top.next \in Nat \ {0} /\ Len(frames) >= 1
  BY <1>2, <1>3 DEF Top
<1> QED
  BY <1>1, <1>2, <1>3, <1>4

\* What the name leads to that find() is called with: the directory whose entry has
\* just been read, unless its name is one that is cut.
LEMMA OpenWhat ==
  ASSUME FindAssumption, FindInvariant, where = "open"
  PROVE  LET n == Lookup(todo[1], todo[2])
             x == Current.node
         IN  /\ frames = <<>> => n = Root
             /\ frames # <<>> =>
                  /\ Child(x, Top.dir, Top.next - 1)
                  /\ NoBlank(NameOf(x)) => n = x
                  /\ ~ NoBlank(NameOf(x)) => n \notin Dirs
<1> DEFINE n == Lookup(todo[1], todo[2])
           x == Current.node
           d == Top.dir
           q == Top.next - 1
<1> USE DEF FindInvariant
<1>1. CASE frames = <<>>
  <2>1. todo = <<Root, Dot>> /\ Root \in Dirs
    BY <1>1, Heights DEF WhereInv
  <2>2. [name |-> Dot, node |-> Root] \in ToSet(Contents[Root])
    BY <2>1, Zenon DEF FindAssumption
  <2>3. Contents[Root] \in Seq(Entry) /\ slot[Root] \in Seq(Entry)
        /\ DOMAIN Contents[Root] \subseteq DOMAIN slot[Root]
    BY <2>1, Given DEF FTypeOK, SlotInv
  <2>4. PICK k \in DOMAIN Contents[Root] : Contents[Root][k] = [name |-> Dot, node |-> Root]
    BY <2>2, <2>3 DEF ToSet
  <2>5. k \in DOMAIN slot[Root] /\ slot[Root][k] = Contents[Root][k] /\ slot[Root][k] # Hole
    BY <2>1, <2>3, <2>4, SlotDir DEF HasDir
  <2>6. Lookup(Root, slot[Root][k].name) = slot[Root][k].node
    BY <2>1, <2>5, LookupOf
  <2>7. n = Root
    BY <2>1, <2>4, <2>5, <2>6
  <2> QED
    BY <1>1, <2>7
<1>2. CASE frames # <<>>
  <2>1. Child(x, d, q) /\ todo[2] = Getname(Current.name) /\ todo[1] = d
    BY <1>2 DEF WhereInv
  <2>2. x \in Dirs /\ d \in Dirs /\ q \in DOMAIN Contents[d] /\ Contents[d][q].node = x
        /\ Contents[d] \in Seq(Entry) /\ slot[d] \in Seq(Entry)
        /\ DOMAIN Contents[d] \subseteq DOMAIN slot[d]
    BY <2>1, Given DEF Child, FTypeOK, SlotInv
  <2>3. q \in DOMAIN slot[d]
    BY <2>2
  <2>4. slot[d][q] = Contents[d][q] /\ slot[d][q] # Hole /\ Current = slot[d][q]
    BY <2>2, <2>3, SlotDir DEF Current, HasDir
  <2>5. NameOf(x) = Current.name
    BY <2>1, <2>4, ChildName
  <2>6. ASSUME NoBlank(NameOf(x))
        PROVE  n = x
    <3>1. Current.name \in Seq(STRING)
      <4>1. slot[d][q] \in Entry
        BY <2>2, <2>3
      <4> QED
        BY <2>4, <4>1 DEF Entry
    <3>2. todo[2] = Current.name
      BY <2>1, <2>5, <2>6, <3>1, Uncut
    <3>3. Lookup(d, slot[d][q].name) = slot[d][q].node
      BY <2>2, <2>3, <2>4, LookupOf
    <3> QED
      BY <2>1, <2>4, <3>2, <3>3
  <2>7. ASSUME ~ NoBlank(NameOf(x)), n \in Dirs
        PROVE  FALSE
    <3>1. Lookup(d, todo[2]) = n /\ n # None
      BY <2>1, <2>7, Given
    <3>2. PICK k \in DOMAIN slot[d] : slot[d][k].name = todo[2] /\ slot[d][k].node = n
      BY <2>2, <3>1, LookupIs
    <3>3. Contents[d][k] = slot[d][k] /\ k \in DOMAIN Contents[d]
      BY <2>2, <2>7, <3>2, SlotDir
    <3>4. Contents[d][k].name # Getname(Contents[d][q].name)
      BY <2>2, <2>4, <2>5, <2>7, <3>2, <3>3, Once
    <3> QED
      BY <2>1, <2>4, <3>2, <3>3, <3>4
  <2> QED
    BY <1>2, <2>1, <2>6, <2>7
<1> QED
  BY <1>1, <1>2

\* A directory that find does not open is not entered, nor what is below.
LEMMA OpenNot ==
  ASSUME FindAssumption, FindInvariant, where = "open",
         ~ (Lookup(todo[1], todo[2]) \in Dirs /\ open < MaxOpen)
  PROVE  IF frames = <<>> THEN \A d \in Dirs : ~ Entered[d]
         ELSE \A d \in Dirs : Under(Current.node, d) => ~ Entered[d]
<1> USE DEF FindInvariant
<1> DEFINE x == Current.node
<1>0. open = Len(frames) /\ Len(frames) \in Nat /\ MaxOpen \in Nat
  BY FrameType, Given DEF FTypeOK
<1>1. CASE frames = <<>>
  <2>1. Root \in Dirs /\ Lookup(todo[1], todo[2]) = Root
    BY <1>1, Heights, OpenWhat
  <2>2. MaxOpen = 0
    BY <1>0, <1>1, <2>1
  <2>3. ASSUME NEW d \in Dirs
        PROVE  ~ Entered[d]
    BY <2>2, <2>3, Depths, EnteredDef
  <2> QED
    BY <1>1, <2>3
<1>2. CASE frames # <<>>
  <2>1. /\ Child(x, Top.dir, Top.next - 1)
        /\ NoBlank(NameOf(x)) => Lookup(todo[1], todo[2]) = x
    BY <1>2, OpenWhat
  <2>2. x \in Dirs /\ x # Root /\ Above(x) = Top.dir
    BY <2>1, ChildUp
  <2>3. Depth[x] = Len(frames) + 1
    <3>1. Depth[Top.dir] = Len(frames)
      BY <1>2, FrameType DEF FrameInv, Top
    <3> QED
      BY <2>2, <3>1, Depths
  <2>4. ~ Entered[x]
    <3>1. SUFFICES ASSUME Entered[x] PROVE FALSE
      OBVIOUS
    <3>2. Depth[x] <= MaxOpen /\ NoBlank(NameOf(x))
      BY <2>2, <3>1, EnteredDef
    <3> QED
      BY <1>0, <2>1, <2>2, <2>3, <3>2
  <2> QED
    BY <1>2, <2>4, EnteredUp
<1> QED
  BY <1>1, <1>2

\* The innermost call has got on by one entry, which is neither k itself nor a
\* directory around d.
LEMMA ThroughMore ==
  ASSUME FindAssumption, FTypeOK, frames # <<>>, where # "done", where' # "done",
         Len(frames') = Len(frames), NEW d \in Dirs, NEW k \in Nat, NEW q \in Nat,
         \A j \in 1 .. Len(frames) : frames'[j].dir = frames[j].dir,
         ASSUME NEW j \in 1 .. Len(frames)
         PROVE  IF j = Len(frames) THEN Cur(j)' = q + 1 /\ Cur(j) = q ELSE Cur(j)' = Cur(j),
         d = Top.dir => k # q,
         \A x \in Dirs : Child(x, Top.dir, q) => ~ Under(x, d)
  PROVE  Through(d, k)' <=> Through(d, k)
<1> DEFINE N == Len(frames)
<1>1. ASSUME NEW j \in 1 .. N
      PROVE  Passed(frames[j].dir, Cur(j)', d, k) <=> Passed(frames[j].dir, Cur(j), d, k)
  <2>1. CASE j # N
    BY <2>1
  <2>2. CASE j = N
    <3>1. Top = frames[j] /\ Top.dir \in Dirs
      BY <2>2, FrameType DEF Top
    <3>2. Contents[Top.dir] \in Seq(Entry)
      BY <3>1, Given
    <3>3. Passed(Top.dir, q + 1, d, k) <=> Passed(Top.dir, q, d, k)
      BY <3>2, PassedMore
    <3>4. Cur(j)' = q + 1 /\ Cur(j) = q
      BY <2>2
    <3> QED
      BY <3>1, <3>3, <3>4
  <2> QED
    BY <2>1, <2>2
<1>2. Through(d, k)' <=> \E j \in 1 .. N : Passed(frames[j].dir, Cur(j)', d, k)
  BY DEF Through
<1>3. Through(d, k) <=> \E j \in 1 .. N : Passed(frames[j].dir, Cur(j), d, k)
  BY DEF Through
<1> QED
  BY <1>1, <1>2, <1>3

\* find() is called.
LEMMA OpenNext ==
  ASSUME FindAssumption, FindInvariant, FindOpen
  PROVE  FindInvariant'
<1> DEFINE n == Lookup(todo[1], todo[2])
           N == Len(frames)
<1>1. /\ where = "open" /\ slot' = slot /\ todo' = todo /\ hits' = hits
      /\ disturbed' = disturbed /\ where' = Resume(frames')
  BY DEF FindOpen
<1>2. /\ FTypeOK /\ SlotInv /\ FrameInv /\ WhereInv /\ HitInv
      /\ N \in Nat /\ (frames = <<>> <=> N = 0) /\ open = N
      /\ \A j \in 1 .. N : frames[j].dir \in Dirs /\ frames[j].next \in Nat \ {0}
      /\ \A d \in Dirs : slot[d] \in Seq(Entry) /\ Contents[d] \in Seq(Entry)
  BY FrameType, Given DEF FindInvariant, FTypeOK
<1>3. SlotInv'
  BY <1>1, <1>2 DEF SlotInv
<1>4. CASE n \in Dirs /\ open < MaxOpen
  <2> DEFINE f == [dir |-> n, next |-> 1]
  <2>1. frames' = Append(frames, f) /\ open' = open + 1
    BY <1>4 DEF FindOpen
  <2>2. /\ f \in [dir : Dirs, next : Nat \ {0}] /\ f.dir = n /\ f.next = 1
        /\ frames \in Seq([dir : Dirs, next : Nat \ {0}])
    BY <1>2, <1>4 DEF FTypeOK
  <2> HIDE DEF f
  <2>3. /\ frames' \in Seq([dir : Dirs, next : Nat \ {0}]) /\ Len(frames') = N + 1
        /\ \A j \in 1 .. N : frames'[j] = frames[j]
        /\ frames'[N + 1].dir = n /\ frames'[N + 1].next = 1 /\ frames' # <<>>
    BY <2>1, <2>2
  <2>4. where' = "read"
    BY <1>1, <2>3 DEF Resume
  <2>5. FTypeOK'
    BY <1>1, <1>2, <2>1, <2>3, <2>4 DEF FTypeOK
  <2>6. WhereInv'
    BY <2>3, <2>4 DEF WhereInv
  <2>7. /\ frames = <<>> => n = Root
        /\ frames # <<>> => Child(n, frames[N].dir, frames[N].next - 1)
        /\ Entered[n] /\ Depth[n] = N + 1
    <3>1. CASE frames = <<>>
      <4>1. n = Root
        BY <1>1, <3>1, OpenWhat
      <4>2. Depth[n] = 1
        BY <4>1, Depths
      <4>3. 1 <= MaxOpen
        BY <1>2, <1>4, <3>1, Given
      <4> QED
        BY <1>2, <1>4, <3>1, <4>1, <4>2, <4>3, EnteredDef
    <3>2. CASE frames # <<>>
      <4>1. /\ Child(Current.node, Top.dir, Top.next - 1)
            /\ NoBlank(NameOf(Current.node)) => n = Current.node
            /\ ~ NoBlank(NameOf(Current.node)) => n \notin Dirs
        BY <1>1, <3>2, OpenWhat
      <4>2. n = Current.node /\ NoBlank(NameOf(n)) /\ Child(n, Top.dir, Top.next - 1)
        BY <1>4, <4>1
      <4>3. n # Root /\ Above(n) = Top.dir
        BY <4>2, ChildUp
      <4>4. Depth[Top.dir] = N /\ Entered[Top.dir]
        BY <1>2, <3>2 DEF FrameInv, Top
      <4>5. Depth[n] = N + 1
        BY <1>4, <4>3, <4>4, Depths
      <4>6. Depth[n] <= MaxOpen
        BY <1>2, <1>4, <4>5, Given
      <4>7. Entered[n]
        BY <1>4, <4>2, <4>3, <4>4, <4>6, EnteredDef
      <4> QED
        BY <3>2, <4>2, <4>5, <4>7 DEF Top
    <3> QED
      BY <3>1, <3>2
  <2>8. FrameInv'
    <3>1. frames'[1].dir = Root
      <4>1. CASE frames = <<>>
        BY <1>2, <2>3, <2>7, <4>1
      <4>2. CASE frames # <<>>
        <5>1. 1 \in 1 .. N /\ frames[1].dir = Root
          BY <1>2, <4>2 DEF FrameInv
        <5> QED
          BY <2>3, <5>1
      <4> QED
        BY <4>1, <4>2
    <3>2. ASSUME NEW j \in 1 .. N
          PROVE  /\ Entered[frames'[j].dir] /\ Depth[frames'[j].dir] = j
                 /\ frames'[j].next <= Len(slot[frames'[j].dir]) + 1
                 /\ Child(frames'[j + 1].dir, frames'[j].dir, frames'[j].next - 1)
                 /\ \A o \in 1 .. j : Under(frames'[o].dir, frames'[j].dir)
      <4>1. frames'[j] = frames[j] /\ \A o \in 1 .. j : frames'[o] = frames[o]
        BY <1>2, <2>3
      <4>2. /\ Entered[frames[j].dir] /\ Depth[frames[j].dir] = j
            /\ frames[j].next <= Len(slot[frames[j].dir]) + 1
            /\ \A o \in 1 .. j : Under(frames[o].dir, frames[j].dir)
        BY <1>2 DEF FrameInv
      <4>3. Child(frames'[j + 1].dir, frames'[j].dir, frames'[j].next - 1)
        <5>1. CASE j = N
          BY <1>2, <2>3, <2>7, <4>1, <5>1
        <5>2. CASE j # N
          <6>1. j < N /\ j + 1 \in 1 .. N
            BY <1>2, <5>2
          <6>2. Child(frames[j + 1].dir, frames[j].dir, frames[j].next - 1)
            BY <1>2, <6>1 DEF FrameInv
          <6> QED
            BY <2>3, <4>1, <6>1, <6>2
        <5> QED
          BY <5>1, <5>2
      <4> QED
        BY <4>1, <4>2, <4>3
    <3>3. ASSUME NEW o \in 1 .. N + 1
          PROVE  Under(frames'[o].dir, n)
      <4>1. CASE o = N + 1
        BY <2>3, <4>1, UnderSelf
      <4>2. CASE o # N + 1
        <5>1. o \in 1 .. N /\ N \in 1 .. N
          BY <1>2, <4>2
        <5>2. Under(frames[o].dir, frames[N].dir)
          BY <1>2, <5>1 DEF FrameInv
        <5>3. Child(n, frames[N].dir, frames[N].next - 1)
          BY <1>2, <2>7, <5>1
        <5>4. Under(frames[N].dir, n)
          BY <5>3, ChildUp
        <5> QED
          BY <2>3, <5>1, <5>2, <5>4, UnderTrans
      <4> QED
        BY <4>1, <4>2
    <3>4. 1 <= Len(slot[n]) + 1
      BY <1>2, <1>4
    <3>5. ASSUME NEW j \in 1 .. N + 1
          PROVE  /\ Entered[frames'[j].dir] /\ Depth[frames'[j].dir] = j
                 /\ frames'[j].next <= Len(slot[frames'[j].dir]) + 1
                 /\ j < N + 1 => Child(frames'[j + 1].dir, frames'[j].dir, frames'[j].next - 1)
                 /\ \A o \in 1 .. j : Under(frames'[o].dir, frames'[j].dir)
      <4>1. CASE j = N + 1
        BY <1>2, <2>3, <2>7, <3>3, <3>4, <4>1
      <4>2. CASE j # N + 1
        BY <1>2, <3>2, <4>2
      <4> QED
        BY <4>1, <4>2
    <3> QED
      BY <1>1, <2>3, <3>1, <3>5 DEF FrameInv
  <2>9. HitInv'
    <3>1. SUFFICES ASSUME NEW d \in Dirs, NEW k \in DOMAIN slot[d]
                   PROVE  Through(d, k)' <=> Through(d, k)
      BY <1>1, <1>2, HitSame
    <3>2. ASSUME NEW j \in 1 .. N
          PROVE  Cur(j)' = Cur(j) /\ frames'[j].dir = frames[j].dir
      BY <1>1, <1>2, <2>3, <2>4 DEF Cur
    <3>3. ASSUME NEW j, j = N + 1
          PROVE  Cur(j)' = 1
      BY <1>2, <2>3, <2>4, <3>3 DEF Cur
    <3>4. ~ Passed(n, 1, d, k)
      BY <1>2, <1>4, PassedNone
    <3>5. Through(d, k)' <=> \E j \in 1 .. N + 1 : Passed(frames'[j].dir, Cur(j)', d, k)
      BY <2>3, <2>4 DEF Through
    <3>6. Through(d, k) <=> \E j \in 1 .. N : Passed(frames[j].dir, Cur(j), d, k)
      BY <1>1 DEF Through
    <3>7. ASSUME NEW j \in 1 .. N + 1
          PROVE  Passed(frames'[j].dir, Cur(j)', d, k)
                   <=> j \in 1 .. N /\ Passed(frames[j].dir, Cur(j), d, k)
      <4>1. CASE j = N + 1
        <5>1. Cur(j)' = 1 /\ frames'[j].dir = n /\ j \notin 1 .. N
          BY <1>2, <2>3, <3>3, <4>1
        <5> QED
          BY <3>4, <5>1
      <4>2. CASE j # N + 1
        <5>1. j \in 1 .. N
          BY <1>2, <4>2
        <5> QED
          BY <3>2, <5>1
      <4> QED
        BY <4>1, <4>2
    <3>8. 1 .. N \subseteq 1 .. N + 1
      BY <1>2
    <3> QED
      BY <3>5, <3>6, <3>7, <3>8
  <2> QED
    BY <1>3, <2>5, <2>6, <2>8, <2>9 DEF FindInvariant
<1>5. CASE ~ (n \in Dirs /\ open < MaxOpen)
  <2>1. frames' = frames /\ open' = open
    BY <1>5 DEF FindOpen
  <2>2. FTypeOK' /\ FrameInv'
    BY <1>1, <1>2, <2>1 DEF FTypeOK, FrameInv, Resume
  <2>3. WhereInv'
    BY <1>1, <2>1 DEF WhereInv, Resume
  <2>4. HitInv'
    <3>1. SUFFICES ASSUME NEW d \in Dirs, NEW k \in DOMAIN slot[d], IsFile(slot[d][k].node),
                          Searched(d)
                   PROVE  Through(d, k)' <=> Through(d, k)
      BY <1>1, <1>2, HitSame
    <3>2. frames # <<>> /\ ~ Under(Current.node, d)
      BY <1>1, <1>5, <3>1, OpenNot DEF Searched
    <3>3. where' = "read" /\ N >= 1
      BY <1>1, <1>2, <2>1, <3>2 DEF Resume
    <3>4. ASSUME NEW j \in 1 .. N
          PROVE  IF j = N THEN Cur(j)' = frames[j].next /\ Cur(j) = frames[j].next - 1
                 ELSE Cur(j)' = Cur(j)
      BY <1>1, <1>2, <2>1, <3>3 DEF Cur
    <3>5. Child(Current.node, Top.dir, Top.next - 1)
      BY <1>1, <1>2, <3>2 DEF WhereInv
    <3>6. Top.dir \in Dirs /\ Top.next - 1 \in Nat /\ k \in Nat /\ Top = frames[N]
      BY <1>2, <3>3 DEF Top
    <3>7. ASSUME d = Top.dir, k = Top.next - 1
          PROVE  FALSE
      <4>1. slot[d][k] = Current /\ Current.node \in Dirs
        BY <3>5, <3>7, ChildUp DEF Current
      <4>2. Kind[slot[d][k].node] = "dir"
        BY <4>1 DEF Dirs
      <4> QED
        BY <3>1, <4>2 DEF IsFile
    <3>8. \A x \in Dirs : Child(x, Top.dir, Top.next - 1) => ~ Under(x, d)
      BY <3>2, <3>5 DEF Child
    <3>9. ASSUME NEW j \in 1 .. N
          PROVE  IF j = N THEN Cur(j)' = (Top.next - 1) + 1 /\ Cur(j) = Top.next - 1
                 ELSE Cur(j)' = Cur(j)
      BY <3>4, <3>6, <1>2
    <3> QED
      BY <1>1, <1>2, <2>1, <3>2, <3>3, <3>6, <3>7, <3>8, <3>9, ThroughMore
  <2> QED
    BY <1>3, <2>2, <2>3, <2>4 DEF FindInvariant
<1> QED
  BY <1>4, <1>5

\* The next entry is read.
LEMMA ReadNext ==
  ASSUME FindAssumption, FindInvariant, FindRead
  PROVE  FindInvariant'
<1> DEFINE N == Len(frames)
           d0 == Top.dir
           e == slot[d0][Top.next]
<1>1. /\ where = "read" /\ slot' = slot /\ open' = open /\ hits' = hits
      /\ disturbed' = disturbed
  BY DEF FindRead
<1>2. /\ FTypeOK /\ SlotInv /\ FrameInv /\ WhereInv /\ HitInv
      /\ N \in Nat /\ (frames = <<>> <=> N = 0) /\ open = N
      /\ \A j \in 1 .. N : frames[j].dir \in Dirs /\ frames[j].next \in Nat \ {0}
      /\ \A d \in Dirs : slot[d] \in Seq(Entry) /\ Contents[d] \in Seq(Entry)
  BY FrameType, Given DEF FindInvariant, FTypeOK
<1>3. /\ frames # <<>> /\ N >= 1 /\ Top = frames[N] /\ d0 \in Dirs /\ Top.next \in Nat \ {0}
  BY <1>1, <1>2 DEF WhereInv, Top
<1>4. Last(frames) = Top
  BY <1>3 DEF Last, Top
<1>5. /\ Top.next <= Len(slot[d0])
      /\ frames' = [frames EXCEPT ![N].next = @ + 1]
      /\ e = Hole => where' = where /\ todo' = todo
      /\ e # Hole => where' = "stat" /\ todo' = <<d0, e.name>>
  BY <1>4, Zenon DEF FindRead
<1>6. Top.next \in DOMAIN slot[d0] /\ e \in Entry
  BY <1>2, <1>3, <1>5
<1>7. /\ frames' \in Seq([dir : Dirs, next : Nat \ {0}]) /\ Len(frames') = N
      /\ \A j \in 1 .. N : /\ frames'[j].dir = frames[j].dir
                           /\ j # N => frames'[j] = frames[j]
      /\ frames'[N].next = Top.next + 1 /\ frames'[N].dir = d0 /\ frames' # <<>>
  <2> DEFINE T == [dir : Dirs, next : Nat \ {0}]
  <2>1. frames \in Seq(T) /\ frames[N] \in T
    <3>1. frames \in Seq(T)
      BY <1>2 DEF FTypeOK
    <3> HIDE DEF T
    <3> QED
      BY <1>2, <1>3, <3>1
  <2>2. [frames[N] EXCEPT !.next = @ + 1] \in T
    BY <2>1
  <2> QED
    BY <1>2, <1>3, <1>5, <2>1, <2>2
<1>8. Top' = frames'[N] /\ Top'.dir = d0 /\ Top'.next = Top.next + 1
  BY <1>7 DEF Top
<1>9. Current' = e
  BY <1>1, <1>3, <1>8 DEF Current
<1>10. FTypeOK' /\ SlotInv'
  <2>1. SlotInv'
    BY <1>1, <1>2 DEF SlotInv
  <2>2. todo' \in Dirs \X Seq(STRING) /\ where' \in {"read", "stat"}
    BY <1>1, <1>2, <1>3, <1>5, <1>6 DEF FTypeOK, Entry
  <2> QED
    BY <1>1, <1>2, <1>7, <2>1, <2>2 DEF FTypeOK
<1>11. FrameInv'
  <2>1. frames'[1].dir = Root
    BY <1>2, <1>3, <1>7 DEF FrameInv
  <2>2. ASSUME NEW j \in 1 .. N
        PROVE  /\ Entered[frames'[j].dir] /\ Depth[frames'[j].dir] = j
               /\ frames'[j].next <= Len(slot[frames'[j].dir]) + 1
               /\ j < N => Child(frames'[j + 1].dir, frames'[j].dir, frames'[j].next - 1)
               /\ \A o \in 1 .. j : Under(frames'[o].dir, frames'[j].dir)
    <3>1. /\ Entered[frames[j].dir] /\ Depth[frames[j].dir] = j
          /\ frames[j].next <= Len(slot[frames[j].dir]) + 1
          /\ j < N => Child(frames[j + 1].dir, frames[j].dir, frames[j].next - 1)
          /\ \A o \in 1 .. j : Under(frames[o].dir, frames[j].dir)
      BY <1>2 DEF FrameInv
    <3>2. \A o \in 1 .. j : frames'[o].dir = frames[o].dir
      BY <1>2, <1>7
    <3>3. j < N => j + 1 \in 1 .. N /\ frames'[j] = frames[j] /\ frames'[j + 1].dir = frames[j + 1].dir
      BY <1>2, <1>7
    <3>4. frames'[j].next <= Len(slot[frames'[j].dir]) + 1
      <4>1. CASE j = N
        <5>1. Len(slot[d0]) \in Nat
          BY <1>2, <1>3
        <5> QED
          BY <1>3, <1>5, <1>7, <4>1, <5>1
      <4>2. CASE j # N
        BY <1>7, <3>1, <4>2
      <4> QED
        BY <4>1, <4>2
    <3> QED
      BY <3>1, <3>2, <3>3, <3>4
  <2> QED
    BY <1>1, <1>7, <2>1, <2>2 DEF FrameInv
<1>12. WhereInv'
  <2>1. CASE e = Hole
    BY <1>1, <1>5, <1>7, <2>1 DEF WhereInv
  <2>2. CASE e # Hole
    <3>1. StatInv'
      BY <1>5, <1>9, <2>2 DEF StatInv
    <3> QED
      BY <1>3, <1>5, <1>7, <1>8, <2>2, <3>1 DEF WhereInv
  <2> QED
    BY <2>1, <2>2
<1>13. HitInv'
  <2>1. SUFFICES ASSUME NEW d \in Dirs, NEW k \in DOMAIN slot[d], IsFile(slot[d][k].node)
                 PROVE  Through(d, k)' <=> Through(d, k)
    BY <1>1, <1>2, HitSame
  <2>2. k \in Nat
    BY <1>2
  <2>3. CASE e = Hole
    <3>1. ASSUME NEW j \in 1 .. N
          PROVE  IF j = N THEN Cur(j)' = Top.next + 1 /\ Cur(j) = Top.next
                 ELSE Cur(j)' = Cur(j)
      BY <1>1, <1>3, <1>5, <1>7, <2>3 DEF Cur
    <3>2. d = d0 => k # Top.next
      BY <2>1, <2>3, Given DEF IsFile
    <3>3. \A x \in Dirs : ~ Child(x, d0, Top.next)
      BY <1>2, <1>3, <1>6, <2>3, SlotDir DEF Child, HasDir
    <3> QED
      BY <1>1, <1>2, <1>3, <1>5, <1>7, <2>2, <2>3, <3>1, <3>2, <3>3, ThroughMore
  <2>4. CASE e # Hole
    <3>1. ASSUME NEW j \in 1 .. N
          PROVE  Cur(j)' = Cur(j)
      BY <1>1, <1>3, <1>5, <1>7, <2>4 DEF Cur
    <3>2. Through(d, k)' <=> \E j \in 1 .. N : Passed(frames[j].dir, Cur(j)', d, k)
      BY <1>5, <1>7, <2>4 DEF Through
    <3>3. Through(d, k) <=> \E j \in 1 .. N : Passed(frames[j].dir, Cur(j), d, k)
      BY <1>1 DEF Through
    <3> QED
      BY <3>1, <3>2, <3>3
  <2> QED
    BY <2>3, <2>4
<1> QED
  BY <1>10, <1>11, <1>12, <1>13 DEF FindInvariant

\* Before stat() is through with it, find is not through with the entry.
LEMMA NotThrough ==
  ASSUME FindAssumption, FindInvariant, where = "stat"
  PROVE  ~ Through(Top.dir, Top.next - 1)
<1> DEFINE N == Len(frames)
           d0 == Top.dir
           q == Top.next - 1
<1>1. /\ FTypeOK /\ FrameInv /\ frames # <<>> /\ N \in Nat /\ N >= 1 /\ Top = frames[N]
      /\ \A j \in 1 .. N : frames[j].dir \in Dirs /\ frames[j].next \in Nat \ {0}
      /\ d0 \in Dirs /\ Top.next \in Nat \ {0}
  BY FrameType DEF FindInvariant, WhereInv, Top
<1>2. SUFFICES ASSUME NEW j \in 1 .. N, Passed(frames[j].dir, frames[j].next - 1, d0, q)
               PROVE  FALSE
  BY DEF Through, Cur
<1> DEFINE a == frames[j].dir
           b == frames[j].next - 1
<1>3. a \in Dirs /\ Depth[a] = j /\ Depth[d0] = N /\ Under(a, d0) /\ a \in Dirs
  BY <1>1, <1>2 DEF FrameInv
<1>4. CASE a = d0 /\ q < b
  <2>1. j = N
    BY <1>3, <1>4
  <2> QED
    BY <1>1, <1>4, <2>1
<1>5. CASE \E x \in Dirs : \E l \in DOMAIN Contents[a] : Child(x, a, l) /\ Under(x, d0) /\ l < b
  <2>1. PICK x \in Dirs, l \in DOMAIN Contents[a] : Child(x, a, l) /\ Under(x, d0) /\ l < b
    BY <1>5
  <2>2. x # Root /\ Above(x) = a
    BY <2>1, ChildUp
  <2>3. CASE j = N
    <3>1. Height[x] <= Height[d0] /\ Height[a] < Height[x] /\ a = d0
      BY <1>1, <2>1, <2>2, <2>3, UnderHeight, Heights
    <3>2. Height[x] \in Nat /\ Height[a] \in Nat
      BY <1>3, Heights
    <3> QED
      BY <3>1, <3>2
  <2>4. CASE j # N
    <3> DEFINE y == frames[j + 1].dir
    <3>1. j + 1 \in 1 .. N /\ N \in 1 .. N
      BY <1>1, <2>4
    <3>2. Child(y, a, b) /\ Under(y, d0)
      BY <1>1, <3>1 DEF FrameInv
    <3>3. y \in Dirs /\ y # Root /\ Above(y) = a
      BY <3>2, ChildUp
    <3>4. x = y
      BY <1>1, <2>1, <2>2, <3>2, <3>3, Siblings
    <3>5. l = b
      BY <2>1, <3>2, <3>4, ChildUp
    <3>6. b \in Nat
      BY <1>1, <1>2
    <3> QED
      BY <2>1, <3>5, <3>6
  <2> QED
    BY <2>3, <2>4
<1> QED
  BY <1>2, <1>4, <1>5 DEF Passed

\* What stat() finds: the entry that was read, or another one of its name.
LEMMA StatWhat ==
  ASSUME FindAssumption, FindInvariant, where = "stat"
  PROVE  LET n == Lookup(todo[1], todo[2])
             d0 == Top.dir
             q == Top.next - 1
         IN  /\ d0 \in Dirs /\ q \in DOMAIN slot[d0] /\ todo = <<d0, todo[2]>>
             /\ q \in Nat \ {0}
             /\ todo \notin disturbed => Current # Hole /\ Current.name = todo[2]
             /\ Current # Hole /\ Current.name = todo[2] => n = Current.node
             /\ n \in Dirs => /\ n = Current.node /\ Current # Hole /\ Current.name = todo[2]
                              /\ q \in DOMAIN Contents[d0] /\ Current = Contents[d0][q]
             /\ n \notin Dirs => Current.node \notin Dirs /\ ~ HasDir(d0, q)
             /\ Current # Hole /\ Current.name # todo[2] => <<d0, Current.name>> \in disturbed
<1> DEFINE n == Lookup(todo[1], todo[2])
           N == Len(frames)
           d0 == Top.dir
           q == Top.next - 1
<1>1. /\ FTypeOK /\ SlotInv /\ FrameInv /\ WhereInv /\ StatInv /\ frames # <<>>
      /\ N \in Nat /\ N >= 1 /\ Top = frames[N]
      /\ d0 \in Dirs /\ Top.next \in Nat \ {0} /\ todo[1] = d0 /\ Top.next >= 2
      /\ slot[d0] \in Seq(Entry) /\ Contents[d0] \in Seq(Entry)
  BY FrameType, Given DEF FindInvariant, WhereInv, SlotInv, Top
<1>2. Top.next <= Len(slot[d0]) + 1 /\ todo = <<d0, todo[2]>>
  BY <1>1 DEF FrameInv, FTypeOK
<1>3. q \in DOMAIN slot[d0] /\ q \in Nat \ {0}
  BY <1>1, <1>2
<1>4. Current = slot[d0][q]
  BY DEF Current
<1>5. ASSUME Current # Hole, Current.name = todo[2]
      PROVE  n = Current.node
  BY <1>1, <1>3, <1>4, <1>5, LookupOf
<1>6. ASSUME n \in Dirs
      PROVE  /\ n = Current.node /\ Current # Hole /\ Current.name = todo[2]
             /\ q \in DOMAIN Contents[d0] /\ Current = Contents[d0][q]
  <2>1. n # None
    BY <1>6, Given
  <2>2. PICK k \in DOMAIN slot[d0] : slot[d0][k].name = todo[2] /\ slot[d0][k].node = n
    BY <1>1, <2>1, LookupIs
  <2>3. slot[d0][k] = Contents[d0][k] /\ k \in DOMAIN Contents[d0]
    BY <1>1, <1>6, <2>2, SlotDir
  <2>4. Current # Hole /\ Current.name = todo[2]
    BY <1>1, <1>6, <2>2, <2>3 DEF StatInv
  <2>5. q \in DOMAIN Contents[d0] /\ Current = Contents[d0][q]
    BY <1>1, <1>3, <1>4, <1>5, <1>6, <2>4, SlotDir
  <2> QED
    BY <1>5, <2>4, <2>5
<1>7. ASSUME n \notin Dirs
      PROVE  Current.node \notin Dirs /\ ~ HasDir(d0, q)
  <2>1. SUFFICES ASSUME Current.node \in Dirs \/ HasDir(d0, q) PROVE FALSE
    OBVIOUS
  <2>2. /\ Current = Contents[d0][q] /\ Current # Hole /\ Current.node \in Dirs
        /\ HasDir(d0, q)
    BY <1>1, <1>3, <1>4, <2>1, SlotDir
  <2>3. Current.name = todo[2]
    BY <1>1, <1>3, <2>2 DEF StatInv, HasDir
  <2> QED
    BY <1>5, <1>7, <2>2, <2>3
<1>8. /\ todo \notin disturbed => Current # Hole /\ Current.name = todo[2]
      /\ Current # Hole /\ Current.name # todo[2] => <<d0, Current.name>> \in disturbed
  BY <1>1 DEF StatInv
<1> QED
  BY <1>1, <1>2, <1>3, <1>5, <1>6, <1>7, <1>8

\* "." and ".." are no names that are cut, and no name of a directory is cut to them.
LEMMA DotsUncut ==
  ASSUME FindAssumption, NEW name \in Dots, name \in Seq(STRING)
  PROVE  Getname(name) = name
<1>1. name = <<".">> \/ name = <<".", ".">>
  BY DEF Dots, Dot
<1>2. \A k \in DOMAIN name : name[k] = "."
  BY <1>1
<1>3. NoBlank(name)
  BY <1>2 DEF NoBlank
<1> QED
  BY <1>3, Uncut

LEMMA SkippedDot ==
  ASSUME FindAssumption, NEW d \in Dirs, NEW k \in DOMAIN Contents[d],
         Contents[d][k].node \in Dirs, Skipped(Contents[d][k].name)
  PROVE  Contents[d][k].name \in Dots
<1> DEFINE name == Contents[d][k].name
<1>1. Contents[d] \in Seq(Entry)
  BY Given
<1>2. Contents[d][k] \in Entry
  BY <1>1
<1>3. name \in Seq(STRING)
  BY <1>2 DEF Entry
<1>4. Getname(name) \in Dots
  BY DEF Skipped
<1>5. CASE NoBlank(name)
  BY <1>3, <1>4, <1>5, Uncut
<1>6. CASE ~ NoBlank(name)
  <2>1. /\ [name |-> Dot, node |-> d] \in ToSet(Contents[d])
        /\ [name |-> <<".", ".">>, node |-> Above(d)] \in ToSet(Contents[d])
        /\ Above(d) \in Dirs
    BY DEF FindAssumption
  <2>2. \E l \in DOMAIN Contents[d] : Contents[d][l] = [name |-> Dot, node |-> d]
    BY <1>1, <2>1 DEF ToSet
  <2>3. \E l \in DOMAIN Contents[d] : Contents[d][l] = [name |-> <<".", ".">>, node |-> Above(d)]
    BY <1>1, <2>1 DEF ToSet
  <2>4. \E l \in DOMAIN Contents[d] : Contents[d][l].node \in Dirs /\ Contents[d][l].name = Getname(name)
    BY <1>4, <2>1, <2>2, <2>3 DEF Dots
  <2> QED
    BY <1>6, <2>4, Once
<1> QED
  BY <1>5, <1>6

\* stat() finds a directory to go into.
LEMMA StatDir ==
  ASSUME FindAssumption, FindInvariant, FindStat,
         Stat(todo[1], todo[2]) \in Dirs, ~ Skipped(todo[2])
  PROVE  FindInvariant'
<1> DEFINE n == Stat(todo[1], todo[2])
           N == Len(frames)
           d0 == Top.dir
           q == Top.next - 1
<1>1. /\ where = "stat" /\ slot' = slot /\ frames' = frames /\ open' = open
      /\ disturbed' = disturbed /\ where' = "open" /\ todo' = <<todo[1], Getname(todo[2])>>
  BY Zenon DEF FindStat
<1>2. hits' = hits
  <2>1. ~ (n # None /\ Kind[n] = "file" /\ Getname(todo[2]) = Ref)
    BY DEF Dirs
  <2> QED
    BY <2>1, Zenon DEF FindStat
<1>3. /\ FTypeOK /\ SlotInv /\ FrameInv /\ WhereInv /\ HitInv /\ frames # <<>>
      /\ todo \in Dirs \X Seq(STRING)
  BY <1>1 DEF FindInvariant, WhereInv, FTypeOK
<1>4. /\ n = Current.node /\ Current.name = todo[2] /\ Current = Contents[d0][q]
      /\ todo = <<d0, todo[2]>> /\ d0 \in Dirs /\ q \in Nat \ {0} /\ q \in DOMAIN Contents[d0]
  <2>1. n = Lookup(todo[1], todo[2]) /\ Lookup(todo[1], todo[2]) \in Dirs
    BY Given DEF Stat
  <2> QED
    BY <1>1, <2>1, StatWhat
<1>5. todo[2] \notin Dots
  BY <1>3, DotsUncut DEF Skipped
<1>6. Child(Current.node, d0, q)
  BY <1>4, <1>5 DEF Child
<1>7. Getname(todo[2]) \in Seq(STRING)
  <2>1. Cardinality({k \in DOMAIN todo[2] : todo[2][k] # " "}) \in Nat
                /\ Cardinality({k \in DOMAIN todo[2] : todo[2][k] # " "}) <= Len(todo[2])
    <3>1. DOMAIN todo[2] = 1 .. Len(todo[2]) /\ Len(todo[2]) \in Nat
      BY <1>3
    <3>2. IsFiniteSet(1 .. Len(todo[2])) /\ Cardinality(1 .. Len(todo[2])) = Len(todo[2])
      BY <3>1, FS_Interval
    <3>3. {k \in DOMAIN todo[2] : todo[2][k] # " "} \in SUBSET (1 .. Len(todo[2]))
      BY <3>1
    <3> QED
      BY <3>2, <3>3, FS_Subset, FS_CardinalityType
  <2>2. \A m \in Nat : m <= Len(todo[2]) => SubSeq(todo[2], 1, m) \in Seq(STRING)
    BY <1>3
  <2> QED
    BY <2>1, <2>2 DEF Getname
<1>8. FTypeOK' /\ SlotInv' /\ FrameInv'
  <2>1. FTypeOK'
    BY <1>1, <1>2, <1>3, <1>7 DEF FTypeOK
  <2> QED
    BY <1>1, <1>3, <2>1 DEF SlotInv, FrameInv
<1>9. WhereInv'
  <2>1. Top' = Top /\ Current' = Current
    BY <1>1 DEF Top, Current
  <2>2. todo'[1] = d0 /\ todo'[2] = Getname(Current.name) /\ Top.next >= 2
    BY <1>1, <1>3, <1>4 DEF WhereInv
  <2> QED
    BY <1>1, <1>3, <1>6, <2>1, <2>2 DEF WhereInv
<1>10. HitInv'
  <2>1. SUFFICES ASSUME NEW d \in Dirs, NEW k \in DOMAIN slot[d]
                 PROVE  Through(d, k)' <=> Through(d, k)
    BY <1>1, <1>2, <1>3, HitSame
  <2>2. ASSUME NEW j
        PROVE  Cur(j)' = Cur(j)
    BY <1>1 DEF Cur
  <2> QED
    BY <1>1, <2>2 DEF Through
<1> QED
  BY <1>8, <1>9, <1>10 DEF FindInvariant

\* It finds anything else, and maybe prints it.
LEMMA StatElse ==
  ASSUME FindAssumption, FindInvariant, FindStat, open < MaxOpen,
         ~ (Stat(todo[1], todo[2]) \in Dirs /\ ~ Skipped(todo[2]))
  PROVE  FindInvariant'
<1> DEFINE n == Lookup(todo[1], todo[2])
           N == Len(frames)
           d0 == Top.dir
           q == Top.next - 1
           Prints == n # None /\ Kind[n] = "file" /\ Getname(todo[2]) = Ref
<1>1. /\ where = "stat" /\ slot' = slot /\ frames' = frames /\ open' = open
      /\ disturbed' = disturbed /\ where' = "read" /\ todo' = todo
  BY Zenon DEF FindStat, Stat
<1>2. /\ Prints => hits' = [hits EXCEPT ![todo] = @ + 1]
      /\ ~ Prints => hits' = hits
  BY Zenon DEF FindStat, Stat
<1>3. /\ FTypeOK /\ SlotInv /\ FrameInv /\ WhereInv /\ HitInv /\ frames # <<>>
      /\ N \in Nat /\ N >= 1 /\ Top = frames[N]
      /\ hits \in [Paths -> Nat] /\ todo[2] \in Seq(STRING)
      /\ \A d \in Dirs : slot[d] \in Seq(Entry) /\ Contents[d] \in Seq(Entry)
  BY <1>1, FrameType, Given DEF FindInvariant, WhereInv, FTypeOK, Top
<1>4. /\ d0 \in Dirs /\ q \in DOMAIN slot[d0] /\ todo = <<d0, todo[2]>>
      /\ q \in Nat \ {0}
      /\ todo \notin disturbed => Current # Hole /\ Current.name = todo[2]
      /\ Current # Hole /\ Current.name = todo[2] => n = Current.node
      /\ n \in Dirs => /\ n = Current.node /\ Current # Hole /\ Current.name = todo[2]
                       /\ q \in DOMAIN Contents[d0] /\ Current = Contents[d0][q]
      /\ n \notin Dirs => Current.node \notin Dirs /\ ~ HasDir(d0, q)
      /\ Current # Hole /\ Current.name # todo[2] => <<d0, Current.name>> \in disturbed
  BY <1>1, StatWhat
<1>5. Current = slot[d0][q] /\ Current \in Entry
  BY <1>3, <1>4 DEF Current
<1>6. FTypeOK' /\ SlotInv' /\ FrameInv' /\ WhereInv'
  <2>1. hits' \in [Paths -> Nat]
    BY <1>2, <1>3
  <2>2. FTypeOK'
    BY <1>1, <1>3, <2>1 DEF FTypeOK
  <2> QED
    BY <1>1, <1>3, <2>2 DEF SlotInv, FrameInv, WhereInv
\* No directory is passed over that find could go into.
<1>7. \A x \in Dirs : ~ Child(x, d0, q)
  <2>1. SUFFICES ASSUME NEW x \in Dirs, Child(x, d0, q) PROVE FALSE
    OBVIOUS
  <2>2. HasDir(d0, q) /\ Contents[d0][q].name \notin Dots
    BY <2>1 DEF Child, HasDir
  <2>3. n \in Dirs /\ Skipped(todo[2]) /\ Contents[d0][q].name = todo[2]
    BY <1>4, <2>2 DEF Stat
  <2> QED
    BY <1>4, <2>2, <2>3, SkippedDot DEF HasDir
<1>8. ASSUME NEW j \in 1 .. N
      PROVE  IF j = N THEN Cur(j)' = q + 1 /\ Cur(j) = q ELSE Cur(j)' = Cur(j)
  <2>1. frames'[j] = frames[j] /\ Len(frames') = N
    BY <1>1
  <2>2. Cur(j) = frames[j].next - 1
    BY <1>1 DEF Cur
  <2>3. Cur(j)' = IF j = N THEN frames[j].next ELSE frames[j].next - 1
    BY <1>1 DEF Cur
  <2>4. j = N => frames[j].next = q + 1
    BY <1>3, <1>4, FrameType
  <2> QED
    BY <1>3, <2>2, <2>3, <2>4
<1>9. ASSUME NEW d \in Dirs, NEW k \in DOMAIN slot[d], ~ (d = d0 /\ k = q)
      PROVE  Through(d, k)' <=> Through(d, k)
  <2>1. k \in Nat /\ q \in Nat
    BY <1>3, <1>4
  <2> QED
    BY <1>1, <1>3, <1>7, <1>8, <1>9, <2>1, ThroughMore
<1>10. Searched(d0) /\ ~ Through(d0, q)
  <2>1. Entered[d0] /\ Depth[d0] = N /\ open = N
    BY <1>3 DEF FrameInv, FTypeOK
  <2> QED
    BY <1>1, <2>1, NotThrough DEF Searched
<1>11. ASSUME NEW d, NEW k, d = d0, k = q
       PROVE  Through(d, k)'
  <2>1. ASSUME NEW j, j = N
        PROVE  Passed(frames'[j].dir, Cur(j)', d, k)
    BY <1>1, <1>3, <1>4, <1>8, <1>11, <2>1 DEF Passed
  <2>2. N \in 1 .. Len(frames')
    BY <1>1, <1>3
  <2> QED
    BY <2>1, <2>2 DEF Through
<1>12. ASSUME NEW p \in Paths, p \notin disturbed, NoBlank(p[2])
       PROVE  hits'[p] = IF \E k \in DOMAIN slot[p[1]] : Counted(p[1], p[2], k)' THEN 1 ELSE 0
  <2>1. hits[p] = IF \E k \in DOMAIN slot[p[1]] : Counted(p[1], p[2], k) THEN 1 ELSE 0
    BY <1>3, <1>12 DEF HitInv
  <2>2. p = <<p[1], p[2]>> /\ p[1] \in Dirs
    BY Given
  <2>3. \A m : IsFile(m) => m # None
    BY Given DEF IsFile
  <2>4. CASE p = todo
    <3>1. /\ p[1] = d0 /\ p[2] = todo[2] /\ Current # Hole /\ Current.name = todo[2]
          /\ n = Current.node /\ Getname(todo[2]) = todo[2]
      BY <1>3, <1>4, <1>12, <2>4, Uncut
    <3>2. ASSUME NEW k \in DOMAIN slot[d0], slot[d0][k].name = todo[2], IsFile(slot[d0][k].node)
          PROVE  k = q
      <4>1. slot[d0][k] # Hole
        BY <2>3, <3>2, Given
      <4> QED
        BY <1>3, <1>4, <1>5, <3>1, <3>2, <4>1 DEF SlotInv
    <3>3. ~ \E k \in DOMAIN slot[p[1]] : Counted(p[1], p[2], k)
      BY <1>10, <3>1, <3>2 DEF Counted
    <3>4. hits[p] = 0
      BY <2>1, <3>3
    <3>5. ASSUME NEW k \in DOMAIN slot[d0]
          PROVE  Counted(p[1], p[2], k)' <=> k = q /\ IsFile(n) /\ todo[2] = Ref
      <4>1. CASE k = q
        <5>1. Through(p[1], k)'
          BY <1>11, <3>1, <4>1
        <5> QED
          BY <1>1, <1>5, <1>10, <3>1, <4>1, <5>1 DEF Counted
      <4>2. CASE k # q
        BY <1>1, <3>1, <3>2, <4>2 DEF Counted
      <4> QED
        BY <4>1, <4>2
    <3>6. (\E k \in DOMAIN slot[p[1]] : (Counted(p[1], p[2], k)')) <=> IsFile(n) /\ todo[2] = Ref
      <4>1. q \in DOMAIN slot[p[1]] /\ p[1] = d0
        BY <1>4, <3>1
      <4> QED
        BY <3>5, <4>1
    <3>7. Prints <=> IsFile(n) /\ todo[2] = Ref
      <4>1. n \in Nodes \cup {None}
        BY <1>5, <3>1 DEF Entry
      <4> QED
        BY <3>1, <4>1, Given DEF IsFile
    <3>8. Prints => hits'[p] = 1
      BY <1>2, <1>3, <2>4, <3>4
    <3>9. ~ Prints => hits'[p] = 0
      BY <1>2, <3>4
    <3> QED
      BY <3>6, <3>7, <3>8, <3>9
  <2>5. CASE p # todo
    <3>1. hits'[p] = hits[p]
      BY <1>2, <1>3, <2>5
    <3>2. ASSUME NEW k \in DOMAIN slot[p[1]]
          PROVE  Counted(p[1], p[2], k)' <=> Counted(p[1], p[2], k)
      <4>1. CASE p[1] = d0 /\ k = q
        <5>1. SUFFICES ASSUME slot[p[1]][k].name = p[2], IsFile(slot[p[1]][k].node) PROVE FALSE
          BY <1>1 DEF Counted
        <5>2. Current.name = p[2] /\ Current # Hole
          BY <1>5, <2>3, <4>1, <5>1, Given
        <5>3. Current.name # todo[2]
          BY <1>4, <2>2, <2>5, <4>1, <5>2
        <5> QED
          BY <1>4, <1>12, <2>2, <4>1, <5>2, <5>3
      <4>2. CASE ~ (p[1] = d0 /\ k = q)
        <5>1. Through(p[1], k)' <=> Through(p[1], k)
          BY <1>9, <2>2, <4>2
        <5> QED
          BY <1>1, <5>1 DEF Counted
      <4> QED
        BY <4>1, <4>2
    <3> QED
      BY <2>1, <3>1, <3>2
  <2> QED
    BY <2>4, <2>5
<1>13. HitInv'
  BY <1>1, <1>12 DEF HitInv
<1> QED
  BY <1>6, <1>13 DEF FindInvariant

\* No descriptor is left, and nothing is found: nor is anything searched where
\* find is now, or below.
LEMMA StatFails ==
  ASSUME FindAssumption, FindInvariant, FindStat, ~ (open < MaxOpen)
  PROVE  FindInvariant'
<1> DEFINE N == Len(frames)
           d0 == Top.dir
           q == Top.next - 1
<1>1. /\ where = "stat" /\ slot' = slot /\ frames' = frames /\ open' = open
      /\ disturbed' = disturbed
  BY DEF FindStat
<1>2. Stat(todo[1], todo[2]) = None /\ None \notin Dirs
  BY Given DEF Stat
<1>3. where' = "read" /\ todo' = todo /\ hits' = hits
  BY <1>2, Zenon DEF FindStat
<1>4. /\ FTypeOK /\ SlotInv /\ FrameInv /\ WhereInv /\ HitInv /\ frames # <<>>
      /\ N \in Nat /\ N >= 1 /\ Top = frames[N] /\ open = N
      /\ \A d \in Dirs : slot[d] \in Seq(Entry)
      /\ d0 \in Dirs /\ q \in Nat
  BY <1>1, FrameType DEF FindInvariant, WhereInv, FTypeOK, Top
<1>5. FTypeOK' /\ SlotInv' /\ FrameInv' /\ WhereInv'
  <2>1. FTypeOK'
    BY <1>1, <1>3, <1>4 DEF FTypeOK
  <2> QED
    BY <1>1, <1>3, <1>4, <2>1 DEF SlotInv, FrameInv, WhereInv
<1>6. Depth[d0] = N /\ N >= MaxOpen /\ MaxOpen \in Nat
  BY <1>4, Given DEF FrameInv
<1>7. ASSUME NEW j \in 1 .. N
      PROVE  IF j = N THEN Cur(j)' = q + 1 /\ Cur(j) = q ELSE Cur(j)' = Cur(j)
  <2>1. Cur(j) = frames[j].next - 1
    BY <1>1 DEF Cur
  <2>2. Cur(j)' = IF j = N THEN frames[j].next ELSE frames[j].next - 1
    BY <1>1, <1>3 DEF Cur
  <2>3. j = N => frames[j].next = q + 1
    BY <1>4, FrameType
  <2> QED
    BY <1>4, <2>1, <2>2, <2>3
<1>8. HitInv'
  <2>1. SUFFICES ASSUME NEW d \in Dirs, NEW k \in DOMAIN slot[d], Searched(d)
                 PROVE  Through(d, k)' <=> Through(d, k)
    BY <1>1, <1>3, <1>4, HitSame
  <2>2. Entered[d] /\ Depth[d] < MaxOpen
    BY <2>1 DEF Searched
  <2>3. d # d0
    BY <1>6, <2>2, Depths
  <2>4. ASSUME NEW x \in Dirs, Child(x, d0, q), Under(x, d)
        PROVE  FALSE
    <3>1. x # Root /\ Above(x) = d0
      BY <2>4, ChildUp
    <3>2. Depth[x] = N + 1
      BY <1>6, <3>1, Depths
    <3>3. Entered[x]
      BY <2>2, <2>4, EnteredUp
    <3> QED
      BY <1>4, <1>6, <3>2, <3>3, EnteredDef
  <2>5. k \in Nat
    BY <1>4
  <2> QED
    BY <1>1, <1>3, <1>4, <1>7, <2>3, <2>4, <2>5, ThroughMore
<1> QED
  BY <1>5, <1>8 DEF FindInvariant

LEMMA StatNext ==
  ASSUME FindAssumption, FindInvariant, FindStat
  PROVE  FindInvariant'
  BY StatDir, StatElse, StatFails

\* A call that is at the end of its directory is through with all that is below it,
\* and with nothing else.
LEMMA PassedAll ==
  ASSUME FindAssumption, FTypeOK, SlotInv, NEW a \in Dirs, NEW d \in Dirs,
         NEW k \in DOMAIN slot[d]
  PROVE  Passed(a, Len(slot[a]) + 1, d, k) <=> Under(a, d)
<1>1. /\ slot[a] \in Seq(Entry) /\ slot[d] \in Seq(Entry) /\ Contents[a] \in Seq(Entry)
      /\ DOMAIN Contents[a] \subseteq DOMAIN slot[a]
  BY Given, FrameType DEF SlotInv
<1>2. ASSUME Under(a, d)
      PROVE  Passed(a, Len(slot[a]) + 1, d, k)
  <2>1. CASE a = d
    BY <1>1, <2>1 DEF Passed
  <2>2. CASE a # d
    <3>1. PICK y \in Dirs : y # Root /\ Above(y) = a /\ Under(y, d)
      BY <1>2, <2>2, UnderKid
    <3>2. PICK l : Child(y, a, l)
      BY <3>1, ChildIs
    <3>3. l \in DOMAIN Contents[a] /\ l < Len(slot[a]) + 1
      BY <1>1, <3>2 DEF Child
    <3> QED
      BY <3>1, <3>2, <3>3 DEF Passed
  <2> QED
    BY <2>1, <2>2
<1>3. ASSUME Passed(a, Len(slot[a]) + 1, d, k)
      PROVE  Under(a, d)
  <2>1. CASE a = d
    BY <2>1, UnderSelf
  <2>2. CASE a # d
    <3>1. PICK x \in Dirs, l \in DOMAIN Contents[a] : Child(x, a, l) /\ Under(x, d)
      BY <1>3, <2>2 DEF Passed
    <3> QED
      BY <3>1, ChildUp, UnderTrans
  <2> QED
    BY <2>1, <2>2
<1> QED
  BY <1>2, <1>3

\* The directory is at its end, and the call returns.
LEMMA EndNext ==
  ASSUME FindAssumption, FindInvariant, FindEnd
  PROVE  FindInvariant'
<1> DEFINE N == Len(frames)
           d0 == Top.dir
<1>1. /\ where = "read" /\ slot' = slot /\ open' = open - 1 /\ hits' = hits
      /\ disturbed' = disturbed /\ todo' = todo /\ frames' = Front(frames)
      /\ where' = Resume(frames') /\ Last(frames).next > Len(slot[Last(frames).dir])
  BY DEF FindEnd
<1>2. /\ FTypeOK /\ SlotInv /\ FrameInv /\ WhereInv /\ HitInv
      /\ N \in Nat /\ N >= 1 /\ frames # <<>> /\ Top = frames[N]
      /\ frames \in Seq([dir : Dirs, next : Nat \ {0}]) /\ open = N
      /\ \A j \in 1 .. N : frames[j].dir \in Dirs /\ frames[j].next \in Nat \ {0}
      /\ \A d \in Dirs : slot[d] \in Seq(Entry) /\ Contents[d] \in Seq(Entry)
      /\ d0 \in Dirs /\ Top.next \in Nat \ {0}
  BY <1>1, FrameType, Given DEF FindInvariant, FTypeOK, WhereInv, Top
<1>3. Top.next = Len(slot[d0]) + 1
  <2>1. Top.next <= Len(slot[d0]) + 1
    BY <1>2 DEF FrameInv
  <2>2. Top.next > Len(slot[d0])
    BY <1>1, <1>2 DEF Last
  <2> QED
    BY <1>2, <2>1, <2>2
<1>4. /\ frames' \in Seq([dir : Dirs, next : Nat \ {0}]) /\ Len(frames') = N - 1
      /\ \A j \in 1 .. N - 1 : frames'[j] = frames[j]
      /\ frames' = <<>> <=> N = 1
  <2> DEFINE T == [dir : Dirs, next : Nat \ {0}]
  <2>1. frames' = SubSeq(frames, 1, N - 1) /\ frames \in Seq(T)
    BY <1>1, <1>2 DEF Front
  <2> HIDE DEF T
  <2>2. frames' \in Seq(T) /\ Len(frames') = N - 1 /\ \A j \in 1 .. N - 1 : frames'[j] = frames[j]
    BY <1>2, <2>1
  <2>3. frames' = <<>> <=> Len(frames') = 0
    BY <2>2
  <2> QED
    BY <1>2, <2>2, <2>3 DEF T
<1>5. where' = IF N = 1 THEN "done" ELSE "read"
  BY <1>1, <1>4 DEF Resume
<1>6. FTypeOK' /\ SlotInv' /\ WhereInv'
  <2>1. FTypeOK'
    BY <1>1, <1>2, <1>4, <1>5 DEF FTypeOK
  <2>2. WhereInv'
    BY <1>4, <1>5 DEF WhereInv
  <2> QED
    BY <1>1, <1>2, <2>1, <2>2 DEF SlotInv
<1>7. FrameInv'
  <2>0. N \in Nat /\ N >= 1 /\ \A j \in 1 .. N - 1 : frames'[j] = frames[j]
    BY <1>2, <1>4
  <2>1. frames' # <<>> => frames'[1].dir = Root
    <3>1. frames[1].dir = Root
      BY <1>2 DEF FrameInv
    <3>2. N # 1 => 1 \in 1 .. N - 1
      <4> HIDE DEF N
      <4> QED
        BY <2>0
    <3> QED
      BY <1>4, <2>0, <3>1, <3>2
  <2>2. ASSUME NEW j \in 1 .. N - 1
        PROVE  /\ Entered[frames'[j].dir] /\ Depth[frames'[j].dir] = j
               /\ frames'[j].next <= Len(slot[frames'[j].dir]) + 1
               /\ j < N - 1 => Child(frames'[j + 1].dir, frames'[j].dir, frames'[j].next - 1)
               /\ \A o \in 1 .. j : Under(frames'[o].dir, frames'[j].dir)
    <3>0. /\ j \in 1 .. N /\ j < N /\ \A o \in 1 .. j : o \in 1 .. N - 1
          /\ j < N - 1 => j + 1 \in 1 .. N - 1
      <4> HIDE DEF N
      <4> QED
        BY <2>0
    <3>1. /\ Entered[frames[j].dir] /\ Depth[frames[j].dir] = j
          /\ frames[j].next <= Len(slot[frames[j].dir]) + 1
          /\ j < N => Child(frames[j + 1].dir, frames[j].dir, frames[j].next - 1)
          /\ \A o \in 1 .. j : Under(frames[o].dir, frames[j].dir)
      BY <1>2, <3>0 DEF FrameInv
    <3>2. frames'[j] = frames[j] /\ \A o \in 1 .. j : frames'[o] = frames[o]
      BY <2>0, <3>0
    <3>3. j < N - 1 => j < N /\ frames'[j + 1] = frames[j + 1]
      BY <2>0, <3>0
    <3> QED
      BY <3>1, <3>2, <3>3
  <2> QED
    BY <1>1, <1>4, <2>1, <2>2 DEF FrameInv
<1>8. HitInv'
  <2>1. SUFFICES ASSUME NEW d \in Dirs, NEW k \in DOMAIN slot[d], IsFile(slot[d][k].node)
                 PROVE  Through(d, k)' <=> Through(d, k)
    BY <1>1, <1>2, HitSame
  <2>2. ASSUME NEW j \in 1 .. N
        PROVE  Cur(j) = IF j = N THEN frames[j].next ELSE frames[j].next - 1
    BY <1>1 DEF Cur
  <2>3. Passed(d0, Top.next, d, k) <=> Under(d0, d)
    BY <1>2, <1>3, PassedAll
  <2>4. Through(d, k) <=> \E j \in 1 .. N : Passed(frames[j].dir, Cur(j), d, k)
    BY <1>1 DEF Through
  <2>5. Through(d, k) <=> \/ Under(d0, d)
                          \/ \E j \in 1 .. N - 1 : Passed(frames[j].dir, frames[j].next - 1, d, k)
    <3>1. N \in 1 .. N /\ \A j \in 1 .. N : j = N \/ (j \in 1 .. N - 1 /\ j # N)
      BY <1>2
    <3>2. \A j \in 1 .. N - 1 : j \in 1 .. N /\ j # N
      BY <1>2
    <3> QED
      BY <1>2, <2>2, <2>3, <2>4, <3>1, <3>2
  <2>6. CASE N = 1
    <3>1. d0 = Root
      BY <1>2, <2>6 DEF FrameInv
    <3> QED
      BY <1>5, <2>5, <2>6, <3>1, UnderRoot DEF Through
  <2>7. CASE N # 1
    <3> DEFINE a == frames[N - 1].dir
               b == frames[N - 1].next - 1
    <3>1. N - 1 \in 1 .. N - 1 /\ N - 1 \in 1 .. N /\ N - 1 < N
      BY <1>2, <2>7
    <3>2. Child(frames[(N - 1) + 1].dir, a, b)
      BY <1>2, <3>1 DEF FrameInv
    <3>3. Child(d0, a, b) /\ a \in Dirs /\ b \in Nat /\ frames[N - 1].next = b + 1
      <4>1. (N - 1) + 1 = N
        BY <1>2
      <4>2. Child(d0, a, b)
        BY <1>2, <3>2, <4>1
      <4>3. a \in Dirs /\ frames[N - 1].next \in Nat \ {0}
        BY <1>2, <3>1
      <4> QED
        BY <4>2, <4>3
    <3>4. ASSUME NEW j \in 1 .. N - 1
          PROVE  Cur(j)' = IF j = N - 1 THEN frames[j].next ELSE frames[j].next - 1
      BY <1>4, <1>5, <2>7 DEF Cur
    <3>5. Through(d, k)' <=> \E j \in 1 .. N - 1 : Passed(frames[j].dir, Cur(j)', d, k)
      BY <1>4, <1>5, <2>7 DEF Through
    <3>6. Passed(a, b + 1, d, k) <=> Passed(a, b, d, k) \/ Under(d0, d)
      <4>1. ~ (a = d /\ k = b)
        <5>1. SUFFICES ASSUME a = d, k = b PROVE FALSE
          OBVIOUS
        <5>2. Contents[d][k].node \in Dirs
          BY <3>3, <5>1 DEF Child
        <5>3. slot[d][k].node \in Dirs
          BY <1>2, <3>3, <5>1, <5>2, SlotDir DEF HasDir, Child
        <5> QED
          BY <2>1, <5>3 DEF IsFile, Dirs
      <4>2. b \in DOMAIN Contents[a] /\ \A x : Child(x, a, b) <=> x = d0
        BY <3>3 DEF Child
      <4>3. k \in Nat /\ Contents[a] \in Seq(Entry)
        BY <1>2, <3>3
      <4> HIDE DEF a, b
      <4> QED
        BY <1>2, <3>3, <4>1, <4>2, <4>3 DEF Passed
    <3>7. ASSUME NEW j \in 1 .. N - 1
          PROVE  Passed(frames[j].dir, Cur(j)', d, k)
                   <=> \/ Passed(frames[j].dir, frames[j].next - 1, d, k)
                       \/ j = N - 1 /\ Under(d0, d)
      <4>1. CASE j = N - 1
        BY <3>3, <3>4, <3>6, <4>1
      <4>2. CASE j # N - 1
        BY <3>4, <4>2
      <4> QED
        BY <4>1, <4>2
    <3> QED
      BY <2>5, <3>1, <3>5, <3>7
  <2> QED
    BY <2>6, <2>7
<1> QED
  BY <1>6, <1>7, <1>8 DEF FindInvariant

\* Somebody else writes an entry of a directory, which is no directory before or after:
\* it is free or becomes free, and no entry has the new name.
LEMMA ChangeNext ==
  ASSUME FindAssumption, FindInvariant, NEW d \in Dirs, NEW k \in 1 .. Len(slot[d]) + 1,
         NEW e \in Entry, NEW name, NEW r \in Seq(Entry), Change(d, r, name),
         DOMAIN r = DOMAIN slot[d] \cup {k}, r[k] = e,
         \A l \in DOMAIN slot[d] : l # k => r[l] = slot[d][l],
         k \in DOMAIN slot[d] => /\ slot[d][k].node \notin Dirs
                                 /\ e = Hole \/ slot[d][k] = Hole
                                 /\ slot[d][k] # Hole => slot[d][k].name = name,
         e.node \notin Dirs, e # Hole => e.node # None,
         e # Hole => /\ e.name = name
                     /\ \A l \in DOMAIN slot[d] : slot[d][l] # Hole => slot[d][l].name # name
  PROVE  FindInvariant'
<1> DEFINE d0 == Top.dir
           q == Top.next - 1
<1>1. /\ slot' = [slot EXCEPT ![d] = r] /\ disturbed' = disturbed \cup {<<d, name>>}
      /\ frames' = frames /\ where' = where /\ todo' = todo /\ open' = open /\ hits' = hits
  BY DEF Change
<1>2. /\ FTypeOK /\ SlotInv /\ FrameInv /\ WhereInv /\ HitInv
      /\ slot \in [Dirs -> Seq(Entry)]
  BY DEF FindInvariant, FTypeOK
<1>3. /\ slot' \in [Dirs -> Seq(Entry)] /\ slot'[d] = r /\ slot'[d][k] = e
      /\ DOMAIN slot'[d] = DOMAIN slot[d] \cup {k}
      /\ \A b \in Dirs : Len(slot'[b]) \in Nat /\ Len(slot[b]) \in Nat /\ Len(slot'[b]) >= Len(slot[b])
      /\ \A b \in Dirs : b # d => slot'[b] = slot[b]
      /\ \A l \in DOMAIN slot[d] : l # k => slot'[d][l] = slot[d][l]
  <2>1. slot'[d] = r /\ \A b \in Dirs : b # d => slot'[b] = slot[b]
    BY <1>1, <1>2
  <2>2. \A b \in Dirs : Len(slot[b]) \in Nat /\ DOMAIN slot[b] = 1 .. Len(slot[b])
    BY <1>2
  <2>3. Len(r) \in Nat /\ DOMAIN r = 1 .. Len(r)
    OBVIOUS
  <2>4. Len(r) >= Len(slot[d])
    BY <2>2, <2>3
  <2>5. slot' \in [Dirs -> Seq(Entry)]
    BY <1>1, <1>2
  <2>6. \A b \in Dirs : Len(slot'[b]) \in Nat /\ Len(slot'[b]) >= Len(slot[b])
    BY <2>1, <2>2, <2>3, <2>4
  <2> QED
    BY <2>1, <2>2, <2>5, <2>6
<1>4. ~ HasDir(d, k)
  <2>1. k \in DOMAIN Contents[d] => k \in DOMAIN slot[d]
    BY <1>2 DEF SlotInv
  <2> QED
    BY <1>2, <2>1, SlotDir DEF HasDir
<1>5. \A b \in Dirs : \A l \in DOMAIN slot[b] : ~ (b = d /\ l = k) => slot'[b][l] = slot[b][l]
  BY <1>3
<1>6. FTypeOK'
  BY <1>1, <1>2, <1>3 DEF FTypeOK
<1>7. SlotInv'
  <2>1. SUFFICES ASSUME NEW b \in Dirs
        PROVE  /\ DOMAIN Contents[b] \subseteq DOMAIN slot'[b]
               /\ \A l \in DOMAIN slot'[b] :
                    /\ slot'[b][l] # Hole => slot'[b][l].node # None
                    /\ slot'[b][l].node \in Dirs \/ HasDir(b, l) =>
                         l \in DOMAIN Contents[b] /\ slot'[b][l] = Contents[b][l]
               /\ \A o, l \in DOMAIN slot'[b] :
                    slot'[b][o].name = slot'[b][l].name /\ slot'[b][o] # Hole
                      /\ slot'[b][l] # Hole => o = l
    BY DEF SlotInv, HasDir
  <2>2. CASE b # d
    BY <1>2, <1>3, <2>2 DEF SlotInv
  <2>3. CASE b = d
    <3>1. DOMAIN Contents[b] \subseteq DOMAIN slot'[b]
      BY <1>2, <1>3 DEF SlotInv
    <3>2. ASSUME NEW l \in DOMAIN slot'[b]
          PROVE  /\ slot'[b][l] # Hole => slot'[b][l].node # None
                 /\ slot'[b][l].node \in Dirs \/ HasDir(b, l) =>
                      l \in DOMAIN Contents[b] /\ slot'[b][l] = Contents[b][l]
      <4>1. CASE l = k
        BY <1>3, <1>4, <2>3, <4>1
      <4>2. CASE l # k
        BY <1>2, <1>3, <2>3, <4>2 DEF SlotInv
      <4> QED
        BY <4>1, <4>2
    <3>3. ASSUME NEW o \in DOMAIN slot'[b], NEW l \in DOMAIN slot'[b],
                 slot'[b][o].name = slot'[b][l].name, slot'[b][o] # Hole, slot'[b][l] # Hole
          PROVE  o = l
      BY <1>2, <1>3, <2>3, <3>3 DEF SlotInv
    <3> QED
      BY <3>1, <3>2, <3>3
  <2> QED
    BY <2>2, <2>3
<1>8. FrameInv'
  <2>1. ASSUME NEW j \in 1 .. Len(frames)
        PROVE  frames[j].next <= Len(slot'[frames[j].dir]) + 1
    <3>1. frames[j].dir \in Dirs /\ frames[j].next \in Nat
      BY <1>2, FrameType
    <3>2. frames[j].next <= Len(slot[frames[j].dir]) + 1
      BY <1>2 DEF FrameInv
    <3> QED
      BY <1>3, <3>1, <3>2
  <2> QED
    BY <1>1, <1>2, <2>1 DEF FrameInv
<1>9. Top' = Top /\ Current' = slot'[d0][q] /\ Current = slot[d0][q]
  BY <1>1 DEF Top, Current
<1>10. ASSUME where = "stat"
       PROVE  StatInv'
  <2>1. /\ d0 \in Dirs /\ q \in DOMAIN slot[d0] /\ todo = <<d0, todo[2]>> /\ StatInv
        /\ slot[d0] \in Seq(Entry)
    BY <1>2, <1>10, StatWhat DEF WhereInv
  <2>2. CASE d0 = d /\ q = k
    <3>1. Current' = e /\ Current = slot[d][k] /\ k \in DOMAIN slot[d]
      BY <1>3, <1>9, <2>1, <2>2
    <3>2. CASE Current # Hole /\ Current.name = todo[2]
      <4>1. e = Hole /\ todo \in disturbed'
        BY <1>1, <2>1, <2>2, <3>1, <3>2
      <4>2. ASSUME NEW l \in DOMAIN Contents[d0], Contents[d0][l].node \in Dirs,
                   Contents[d0][l].name = todo[2]
            PROVE  FALSE
        <5>1. l \in DOMAIN slot[d0] /\ HasDir(d0, l)
          BY <1>2, <2>1, <4>2 DEF SlotInv, HasDir
        <5>2. slot[d0][l] = Contents[d0][l] /\ slot[d0][l] # Hole /\ slot[d0][l].node \in Dirs
          BY <1>2, <2>1, <4>2, <5>1, SlotDir
        <5>3. l = k
          BY <1>2, <2>1, <2>2, <3>1, <3>2, <4>2, <5>1, <5>2 DEF SlotInv
        <5> QED
          BY <2>2, <3>1, <5>2, <5>3
      <4> QED
        BY <1>1, <1>4, <1>9, <2>2, <3>1, <4>1, <4>2 DEF StatInv, HasDir
    <3>3. CASE ~ (Current # Hole /\ Current.name = todo[2])
      <4>1. /\ todo \in disturbed /\ ~ HasDir(d0, q)
            /\ \A l \in DOMAIN Contents[d0] :
                 Contents[d0][l].node \in Dirs => Contents[d0][l].name # todo[2]
        BY <2>1, <3>3 DEF StatInv
      <4>2. e # Hole => <<d0, e.name>> \in disturbed'
        BY <1>1, <2>2
      <4> QED
        BY <1>1, <1>9, <3>1, <4>1, <4>2 DEF StatInv, HasDir
    <3> QED
      BY <3>2, <3>3
  <2>3. CASE ~ (d0 = d /\ q = k)
    <3>1. Current' = Current
      BY <1>5, <1>9, <2>1, <2>3
    <3> QED
      BY <1>1, <1>9, <2>1, <3>1 DEF StatInv, HasDir
  <2> QED
    BY <2>2, <2>3
<1>11. ASSUME where = "open", frames # <<>>
       PROVE  Current' = Current
  <2>1. Child(Current.node, d0, q)
    BY <1>2, <1>11 DEF WhereInv
  <2>2. d0 \in Dirs /\ HasDir(d0, q)
    BY <2>1 DEF Child, HasDir
  <2>3. q \in DOMAIN slot[d0]
    BY <1>2, <2>2 DEF SlotInv, HasDir
  <2>4. ~ (d0 = d /\ q = k)
    BY <1>4, <2>2
  <2> QED
    BY <1>5, <1>9, <2>2, <2>3, <2>4
<1>12. WhereInv'
  BY <1>1, <1>2, <1>9, <1>10, <1>11 DEF WhereInv
<1>13. HitInv'
  <2>1. ASSUME NEW b, NEW l
        PROVE  Through(b, l)' <=> Through(b, l)
    BY <1>1 DEF Through, Cur
  <2>2. ASSUME NEW p \in Paths, p \notin disturbed'
        PROVE  (\E l \in DOMAIN slot'[p[1]] : (Counted(p[1], p[2], l)'))
               <=> \E l \in DOMAIN slot[p[1]] : Counted(p[1], p[2], l)
    <3>1. p = <<p[1], p[2]>> /\ p[1] \in Dirs
      BY Given
    <3>2. ASSUME p[1] = d
          PROVE  /\ ~ (Counted(p[1], p[2], k)')
                 /\ k \in DOMAIN slot[d] => ~ Counted(p[1], p[2], k)
      <4>1. p[2] # name
        BY <1>1, <2>2, <3>1, <3>2
      <4>2. k \in DOMAIN slot[d] => ~ (slot[d][k].name = p[2] /\ IsFile(slot[d][k].node))
        BY <4>1, Given DEF IsFile
      <4>3. ~ (e.name = p[2] /\ IsFile(e.node))
        BY <4>1, Given DEF IsFile
      <4> QED
        BY <1>3, <3>2, <4>2, <4>3 DEF Counted
    <3>3. ASSUME NEW l \in DOMAIN slot[p[1]], ~ (p[1] = d /\ l = k)
          PROVE  Counted(p[1], p[2], l)' <=> Counted(p[1], p[2], l)
      <4>1. slot'[p[1]][l] = slot[p[1]][l]
        BY <1>5, <3>1, <3>3
      <4> QED
        BY <2>1, <4>1 DEF Counted
    <3>4. CASE p[1] = d
      BY <1>3, <3>1, <3>2, <3>3, <3>4
    <3>5. CASE p[1] # d
      BY <1>3, <3>1, <3>3, <3>5
    <3> QED
      BY <3>4, <3>5
  <2>3. ASSUME NEW p \in Paths, p \notin disturbed', NoBlank(p[2])
        PROVE  hits[p] = IF \E l \in DOMAIN slot'[p[1]] : (Counted(p[1], p[2], l)') THEN 1 ELSE 0
    <3>1. hits[p] = IF \E l \in DOMAIN slot[p[1]] : Counted(p[1], p[2], l) THEN 1 ELSE 0
      BY <1>1, <1>2, <2>3 DEF HitInv
    <3> QED
      BY <2>2, <2>3, <3>1
  <2> QED
    BY <1>1, <2>3 DEF HitInv
<1> QED
  BY <1>6, <1>7, <1>8, <1>12, <1>13 DEF FindInvariant

\* Other processes create and remove what is no directory.
LEMMA OthersNext ==
  ASSUME FindAssumption, FindInvariant, Others
  PROVE  FindInvariant'
<1>1. PICK v \in Volatile : Create(v[1], v[2]) \/ Unlink(v[1], v[2])
  BY DEF Others
<1> DEFINE d == v[1]
           e == v[2]
<1>2. /\ d \in Dirs /\ e \in Entry /\ e.node \notin Dirs /\ e.node \in Nodes
      /\ None \notin Nodes /\ Dirs \subseteq Nodes /\ Hole.node = None /\ Hole \in Entry
  BY Given
<1>3. FTypeOK /\ SlotInv /\ slot[d] \in Seq(Entry)
  BY <1>2 DEF FindInvariant, FTypeOK
<1> HIDE DEF d, e
<1>4. CASE Create(d, e)
  <2>1. Lookup(d, e.name) = None
    BY <1>4 DEF Create
  <2>2. ASSUME NEW l \in DOMAIN slot[d], slot[d][l] # Hole, slot[d][l].name = e.name
        PROVE  FALSE
    <3>1. slot[d][l].node = None
      BY <1>2, <1>3, <2>1, <2>2, LookupOf
    <3> QED
      BY <1>2, <1>3, <2>2, <3>1 DEF SlotInv
  <2>3. CASE \E k \in DOMAIN slot[d] :
               slot[d][k] = Hole /\ Change(d, [slot[d] EXCEPT ![k] = e], e.name)
    <3>1. PICK k \in DOMAIN slot[d] :
                 slot[d][k] = Hole /\ Change(d, [slot[d] EXCEPT ![k] = e], e.name)
      BY <2>3
    <3> DEFINE r == [slot[d] EXCEPT ![k] = e]
    <3>2. /\ r \in Seq(Entry) /\ DOMAIN r = DOMAIN slot[d] \cup {k} /\ r[k] = e
          /\ \A l \in DOMAIN slot[d] : l # k => r[l] = slot[d][l]
          /\ k \in 1 .. Len(slot[d]) + 1
      BY <1>2, <1>3
    <3>3. Change(d, r, e.name)
      BY <3>1
    <3> HIDE DEF r
    <3> QED
      BY <1>2, <2>2, <3>1, <3>2, <3>3, ChangeNext
  <2>4. CASE Change(d, Append(slot[d], e), e.name)
    <3> DEFINE r == Append(slot[d], e)
               k == Len(slot[d]) + 1
    <3>1. /\ r \in Seq(Entry) /\ DOMAIN r = DOMAIN slot[d] \cup {k} /\ r[k] = e
          /\ \A l \in DOMAIN slot[d] : l # k => r[l] = slot[d][l]
      BY <1>2, <1>3
    <3>2. k \in 1 .. Len(slot[d]) + 1 /\ k \notin DOMAIN slot[d]
      BY <1>3
    <3>3. Change(d, r, e.name)
      BY <2>4
    <3> HIDE DEF r, k
    <3>4. k \in DOMAIN slot[d] => /\ slot[d][k].node \notin Dirs
                                  /\ e = Hole \/ slot[d][k] = Hole
                                  /\ slot[d][k] # Hole => slot[d][k].name = e.name
      BY <3>2
    <3>5. e # Hole => e.node # None
      BY <1>2
    <3>6. e # Hole => /\ e.name = e.name
                      /\ \A l \in DOMAIN slot[d] : slot[d][l] # Hole => slot[d][l].name # e.name
      BY <2>2
    <3>7. d \in Dirs /\ e \in Entry /\ e.node \notin Dirs
      BY <1>2
    <3> QED
      BY <3>1, <3>2, <3>3, <3>4, <3>5, <3>6, <3>7, ChangeNext, ZenonT(30)
  <2> QED
    BY <1>4, <2>3, <2>4 DEF Create
<1>5. CASE Unlink(d, e)
  <2>1. PICK k \in DOMAIN slot[d] :
               slot[d][k] = e /\ Change(d, [slot[d] EXCEPT ![k] = Hole], e.name)
    BY <1>5 DEF Unlink
  <2> DEFINE r == [slot[d] EXCEPT ![k] = Hole]
  <2>2. /\ r \in Seq(Entry) /\ DOMAIN r = DOMAIN slot[d] \cup {k} /\ r[k] = Hole
        /\ \A l \in DOMAIN slot[d] : l # k => r[l] = slot[d][l]
        /\ k \in 1 .. Len(slot[d]) + 1
    BY <1>2, <1>3
  <2>3. Change(d, r, e.name)
    BY <2>1
  <2> HIDE DEF r
  <2> QED
    BY <1>2, <2>1, <2>2, <2>3, ChangeNext, Zenon DEF Hole
<1> QED
  BY <1>1, <1>4, <1>5 DEF d, e

LEMMA FindGoesOn ==
  ASSUME FindAssumption
  PROVE  FindInvariant /\ [FindNext]_findVars => FindInvariant'
<1>1. SUFFICES ASSUME FindInvariant, [FindNext]_findVars PROVE FindInvariant'
  OBVIOUS
<1>2. CASE FindOpen
  BY <1>1, <1>2, OpenNext
<1>3. CASE FindRead
  BY <1>1, <1>3, ReadNext
<1>4. CASE FindStat
  BY <1>1, <1>4, StatNext
<1>5. CASE FindEnd
  BY <1>1, <1>5, EndNext
<1>6. CASE Others
  BY <1>1, <1>6, OthersNext
<1>7. CASE UNCHANGED findVars
  <2>1. /\ slot' = slot /\ frames' = frames /\ where' = where /\ todo' = todo
        /\ open' = open /\ hits' = hits /\ disturbed' = disturbed
    BY <1>7 DEF findVars
  <2>2. FTypeOK' /\ SlotInv' /\ FrameInv'
    BY <1>1, <2>1 DEF FindInvariant, FTypeOK, SlotInv, FrameInv
  <2>3. WhereInv'
    BY <1>1, <2>1 DEF FindInvariant, WhereInv, StatInv, Current, Top
  <2>4. HitInv'
    BY <1>1, <2>1 DEF FindInvariant, HitInv, Counted, Through, Cur
  <2> QED
    BY <2>2, <2>3, <2>4 DEF FindInvariant
<1> QED
  BY <1>1, <1>2, <1>3, <1>4, <1>5, <1>6, <1>7 DEF FindNext, FindStep

\* At the end find is through with everything.
LEMMA FindEnded ==
  ASSUME FindAssumption, FindInvariant
  PROVE  Found
<1>1. SUFFICES ASSUME where = "done", NEW p \in Paths \ disturbed, NoBlank(p[2])
               PROVE  hits[p] = IF /\ \E e \in Entries(p[1]) : e.name = p[2] /\ Kind[e.node] = "file"
                                   /\ p[2] = Ref /\ Searched(p[1])
                                THEN 1 ELSE 0
  BY DEF Found
<1>2. hits[p] = IF \E k \in DOMAIN slot[p[1]] : Counted(p[1], p[2], k) THEN 1 ELSE 0
  BY <1>1 DEF FindInvariant, HitInv
<1>3. /\ p[1] \in Dirs /\ slot[p[1]] \in Seq(Entry) /\ None \notin Nodes /\ Hole.node = None
  BY Given, FrameType DEF FindInvariant
<1>4. \A k \in DOMAIN slot[p[1]] : Counted(p[1], p[2], k) <=>
        /\ slot[p[1]][k].name = p[2] /\ IsFile(slot[p[1]][k].node)
        /\ p[2] = Ref /\ Searched(p[1])
  BY <1>1 DEF Counted, Through
<1>5. ASSUME NEW k \in DOMAIN slot[p[1]]
      PROVE  slot[p[1]][k] # Hole => slot[p[1]][k].node \in Nodes
  <2>1. slot[p[1]][k] \in Entry
    BY <1>3
  <2>2. slot[p[1]][k] # Hole => slot[p[1]][k].node # None
    BY <1>3 DEF FindInvariant, SlotInv
  <2> QED
    BY <2>1, <2>2 DEF Entry
<1>6. (\E e \in Entries(p[1]) : e.name = p[2] /\ Kind[e.node] = "file")
        <=> \E k \in DOMAIN slot[p[1]] : slot[p[1]][k].name = p[2] /\ IsFile(slot[p[1]][k].node)
  BY <1>3, <1>5 DEF Entries, IsFile
<1> QED
  BY <1>2, <1>4, <1>6

\* A step of the programs is one of find or of others, or none of it.
LEMMA FindSteps == [Next]_vars => [FindNext]_findVars
<1>1. SUFFICES ASSUME [Next]_vars
               PROVE  FindNext \/ UNCHANGED findVars
  OBVIOUS
<1>2. CASE FindRuns \/ OthersRun
  BY <1>2 DEF FindRuns, OthersRun, FindNext
<1>3. CASE ~ (FindRuns \/ OthersRun)
  BY <1>1, <1>3 DEF Next, vars, SieveStep, BallStep
<1> QED
  BY <1>2, <1>3

\* When find is over, every file of the name it looks for that nobody else has
\* touched has been printed once, if it is in a directory find gets to with a
\* descriptor left for stat(), and nothing else has been.
THEOREM FindsAll ==
  Spec => []Found
<1>1. Init => FindInvariant
  BY ProgramsAssumption, FindBegins DEF Init
<1>2. FindInvariant /\ [Next]_vars => FindInvariant'
  BY ProgramsAssumption, FindSteps, FindGoesOn
<1>3. FindInvariant => Found
  BY ProgramsAssumption, FindEnded
<1> QED
  BY <1>1, <1>2, <1>3, PTL DEF Spec

-----------------------------------------------------------------------------
\* The sieve

SieveProofs == INSTANCE PrimesProofs WITH Capacity <- PipeBytes \div 2

\* The sieve that is run is the one the proofs are about.
LEMMA SameSieve ==
  /\ Sieve!Procs = SieveProofs!Procs
  /\ Sieve!Init <=> SieveProofs!Init
  /\ \A p : Sieve!Step(p) <=> SieveProofs!Step(p)
  /\ Sieve!PrimesOnly <=> SieveProofs!PrimesOnly
  /\ Sieve!EachPrime <=> SieveProofs!EachPrime
  /\ Sieve!GarbageLast <=> SieveProofs!GarbageLast
  /\ Sieve!PrimesAssumption <=> SieveProofs!PrimesAssumption
  /\ sieveVars = SieveProofs!vars
<1>1. Sieve!Init <=> SieveProofs!Init
  BY DEF Sieve!Init, SieveProofs!Init, Sieve!PipesInit, SieveProofs!PipesInit,
         Sieve!START, SieveProofs!START, Sieve!Last, SieveProofs!Last,
         Sieve!Filters, SieveProofs!Filters, Sieve!Main, SieveProofs!Main,
         Sieve!Procs, SieveProofs!Procs, Sieve!Pipes, SieveProofs!Pipes,
         Sieve!Numbers, SieveProofs!Numbers, Sieve!Goto, SieveProofs!Goto
<1>2. ASSUME NEW p
      PROVE  Sieve!Step(p) <=> SieveProofs!Step(p)
  BY DEF Sieve!START, SieveProofs!START, Sieve!Last, SieveProofs!Last,
         Sieve!Filters, SieveProofs!Filters, Sieve!Main, SieveProofs!Main,
         Sieve!Procs, SieveProofs!Procs, Sieve!Pipes, SieveProofs!Pipes,
         Sieve!Numbers, SieveProofs!Numbers, Sieve!Goto, SieveProofs!Goto,
         Sieve!HasReader, SieveProofs!HasReader, Sieve!HasWriter,
         SieveProofs!HasWriter, Sieve!Read, SieveProofs!Read, Sieve!ReadEnd,
         SieveProofs!ReadEnd, Sieve!Write, SieveProofs!Write, Sieve!CloseRead,
         SieveProofs!CloseRead, Sieve!CloseWrite, SieveProofs!CloseWrite,
         Sieve!Inherit, SieveProofs!Inherit, Sieve!Feed, SieveProofs!Feed,
         Sieve!Fork, SieveProofs!Fork, Sieve!CloseFed, SieveProofs!CloseFed,
         Sieve!Unwind, SieveProofs!Unwind, Sieve!WaitAll, SieveProofs!WaitAll,
         Sieve!CloseUnused, SieveProofs!CloseUnused, Sieve!FirstRead,
         SieveProofs!FirstRead, Sieve!Passes, SieveProofs!Passes, Sieve!NextRead,
         SieveProofs!NextRead, Sieve!PassOn, SieveProofs!PassOn, Sieve!MainStep,
         SieveProofs!MainStep, Sieve!Filter, SieveProofs!Filter, Sieve!Step,
         SieveProofs!Step
<1>3. Sieve!PrimesOnly <=> SieveProofs!PrimesOnly
  BY DEF Sieve!PrimesOnly, SieveProofs!PrimesOnly, Sieve!IsPrime, SieveProofs!IsPrime,
         Sieve!Numbers, SieveProofs!Numbers, Sieve!START, SieveProofs!START
<1>4. \A n : Sieve!PrimesTo(n) = SieveProofs!PrimesTo(n)
  BY DEF Sieve!PrimesTo, SieveProofs!PrimesTo, Sieve!IsPrime, SieveProofs!IsPrime
<1>5. Sieve!EachPrime <=> SieveProofs!EachPrime
  <2>1. Sieve!Enough = SieveProofs!Enough
    <3>1. Sieve!START = SieveProofs!START
      BY DEF Sieve!START, SieveProofs!START
    <3>2. {n \in Sieve!PrimesTo(MAX \div 2 - 1) : n # Sieve!START}
            = {n \in SieveProofs!PrimesTo(MAX \div 2 - 1) : n # SieveProofs!START}
      BY <1>4, <3>1, Zenon
    <3>3. \A S : Sieve!Cardinality(S) = SieveProofs!Cardinality(S)
      BY Zenon DEF Sieve!Cardinality, SieveProofs!Cardinality
    <3> QED
      BY <3>2, <3>3, Zenon DEF Sieve!Enough, SieveProofs!Enough
  <2> QED
    BY <1>4, <2>1 DEF Sieve!EachPrime, SieveProofs!EachPrime, Sieve!Filters,
       SieveProofs!Filters, Sieve!Last, SieveProofs!Last, Sieve!Main, SieveProofs!Main
<1>6. Sieve!GarbageLast <=> SieveProofs!GarbageLast
  BY <1>4 DEF Sieve!GarbageLast, SieveProofs!GarbageLast
<1>7. /\ Sieve!Procs = SieveProofs!Procs
      /\ Sieve!PrimesAssumption <=> SieveProofs!PrimesAssumption
      /\ sieveVars = SieveProofs!vars
  BY DEF Sieve!PrimesAssumption, SieveProofs!PrimesAssumption, sieveVars, SieveProofs!vars,
         Sieve!START, SieveProofs!START, Sieve!Last, SieveProofs!Last,
         Sieve!Filters, SieveProofs!Filters, Sieve!Main, SieveProofs!Main,
         Sieve!Procs, SieveProofs!Procs, Sieve!Pipes, SieveProofs!Pipes,
         Sieve!Numbers, SieveProofs!Numbers, Sieve!Goto, SieveProofs!Goto
<1> QED
  BY <1>1, <1>2, <1>3, <1>5, <1>6, <1>7

\* A step of the programs is one of the sieve or none of it.
LEMMA SieveSteps == [Next]_vars => [SieveProofs!Next]_(SieveProofs!vars)
<1>1. SUFFICES ASSUME [Next]_vars
               PROVE  SieveProofs!Next \/ UNCHANGED sieveVars
  BY DEF sieveVars, SieveProofs!vars
<1>2. CASE \E p \in Sieve!Procs : SieveStep(p)
  BY <1>2, SameSieve DEF SieveStep, SieveProofs!Next
<1>3. CASE ~ \E p \in Sieve!Procs : SieveStep(p)
  BY <1>1, <1>3 DEF Next, vars, BallStep, FindRuns, OthersRun
<1> QED
  BY <1>2, <1>3

\* The sieve's invariant holds of it as one of the programs.
LEMMA SieveInvariant ==
  Spec => []SieveProofs!SieveInv
<1>0. SieveProofs!PrimesAssumption
  BY ProgramsAssumption, SameSieve
<1>1. Init => SieveProofs!SieveInv
  BY <1>0, SameSieve, SieveProofs!SieveInit DEF Init
<1>2. SieveProofs!SieveInv /\ [Next]_vars => SieveProofs!SieveInv'
  BY <1>0, SieveSteps, SieveProofs!SieveNext
<1> QED
  BY <1>1, <1>2, PTL DEF Spec

\* Of the numbers that come through the pipes only primes are printed, whatever
\* order the filters run in, whichever pipes and forks fail.  (A filter can print
\* its buffer when it has read nothing: UnreadLast.)
THEOREM OnlyPrimes ==
  Spec => []PrimesOnly
<1>1. SieveProofs!SieveInv => PrimesOnly
  BY SameSieve DEF SieveProofs!SieveInv, SieveProofs!PrintInv, PrimesOnly
<1> QED
  BY <1>1, SieveInvariant, PTL

\* A filter prints a buffer it has read nothing into only when every prime has been
\* printed, unless it or one before it has no pipe, or one before it no process.
THEOREM UnreadLast ==
  Spec => []GarbageLast
<1>1. SieveProofs!SieveInv => GarbageLast
  BY ProgramsAssumption, SameSieve, SieveProofs!EarlyEnd DEF GarbageLast
<1> QED
  BY <1>1, SieveInvariant, PTL

\* When the sieve is over, every prime has been printed, unless a fork() failed or
\* fewer pipes than Enough were made.
THEOREM AllPrimes ==
  Spec => []EachPrime
<1>1. SieveProofs!SieveInv => EachPrime
  BY ProgramsAssumption, SameSieve, SieveProofs!Ended DEF EachPrime
<1> QED
  BY <1>1, SieveInvariant, PTL
=============================================================================
