----------------------------- MODULE PrimesProofs -----------------------------
(***************************************************************************)
(* What the sieve prints, proved for every END and MAX, whatever pipe()    *)
(* and fork() fail and in whatever order the processes run.                *)
(*                                                                         *)
(* The argument: the numbers on their way, in the pipes and in the filters *)
(* that hold one, are in order, later ones behind smaller ones (OrderInv). *)
(* Each has been tried by every filter it has passed (ItemInv), and none   *)
(* gets lost but to a filter whose prime divides it, or behind the last    *)
(* filter that works (AllKept).  So when a filter takes its first number   *)
(* n, everything smaller than n has been sifted by the filters before it:  *)
(* n is a prime, and the filters' primes are all there are up to it        *)
(* (PrimeInv).  A filter that gets no number at all, and prints what is in *)
(* its buffer, has seen the end of its pipe; so have those before it, and  *)
(* no prime is left on its way (EarlyEnd).                                 *)
(***************************************************************************)
EXTENDS Primes, FiniteSetTheorems, WellFoundedInduction, TLAPS

-----------------------------------------------------------------------------
\* Numbers

\* "Less than" on the numbers is well founded: the library's theorem with its
\* operator written out.
LEMMA Less == IsWellFoundedOn({ss \in Nat \X Nat : ss[1] < ss[2]}, Nat)
  BY NatLessThanWellFounded DEF OpToRel

\* A set of numbers that has a member has a least one.
LEMMA Least ==
  ASSUME NEW S \in SUBSET Nat, S # {}
  PROVE  \E m \in S : \A k \in S : m <= k
<1> DEFINE R == {ss \in Nat \X Nat : ss[1] < ss[2]}
<1>1. IsWellFoundedOn(R, Nat)
  BY Less
<1> HIDE DEF R
<1>2. PICK m \in S : \A y \in S : ~ (<<y, m>> \in R)
  BY <1>1, WFMin
<1>3. ASSUME NEW k \in S
      PROVE  m <= k
  <2>1. m \in Nat /\ k \in Nat
    OBVIOUS
  <2>2. ~ (k < m)
    BY <1>2, <2>1 DEF R
  <2> QED
    BY <2>1, <2>2
<1> QED
  BY <1>3

\* Induction: a set with 0 in it and with each of its members the next one is all
\* of Nat.
LEMMA NatInd ==
  ASSUME NEW S \in SUBSET Nat, 0 \in S, \A n \in S : n + 1 \in S
  PROVE  S = Nat
<1>1. SUFFICES ASSUME Nat \ S # {} PROVE FALSE
  OBVIOUS
<1>2. PICK m \in Nat \ S : \A k \in Nat \ S : m <= k
  BY <1>1, Least
<1>3. m # 0 /\ m \in Nat /\ m \notin S
  BY <1>2
<1>4. m - 1 \in Nat /\ m - 1 < m
  BY <1>3
<1>5. m - 1 \in S
  BY <1>2, <1>4
<1>6. (m - 1) + 1 = m
  BY <1>3
<1> QED
  BY <1>3, <1>5, <1>6

\* n % d and n \div d are what is left and how often d goes into n.
LEMMA DivDef ==
  ASSUME NEW n \in Nat, NEW d \in Nat \ {0}
  PROVE  n % d \in 0 .. d - 1 /\ n \div d \in Nat /\ n = d * (n \div d) + (n % d)
  OBVIOUS

\* A number that d divides is a multiple of d,
LEMMA Quot ==
  ASSUME NEW n \in Nat, NEW d \in Nat \ {0}, n % d = 0
  PROVE  \E k \in Nat : n = d * k
<1>1. n \div d \in Nat /\ n = d * (n \div d) + (n % d)
  BY DivDef
<1>2. n = d * (n \div d)
  BY <1>1
<1> QED
  BY <1>1, <1>2

\* and d divides each of its multiples.
LEMMA Mult ==
  ASSUME NEW d \in Nat \ {0}, NEW k \in Nat
  PROVE  (d * k) % d = 0
<1> DEFINE r == (d * k) % d
           q == (d * k) \div d
<1>1. d * k \in Nat
  OBVIOUS
<1>2. r \in 0 .. d - 1 /\ q \in Nat /\ d * k = d * q + r
  BY <1>1, DivDef
<1> HIDE DEF r, q
<1>3. d * (k - q) = r
  BY <1>2
<1>4. CASE k - q = 0
  BY <1>2, <1>3, <1>4 DEF r
<1>5. CASE k - q >= 1
  <2>1. d * (k - q) >= d
    BY <1>2, <1>5
  <2> QED
    BY <1>2, <1>3, <2>1
<1>6. CASE k - q <= -1
  <2>1. d * (k - q) <= -d
    BY <1>2, <1>6
  <2> QED
    BY <1>2, <1>3, <2>1
<1> QED
  BY <1>2, <1>4, <1>5, <1>6

\* What divides a divisor of n divides n.
LEMMA DivTrans ==
  ASSUME NEW s \in Nat \ {0}, NEW d \in Nat \ {0}, NEW n \in Nat, d % s = 0, n % d = 0
  PROVE  n % s = 0
<1>1. PICK k \in Nat : n = d * k
  BY Quot
<1>2. PICK m \in Nat : d = s * m
  BY Quot
<1>3. n = s * (m * k) /\ m * k \in Nat
  BY <1>1, <1>2
<1> QED
  BY <1>3, Mult

\* The divisors of an odd number are odd.
LEMMA DivTwo ==
  ASSUME NEW d \in Nat \ {0}, NEW n \in Nat, n % 2 = 1, n % d = 0
  PROVE  d % 2 = 1
<1>1. 2 \in Nat \ {0} /\ n % 2 # 0
  OBVIOUS
<1>2. d % 2 # 0
  BY <1>1, DivTrans
<1>3. d % 2 \in 0 .. 1
  OBVIOUS
<1> QED
  BY <1>2, <1>3

\* No divisor of an odd number but itself is greater than its third.
LEMMA Third ==
  ASSUME NEW d \in Nat \ {0}, NEW n \in Nat, n % 2 = 1, n % d = 0, d < n
  PROVE  3 * d <= n
<1>1. PICK k \in Nat : n = d * k
  BY Quot
<1>2. k # 0 /\ k # 1
  BY <1>1
<1>3. k # 2
  BY <1>1
<1>4. k - 3 \in Nat /\ d * k = 3 * d + d * (k - 3)
  BY <1>2, <1>3
<1>5. d * (k - 3) >= 0
  BY <1>4
<1> QED
  BY <1>1, <1>4, <1>5

\* A number after x that neither 2 nor 3 divides, where x is odd and at least
\* 3 * g + 1.
LEMMA Sixths ==
  ASSUME NEW g \in Nat, g >= 1, NEW x \in Nat, x >= 3 * g + 1, x % 2 = 1,
         NEW y \in Nat, y > x, y % 2 = 1, y % 3 # 0
  PROVE  y >= 3 * (g + 1) + 1
<1>1. CASE g % 2 = 0
  <2>1. PICK h \in Nat : g = 2 * h
    BY <1>1, Quot
  <2>2. y >= 6 * h + 2
    BY <2>1
  <2>3. y # 6 * h + 3
    BY <2>1
  <2> QED
    BY <2>1, <2>2, <2>3
<1>2. CASE g % 2 = 1
  BY <1>2
<1> QED
  BY <1>1, <1>2

-----------------------------------------------------------------------------
\* The invariant

\* What a filter that runs is doing.
Active == {"start", "first", "read", "write"}

\* The first process has had its turn at forking filter k.
Passed(k) ==
  \/ pc[Main] \in {"unwind", "wait", "exited"}
  \/ pc[Main] = "close" /\ k <= c
  \/ pc[Main] = "fork" /\ k < c

\* Nobody reads pipe k and nobody will: it was not made, it has no filter, or the
\* filter could not be forked.
Dead(k) == k >= made \/ k > Last \/ (pc[k] = "none" /\ Passed(k))

PTypeOK ==
  /\ made \in Makeable
  /\ pipe \in [Pipes -> Seq(Numbers)]
  /\ rd \in [Procs -> SUBSET (0 .. made - 1)]
  /\ wr \in [Procs -> SUBSET (0 .. made - 1)]
  /\ pc \in [Procs -> {"feed", "fork", "close", "unwind", "wait", "exited", "none"}
                       \cup Active]
  /\ pc[Main] \in {"feed", "fork", "close", "unwind", "wait", "exited"}
  /\ \A f \in Filters : pc[f] \in Active \cup {"none", "exited"}
  /\ i \in START + 1 .. END + 1
  /\ c \in Filters
  /\ sl \in [Filters -> {0} \cup Numbers]
  /\ cur \in [Filters -> {0} \cup Numbers]
  /\ forked \subseteq Filters
  /\ printed \in [Numbers -> Nat]

\* Where the first process is, and what that says of the filters.
MainInv ==
  /\ pc[Main] = "feed" => c = 0
  /\ pc[Main] # "feed" => i = END + 1
  /\ \A f \in Filters : ~ Passed(f) => pc[f] = "none"
  /\ \A f \in Filters : pc[f] = "none" <=> f \notin forked
  /\ pc[Main] = "exited" => \A f \in forked : pc[f] = "exited"

\* Filter f has seen the end of its pipe.
Over(f) == pc[f] = "exited" \/ (pc[f] = "read" /\ sl[f] = 0)

\* Who has which ends open, and that nothing comes after the end of a pipe.
EndsInv ==
  /\ pc[Main] \in {"feed", "fork", "close"} =>
       /\ 0 .. made - 1 \subseteq rd[Main]
       /\ c + 1 .. made - 1 \subseteq wr[Main]
  /\ \A f \in Filters : pc[f] \in Active =>
       /\ f < made => f \in rd[f]
       /\ f + 1 < made => f + 1 \in wr[f]
  /\ \A f \in Filters : Over(f) => pipe[f] = <<>> /\ ~ HasWriter(f)
  /\ \A k \in Pipes : k >= made => pipe[k] = <<>>

InPipe(k, x) == \E j \in 1 .. Len(pipe[k]) : x = pipe[k][j]
Held(f) == pc[f] = "write"

LocalInv ==
  /\ \A f \in Filters : pc[f] \in {"none", "start", "first"} => sl[f] = 0
  /\ \A f \in Filters : Held(f) <=> cur[f] # 0
  /\ \A f \in Filters : Held(f) => sl[f] > 0
  /\ \A f \in Filters : sl[f] > 0 => f < made

\* The number x has passed the filters before k: none of their primes divides it,
\* and it was printed by those that print what they pass on.
Past(x, k) ==
  \A g \in Filters : g < k =>
    /\ sl[g] > 0 /\ sl[g] < x /\ x % sl[g] # 0
    /\ sl[g] >= MAX \div 2 => printed[x] > 0

PipeItem(k, x) ==
  /\ x % 2 = 1 /\ x < i
  /\ Past(x, k)
  /\ \A g \in Filters : sl[g] < x

HeldItem(f) ==
  /\ cur[f] % 2 = 1 /\ cur[f] < i
  /\ Past(cur[f], f)
  /\ cur[f] % sl[f] # 0
  /\ \A g \in Filters : sl[g] < cur[f]

\* Each number on its way is odd, has been fed, has passed the filters before the
\* place where it is, and is greater than every prime that was found.
ItemInv ==
  /\ \A k \in Pipes, x \in Numbers : InPipe(k, x) => PipeItem(k, x)
  /\ \A f \in Filters : Held(f) => HeldItem(f)

\* The numbers on their way are in order: what is further on is smaller.
OrderInv ==
  /\ \A k \in Pipes : \A a, b \in 1 .. Len(pipe[k]) : a < b => pipe[k][a] < pipe[k][b]
  /\ \A k, l \in Pipes : \A x, y \in Numbers :
       k < l /\ InPipe(k, x) /\ InPipe(l, y) => y < x
  /\ \A f \in Filters, k \in Pipes : \A x \in Numbers :
       Held(f) /\ InPipe(k, x) => IF k <= f THEN cur[f] < x ELSE x < cur[f]
  /\ \A f, g \in Filters : f < g /\ Held(f) /\ Held(g) => cur[g] < cur[f]

\* The filters' primes: printed, in order, none divided by another, and all odd
\* numbers before one of them are sifted by those before it.
PrimeInv ==
  \A f \in Filters : sl[f] > 0 =>
    /\ sl[f] < i
    /\ sl[f] % 2 = 1 /\ printed[sl[f]] > 0
    /\ \A g \in Filters : g < f => sl[g] > 0 /\ sl[g] < sl[f] /\ sl[f] % sl[g] # 0
    /\ \A d \in 3 .. sl[f] - 1 : d % 2 = 1 =>
         \E g \in Filters : g < f /\ sl[g] > 0 /\ d % sl[g] = 0

Sifted(x) == \E g \in Filters : sl[g] > 0 /\ x % sl[g] = 0

\* The number x is on its way, has been sifted, or got lost where nobody reads.
Kept(x) ==
  \/ \E k \in Pipes : InPipe(k, x)
  \/ \E f \in Filters : Held(f) /\ cur[f] = x
  \/ Sifted(x)
  \/ \E k \in 0 .. Last + 1 : Dead(k) /\ Past(x, k)

AllKept == \A x \in START + 1 .. i - 1 : x % 2 = 1 => Kept(x)

PrintInv == printed[START] > 0 /\ PrimesOnly

\* Who has printed an unread buffer has no prime, and will have none.
UnreadInv == \A f \in garbage : f \in Filters /\ Over(f) /\ sl[f] = 0

SieveInv ==
  /\ PTypeOK /\ MainInv /\ EndsInv /\ LocalInv /\ UnreadInv
  /\ ItemInv /\ OrderInv /\ PrimeInv /\ AllKept /\ PrintInv

-----------------------------------------------------------------------------
\* The processes

\* The sets of numbers are intervals, Last is the floor of END / 3.
LEMMA Constants ==
  ASSUME PrimesAssumption
  PROVE  /\ Last \in Nat /\ Last + 1 <= END /\ 3 * (Last + 1) > END
         /\ Filters = 0 .. Last /\ Pipes = 0 .. END /\ Numbers = 2 .. END
         /\ Procs = Filters \cup {Main} /\ Main \notin Filters
         /\ START = 2 /\ END \in Nat
  BY DEF PrimesAssumption, Last, Filters, Pipes, Procs, Main, Numbers, START

\* What is written is a number.
LEMMA WriteType ==
  ASSUME pipe \in [Pipes -> Seq(Numbers)], NEW k \in Pipes, NEW n \in Numbers,
         Write(k, n)
  PROVE  pipe' \in [Pipes -> Seq(Numbers)]
<1>1. Append(pipe[k], n) \in Seq(Numbers)
  OBVIOUS
<1> QED
  BY <1>1 DEF Write

\* What is read is a number, and the rest is left.
LEMMA ReadType ==
  ASSUME pipe \in [Pipes -> Seq(Numbers)], NEW k \in Pipes, NEW n, Read(k, n)
  PROVE  n \in Numbers /\ pipe' \in [Pipes -> Seq(Numbers)]
<1>1. pipe[k] \in Seq(Numbers) /\ pipe[k] # <<>> /\ n = Head(pipe[k])
  BY DEF Read
<1>2. Tail(pipe[k]) \in Seq(Numbers) /\ Head(pipe[k]) \in Numbers
  BY <1>1
<1> QED
  BY <1>1, <1>2 DEF Read

\* Every step keeps the types.
LEMMA TypeNext ==
  ASSUME PrimesAssumption, PTypeOK, LocalInv, NEW p \in Procs, Step(p)
  PROVE  PTypeOK'
<1> USE DEF Goto, CloseRead, CloseWrite, Inherit
<1>0. made' = made
  BY DEF Step
<1>c. /\ Last \in Nat /\ Last + 1 <= END /\ START = 2 /\ END \in Nat
      /\ Filters = 0 .. Last /\ Pipes = 0 .. END /\ Numbers = 2 .. END
      /\ Procs = Filters \cup {Main} /\ Main \notin Filters
  BY Constants
<1> USE <1>c
<1>1. CASE Feed
  <2>1. CASE i <= END /\ i % START # 0
    <3>1. i \in Numbers /\ i' \in START + 1 .. END + 1
      BY <1>1, <2>1 DEF Feed, PTypeOK
    <3>2. pipe' \in [Pipes -> Seq(Numbers)]
      BY <1>1, <2>1, <3>1, WriteType DEF Feed, PTypeOK
    <3> QED
      BY <1>0, <1>1, <2>1, <3>1, <3>2 DEF Feed, PTypeOK
  <2>2. CASE i <= END /\ i % START = 0
    <3>1. i' \in START + 1 .. END + 1
      BY <1>1, <2>2 DEF Feed, PTypeOK
    <3> QED
      BY <1>0, <1>1, <2>2, <3>1 DEF Feed, PTypeOK
  <2>3. CASE ~ (i <= END)
    <3>1. wr' \in [Procs -> SUBSET (0 .. made' - 1)]
      BY <1>0, <1>1, <2>3 DEF Feed, PTypeOK
    <3> QED
      BY <1>0, <1>1, <2>3, <3>1 DEF Feed, PTypeOK
  <2> QED
    BY <2>1, <2>2, <2>3
<1>2. CASE Fork
  <2>1. /\ rd' \in [Procs -> SUBSET (0 .. made' - 1)]
        /\ wr' \in [Procs -> SUBSET (0 .. made' - 1)]
    <3>1. CASE Inherit(Main, c)
      BY <1>0, <3>1 DEF PTypeOK
    <3>2. CASE UNCHANGED <<rd, wr>>
      BY <1>0, <3>2 DEF PTypeOK
    <3> QED
      BY <1>2, <3>1, <3>2 DEF Fork
  <2>2. /\ pc' \in [Procs -> {"feed", "fork", "close", "unwind", "wait", "exited", "none"}
                              \cup Active]
        /\ pc'[Main] \in {"feed", "fork", "close", "unwind", "wait", "exited"}
        /\ \A f \in Filters : pc'[f] \in Active \cup {"none", "exited"}
        /\ forked' \subseteq Filters
    BY <1>2 DEF Fork, PTypeOK, Active
  <2> QED
    BY <1>0, <1>2, <2>1, <2>2 DEF Fork, PTypeOK
<1>3. CASE CloseFed
  <2>1. c' \in Filters
    BY <1>3 DEF CloseFed, PTypeOK
  <2> QED
    BY <1>0, <1>3, <2>1 DEF CloseFed, PTypeOK
<1>4. CASE Unwind
  <2>1. c' \in Filters
    BY <1>4 DEF Unwind, PTypeOK
  <2> QED
    BY <1>0, <1>4, <2>1 DEF Unwind, PTypeOK
<1>5. CASE WaitAll
  BY <1>0, <1>5 DEF WaitAll, PTypeOK
<1>6. ASSUME NEW f \in Filters, CloseUnused(f) PROVE PTypeOK'
  BY <1>0, <1>6 DEF CloseUnused, PTypeOK, Active
<1>7. ASSUME NEW f \in Filters, FirstRead(f) PROVE PTypeOK'
  <2>1. ASSUME NEW n \in Numbers, Read(f, n), sl' = [sl EXCEPT ![f] = n],
               printed' = [printed EXCEPT ![n] = @ + 1]
        PROVE  PTypeOK'
    <3>1. sl' \in [Filters -> {0} \cup Numbers] /\ printed' \in [Numbers -> Nat]
      BY <2>1 DEF PTypeOK
    <3>2. f \in Pipes
      OBVIOUS
    <3>3. pipe' \in [Pipes -> Seq(Numbers)]
      BY <2>1, <3>2, ReadType DEF PTypeOK
    <3> QED
      BY <1>0, <1>7, <3>1, <3>3 DEF FirstRead, PTypeOK, Active
  <2>2. CASE UNCHANGED <<pipe, sl, printed>>
    BY <1>0, <1>7, <2>2 DEF FirstRead, PTypeOK, Active
  <2> QED
    BY <1>7, <2>1, <2>2 DEF FirstRead
<1>8. ASSUME NEW f \in Filters, NextRead(f) PROVE PTypeOK'
  <2>1. ASSUME NEW n \in Numbers, Read(f, n),
               IF Passes(f, n)
               THEN cur' = [cur EXCEPT ![f] = n] /\ Goto(f, "write")
               ELSE UNCHANGED <<cur, pc>>,
               UNCHANGED <<rd, wr>>
        PROVE  PTypeOK'
    <3>1. f \in Pipes
      OBVIOUS
    <3>2. pipe' \in [Pipes -> Seq(Numbers)]
      BY <2>1, <3>1, ReadType DEF PTypeOK
    <3>3. cur' \in [Filters -> {0} \cup Numbers]
      BY <2>1 DEF PTypeOK
    <3> QED
      BY <1>0, <1>8, <2>1, <3>2, <3>3 DEF NextRead, PTypeOK, Active
  <2>2. CASE ReadEnd(f) /\ CloseRead(f, Pipes) /\ CloseWrite(f, Pipes)
             /\ Goto(f, "exited") /\ UNCHANGED <<pipe, cur>>
    BY <1>0, <1>8, <2>2 DEF NextRead, PTypeOK, Active
  <2> QED
    BY <1>8, <2>1, <2>2 DEF NextRead
<1>9. ASSUME NEW f \in Filters, PassOn(f) PROVE PTypeOK'
  <2>1. cur[f] \in Numbers /\ f + 1 \in Pipes
    BY <1>9 DEF PassOn, LocalInv, Held, PTypeOK
  <2>2. pipe' \in [Pipes -> Seq(Numbers)]
    BY <1>9, <2>1, WriteType DEF PassOn, PTypeOK
  <2>3. cur' \in [Filters -> {0} \cup Numbers]
    BY <1>9 DEF PassOn, PTypeOK
  <2>4. printed' \in [Numbers -> Nat]
    <3>1. printed[cur[f]] \in Nat
      BY <2>1 DEF PTypeOK
    <3> DEFINE k == IF sl[f] >= MAX \div 2 THEN printed[cur[f]] + 1 ELSE printed[cur[f]]
    <3>2. k \in Nat /\ printed' = [printed EXCEPT ![cur[f]] = k]
      BY <1>9, <3>1 DEF PassOn
    <3> HIDE DEF k
    <3> QED
      BY <3>2 DEF PTypeOK
  <2> QED
    BY <1>0, <1>9, <2>2, <2>3, <2>4 DEF PassOn, PTypeOK, Active
<1> QED
  BY <1>1, <1>2, <1>3, <1>4, <1>5, <1>6, <1>7, <1>8, <1>9 DEF Step, MainStep, Filter

\* The filters are forked in their turn, and main() waits for all of them.
LEMMA MainNext ==
  ASSUME PrimesAssumption, PTypeOK, MainInv, NEW p \in Procs, Step(p)
  PROVE  MainInv'
<1> USE DEF Goto, MainInv, Passed
<1>c. /\ Last \in Nat /\ START = 2 /\ END \in Nat
      /\ Filters = 0 .. Last /\ Main \notin Filters
      /\ Procs = Filters \cup {Main}
  BY Constants
<1> USE <1>c
<1>1. CASE Feed
  <2>1. \A f \in Filters : pc'[f] = pc[f] /\ pc[f] = "none"
    BY <1>1 DEF Feed, PTypeOK
  <2>2. CASE i <= END
    BY <1>1, <2>1, <2>2 DEF Feed, PTypeOK
  <2>3. CASE ~ (i <= END)
    <3>1. i' = END + 1 /\ c' = 0 /\ forked' = forked /\ pc'[Main] = "fork"
      BY <1>1, <2>3 DEF Feed, PTypeOK
    <3> QED
      BY <1>1, <2>1, <3>1
  <2> QED
    BY <2>2, <2>3
<1>2. CASE Fork
  <2>1. c \in Filters /\ c' = c /\ i' = i /\ pc[Main] = "fork" /\ pc'[Main] = "close"
    BY <1>2 DEF Fork, PTypeOK
  <2>2. \A f \in Filters \ {c} : pc'[f] = pc[f] /\ (f \in forked' <=> f \in forked)
    BY <1>2 DEF Fork, PTypeOK
  <2>3. \/ pc'[c] = "start" /\ c \in forked'
        \/ pc'[c] = pc[c] /\ (c \in forked' <=> c \in forked)
    BY <1>2, <2>1 DEF Fork, PTypeOK
  <2> QED
    BY <2>1, <2>2, <2>3
<1>3. CASE CloseFed
  <2>1. /\ c \in Filters /\ i' = i /\ forked' = forked /\ pc[Main] = "close"
        /\ \A f \in Filters : pc'[f] = pc[f]
        /\ \/ pc'[Main] = "fork" /\ c' = c + 1
           \/ pc'[Main] = "unwind"
    BY <1>3 DEF CloseFed, PTypeOK
  <2> QED
    BY <2>1
<1>4. CASE Unwind
  BY <1>4 DEF Unwind, PTypeOK
<1>5. CASE WaitAll
  BY <1>5 DEF WaitAll, PTypeOK
<1>6. ASSUME NEW f \in Filters, CloseUnused(f) PROVE MainInv'
  BY <1>6 DEF CloseUnused, PTypeOK
<1>7. ASSUME NEW f \in Filters, FirstRead(f) PROVE MainInv'
  BY <1>7 DEF FirstRead, PTypeOK
<1>8. ASSUME NEW f \in Filters, NextRead(f) PROVE MainInv'
  BY <1>8 DEF NextRead, PTypeOK
<1>9. ASSUME NEW f \in Filters, PassOn(f) PROVE MainInv'
  BY <1>9 DEF PassOn, PTypeOK
<1> QED
  BY <1>1, <1>2, <1>3, <1>4, <1>5, <1>6, <1>7, <1>8, <1>9 DEF Step, MainStep, Filter

\* A pipe nobody will read remains one.
LEMMA DeadStays ==
  ASSUME PrimesAssumption, PTypeOK, MainInv, NEW p \in Procs, Step(p),
         NEW k \in 0 .. Last + 1, Dead(k)
  PROVE  Dead(k)'
<1> USE DEF Goto, Dead, Passed, MainInv
<1>c. /\ Last \in Nat
      /\ Filters = 0 .. Last /\ Main \notin Filters
      /\ Procs = Filters \cup {Main}
  BY Constants
<1> USE <1>c
<1>0. made' = made
  BY DEF Step
<1>1. CASE Feed
  BY <1>0, <1>1 DEF Feed, PTypeOK
<1>2. CASE Fork
  <2>1. c \in Filters /\ c' = c /\ pc[Main] = "fork" /\ pc'[Main] = "close"
    BY <1>2 DEF Fork, PTypeOK
  <2>2. \A f \in Filters \ {c} : pc'[f] = pc[f]
    BY <1>2 DEF Fork, PTypeOK
  <2>3. k # c \/ k >= made
    BY <2>1
  <2> QED
    BY <1>0, <2>1, <2>2, <2>3
<1>3. CASE CloseFed
  <2>1. /\ c \in Filters /\ pc[Main] = "close"
        /\ \A f \in Filters : pc'[f] = pc[f]
        /\ \/ pc'[Main] = "fork" /\ c' = c + 1
           \/ pc'[Main] = "unwind"
    BY <1>3 DEF CloseFed, PTypeOK
  <2> QED
    BY <1>0, <2>1
<1>4. CASE Unwind
  BY <1>0, <1>4 DEF Unwind, PTypeOK
<1>5. CASE WaitAll
  BY <1>0, <1>5 DEF WaitAll, PTypeOK
<1>6. ASSUME NEW f \in Filters, CloseUnused(f) PROVE Dead(k)'
  BY <1>0, <1>6 DEF CloseUnused, PTypeOK
<1>7. ASSUME NEW f \in Filters, FirstRead(f) PROVE Dead(k)'
  BY <1>0, <1>7 DEF FirstRead, PTypeOK
<1>8. ASSUME NEW f \in Filters, NextRead(f) PROVE Dead(k)'
  <2>1. pc'[Main] = pc[Main] /\ c' = c /\ pc[f] = "read"
    BY <1>8 DEF NextRead, PTypeOK
  <2>2. \A g \in Filters \ {f} : pc'[g] = pc[g]
    BY <1>8 DEF NextRead, PTypeOK
  <2> QED
    BY <1>0, <2>1, <2>2
<1>9. ASSUME NEW f \in Filters, PassOn(f) PROVE Dead(k)'
  BY <1>0, <1>9 DEF PassOn, PTypeOK
<1> QED
  BY <1>1, <1>2, <1>3, <1>4, <1>5, <1>6, <1>7, <1>8, <1>9 DEF Step, MainStep, Filter

\* Nobody gets the write end of a pipe whose last one was closed.
LEMMA WritersFall ==
  ASSUME PrimesAssumption, PTypeOK, NEW p \in Procs, Step(p), NEW k
  PROVE  HasWriter(k)' => HasWriter(k)
<1> USE DEF Inherit, CloseWrite, HasWriter
<1>c. Filters \subseteq Procs /\ Main \in Procs
  BY Constants
<1>1. SUFFICES ASSUME NEW q \in Procs, k \in wr'[q]
               PROVE  HasWriter(k)
  OBVIOUS
<1> USE <1>1, <1>c
<1>2. CASE MainStep
  <2>1. CASE Fork
    BY <2>1 DEF Fork, PTypeOK
  <2>2. CASE Feed \/ CloseFed \/ Unwind \/ WaitAll
    BY <2>2 DEF Feed, CloseFed, Unwind, WaitAll, PTypeOK
  <2> QED
    BY <1>2, <2>1, <2>2 DEF MainStep
<1>3. ASSUME NEW f \in Filters, Filter(f) PROVE HasWriter(k)
  BY <1>3 DEF Filter, CloseUnused, FirstRead, NextRead, PassOn, PTypeOK
<1> QED
  BY <1>2, <1>3 DEF Step

\* Nobody who could read is left only where nobody will.
LEMMA LostIsDead ==
  ASSUME PrimesAssumption, PTypeOK, MainInv, EndsInv, NEW k \in Pipes, ~ HasReader(k),
         \/ k = 0 /\ pc[Main] = "feed"
         \/ \E f \in Filters : k = f + 1 /\ pc[f] \in Active
  PROVE  Dead(k)
<1>c. /\ Last \in Nat /\ Filters = 0 .. Last /\ Pipes = 0 .. END
      /\ Procs = Filters \cup {Main} /\ made \in Int
  BY Constants DEF PrimesAssumption, PTypeOK
<1>1. SUFFICES ASSUME k < made, k \in Filters, pc[k] # "none" \/ ~ Passed(k)
               PROVE  FALSE
  BY <1>c DEF Dead
<1>2. CASE pc[k] = "none"
  <2>1. pc[Main] \in {"feed", "fork", "close"}
    BY <1>1, <1>2 DEF Passed, PTypeOK
  <2>2. k \in rd[Main]
    BY <1>c, <1>1, <2>1 DEF EndsInv
  <2> QED
    BY <1>c, <2>2 DEF HasReader
<1>3. CASE pc[k] \in Active
  BY <1>c, <1>1, <1>3 DEF EndsInv, HasReader
<1>4. CASE pc[k] = "exited"
  <2>1. ~ HasWriter(k)
    BY <1>1, <1>4 DEF EndsInv, Over
  <2>2. PICK f \in Filters : k = f + 1 /\ pc[f] \in Active
    BY <1>c, <1>1, <1>4 DEF MainInv, Passed
  <2>3. k \in wr[f]
    BY <1>1, <2>2 DEF EndsInv
  <2> QED
    BY <1>c, <2>1, <2>3 DEF HasWriter
<1> QED
  BY <1>1, <1>2, <1>3, <1>4 DEF PTypeOK, Active

\* What a filter has in its variables fits where it is.
LEMMA LocalNext ==
  ASSUME PrimesAssumption, PTypeOK, MainInv, EndsInv, LocalInv, NEW p \in Procs, Step(p)
  PROVE  LocalInv'
<1> USE DEF Goto, LocalInv, Held
<1>c. /\ Main \notin Filters /\ START = 2 /\ Numbers = 2 .. END
      /\ Procs = Filters \cup {Main} /\ made' = made
  BY Constants DEF Step
<1> USE <1>c
<1>1. CASE Feed
  BY <1>1 DEF Feed, PTypeOK
<1>2. CASE Fork
  <2>1. pc[c] = "none" /\ c \in Filters
    <3>1. pc[Main] = "fork" /\ c \in Filters /\ c \in Int
      BY <1>2, Constants DEF Fork, PTypeOK
    <3> QED
      BY <3>1 DEF MainInv, Passed
  <2>2. /\ \A f \in Filters \ {c} : pc'[f] = pc[f]
        /\ pc'[c] \in {pc[c], "start"}
        /\ sl' = sl /\ cur' = cur
    BY <1>2, <2>1 DEF Fork, PTypeOK
  <2> QED
    BY <2>1, <2>2
<1>3. CASE CloseFed \/ Unwind \/ WaitAll
  <2>1. \A f \in Filters : pc'[f] = pc[f]
    BY <1>3 DEF CloseFed, Unwind, WaitAll, PTypeOK
  <2> QED
    BY <1>3, <2>1 DEF CloseFed, Unwind, WaitAll
<1>4. ASSUME NEW f \in Filters, CloseUnused(f) PROVE LocalInv'
  BY <1>4 DEF CloseUnused, PTypeOK
<1>5. ASSUME NEW f \in Filters, FirstRead(f) PROVE LocalInv'
  <2>1. /\ \A g \in Filters \ {f} : pc'[g] = pc[g] /\ sl'[g] = sl[g]
        /\ pc[f] = "first" /\ pc'[f] = "read" /\ cur' = cur
    BY <1>5 DEF FirstRead, PTypeOK
  <2>2. ASSUME sl'[f] > 0 PROVE f < made
    <3>1. f \in Pipes /\ f \in Int /\ made \in Int
      BY Constants DEF PrimesAssumption, PTypeOK
    <3>2. pipe[f] # <<>>
      <4>1. sl[f] = 0
        BY <2>1
      <4>2. sl' # sl
        BY <2>2, <4>1
      <4> QED
        BY <1>5, <4>2 DEF FirstRead, Read
    <3> QED
      BY <3>1, <3>2 DEF EndsInv
  <2> QED
    BY <2>1, <2>2
<1>6. ASSUME NEW f \in Filters, NextRead(f) PROVE LocalInv'
  <2>1. /\ \A g \in Filters \ {f} : pc'[g] = pc[g] /\ cur'[g] = cur[g]
        /\ pc[f] = "read" /\ sl' = sl
        /\ \/ pc'[f] = "write" /\ cur'[f] # 0
                 /\ sl[f] > 0
           \/ pc'[f] \in {"read", "exited"} /\ cur'[f] = cur[f]
    BY <1>6 DEF NextRead, Passes, PTypeOK
  <2> QED
    BY <2>1
<1>7. ASSUME NEW f \in Filters, PassOn(f) PROVE LocalInv'
  BY <1>7 DEF PassOn, PTypeOK
<1> QED
  BY <1>1, <1>2, <1>3, <1>4, <1>5, <1>6, <1>7 DEF Step, MainStep, Filter

\* Only a pipe that somebody reads is written to, and only by those who have it.
LEMMA PipeGrows ==
  ASSUME PrimesAssumption, PTypeOK, MainInv, LocalInv, NEW p \in Procs, Step(p),
         NEW k \in Pipes, pipe[k] = <<>>, pipe'[k] # <<>>
  PROVE  /\ HasReader(k)
         /\ \/ k = 0 /\ pc[Main] = "feed"
            \/ \E f \in Filters : k = f + 1 /\ pc[f] = "write"
<1>c. /\ Last \in Nat /\ Last + 1 <= END /\ START = 2 /\ END \in Nat
      /\ Filters = 0 .. Last /\ Pipes = 0 .. END
  BY Constants
<1> USE <1>c
<1>1. ASSUME NEW l \in Pipes, NEW n, Write(l, n)
      PROVE  k = l /\ HasReader(k)
  BY <1>1 DEF Write, PTypeOK
<1>2. ASSUME NEW l \in Pipes, NEW n, Read(l, n)
      PROVE  FALSE
  BY <1>2 DEF Read, PTypeOK
<1>3. CASE MainStep
  BY <1>1, <1>3 DEF MainStep, Feed, Fork, CloseFed, Unwind, WaitAll
<1>4. ASSUME NEW f \in Filters, Filter(f)
      PROVE  HasReader(k) /\ k = f + 1 /\ pc[f] = "write"
  <2>1. f \in Pipes /\ f + 1 \in Pipes
    OBVIOUS
  <2>2. PassOn(f)
    BY <1>2, <1>4, <2>1 DEF Filter, CloseUnused, FirstRead, NextRead
  <2> QED
    BY <1>1, <2>1, <2>2 DEF PassOn
<1> QED
  BY <1>3, <1>4 DEF Step

\* A pipe that was not made is open nowhere.
LEMMA ReadersOfMade ==
  ASSUME PrimesAssumption, PTypeOK, NEW k \in Pipes, HasReader(k)
  PROVE  k < made
<1>1. PICK q \in Procs : k \in rd[q]
  BY DEF HasReader
<1>2. rd[q] \subseteq 0 .. made - 1
  BY DEF PTypeOK
<1>3. made \in Int /\ k \in Int
  BY Constants DEF PrimesAssumption, PTypeOK
<1> QED
  BY <1>1, <1>2, <1>3

\* No end is closed that is still needed, and none stays open so that the end of
\* a pipe would not be seen.
LEMMA EndsNext ==
  ASSUME PrimesAssumption, PTypeOK, PTypeOK', MainInv, LocalInv, EndsInv,
         NEW p \in Procs, Step(p)
  PROVE  EndsInv'
<1>c. /\ Last \in Nat /\ Last + 1 <= END /\ START = 2 /\ END \in Nat
      /\ Filters = 0 .. Last /\ Pipes = 0 .. END
      /\ Procs = Filters \cup {Main} /\ Main \notin Filters
      /\ made \in 0 .. END + 1 /\ made' = made
  BY Constants DEF PrimesAssumption, PTypeOK, Step
<1> USE <1>c
<1>1. ASSUME pc'[Main] \in {"feed", "fork", "close"}
      PROVE  0 .. made' - 1 \subseteq rd'[Main] /\ c' + 1 .. made' - 1 \subseteq wr'[Main]
  <2> USE <1>1 DEF EndsInv, Goto, CloseRead, CloseWrite, Inherit
  <2>1. CASE Feed
    <3>1. pc[Main] = "feed" /\ c' = c /\ c = 0 /\ rd' = rd
          /\ wr'[Main] \in {wr[Main], wr[Main] \ {0}}
      BY <2>1 DEF Feed, PTypeOK, MainInv
    <3> QED
      BY <3>1
  <2>2. CASE Fork
    <3>1. /\ pc[Main] = "fork" /\ c' = c
          /\ rd'[Main] = rd[Main] /\ wr'[Main] = wr[Main]
      BY <2>2 DEF Fork, PTypeOK
    <3> QED
      BY <3>1
  <2>3. CASE CloseFed
    <3>1. /\ pc[Main] = "close" /\ rd' = rd /\ wr'[Main] = wr[Main] \ {c}
          /\ c \in Filters /\ (c' = c + 1 \/ c' = c)
      BY <2>3 DEF CloseFed, PTypeOK
    <3> QED
      BY <3>1
  <2>4. CASE Unwind \/ WaitAll
    BY <2>4 DEF Unwind, WaitAll, PTypeOK
  <2>5. ASSUME NEW f \in Filters, Filter(f)
        PROVE  /\ pc'[Main] = pc[Main] /\ c' = c
               /\ rd'[Main] = rd[Main] /\ wr'[Main] = wr[Main]
    BY <2>5 DEF Filter, CloseUnused, FirstRead, NextRead, PassOn, PTypeOK
  <2> QED
    BY <2>1, <2>2, <2>3, <2>4, <2>5 DEF Step, MainStep
<1>2. ASSUME NEW f \in Filters, pc'[f] \in Active
      PROVE  /\ f < made' => f \in rd'[f]
             /\ f + 1 < made' => f + 1 \in wr'[f]
  <2> USE <1>2 DEF EndsInv, Goto, CloseRead, CloseWrite, Inherit
  <2>1. CASE Fork
    <3>1. CASE pc'[f] = pc[f] /\ rd'[f] = rd[f] /\ wr'[f] = wr[f]
      BY <3>1
    <3>2. CASE f = c /\ rd'[f] = rd[Main] /\ wr'[f] = wr[Main]
      <4>1. 0 .. made - 1 \subseteq rd[Main] /\ c + 1 .. made - 1 \subseteq wr[Main]
        BY <2>1 DEF Fork
      <4> QED
        BY <3>2, <4>1
    <3> QED
      BY <2>1, <3>1, <3>2 DEF Fork, PTypeOK
  <2>2. CASE Feed \/ CloseFed \/ Unwind \/ WaitAll
    <3>1. pc'[f] = pc[f] /\ rd'[f] = rd[f] /\ wr'[f] = wr[f]
      BY <2>2 DEF Feed, CloseFed, Unwind, WaitAll, PTypeOK
    <3> QED
      BY <3>1
  <2>3. ASSUME NEW g \in Filters, Filter(g), g # f
        PROVE  pc'[f] = pc[f] /\ rd'[f] = rd[f] /\ wr'[f] = wr[f]
    BY <2>3 DEF Filter, CloseUnused, FirstRead, NextRead, PassOn, PTypeOK
  <2>4. CASE CloseUnused(f)
    <3>1. pc[f] \in Active
      BY <2>4 DEF CloseUnused, Active
    <3>2. rd'[f] = rd[f] \ (Pipes \ {f}) /\ wr'[f] = wr[f] \ (Pipes \ {f + 1})
      BY <2>4 DEF CloseUnused, PTypeOK
    <3> QED
      BY <3>1, <3>2
  <2>5. CASE FirstRead(f) \/ PassOn(f)
    BY <2>5 DEF FirstRead, PassOn, PTypeOK, Active
  <2>6. CASE NextRead(f)
    <3>1. pc[f] \in Active
      BY <2>6 DEF NextRead, Active
    <3>2. rd' = rd /\ wr' = wr
      BY <2>6 DEF NextRead, PTypeOK, Active
    <3> QED
      BY <3>1, <3>2
  <2> QED
    BY <2>1, <2>2, <2>3, <2>4, <2>5, <2>6 DEF Step, MainStep, Filter
<1>3. ASSUME NEW f \in Filters, Over(f)'
      PROVE  pipe'[f] = <<>> /\ ~ HasWriter(f)'
  <2>1. CASE Over(f)
    <3>1. pipe[f] = <<>> /\ ~ HasWriter(f)
      BY <2>1 DEF EndsInv
    <3>2. pc[f] # "none"
      BY <2>1 DEF Over
    <3>3. ASSUME pipe'[f] # <<>> PROVE FALSE
      <4>1. f \in Pipes
        OBVIOUS
      <4>2. /\ HasReader(f)
            /\ \/ f = 0 /\ pc[Main] = "feed"
               \/ \E g \in Filters : f = g + 1 /\ pc[g] = "write"
        BY <3>1, <3>3, <4>1, PipeGrows
      <4>3. pc[Main] # "feed"
        BY <3>2 DEF MainInv, Passed
      <4>4. PICK g \in Filters : f = g + 1 /\ pc[g] \in Active
        BY <4>2, <4>3 DEF Active
      <4>5. f < made
        BY <4>2, ReadersOfMade
      <4>6. f \in wr[g]
        BY <4>4, <4>5 DEF EndsInv
      <4> QED
        BY <3>1, <4>6 DEF HasWriter
    <3> QED
      BY <3>1, <3>3, WritersFall
  <2>2. CASE ~ Over(f)
    <3>1. (FirstRead(f) \/ NextRead(f)) /\ ReadEnd(f) /\ pipe' = pipe
      <4>1. CASE MainStep
        <5>1. pc'[f] = pc[f] \/ pc'[f] = "start"
          BY <4>1 DEF MainStep, Feed, Fork, CloseFed, Unwind, WaitAll, Goto, PTypeOK
        <5>2. sl' = sl
          BY <4>1 DEF MainStep, Feed, Fork, CloseFed, Unwind, WaitAll
        <5> QED
          BY <1>3, <2>2, <5>1, <5>2 DEF Over
      <4>2. ASSUME NEW g \in Filters, Filter(g), g # f
            PROVE  FALSE
        <5>1. pc'[f] = pc[f] /\ sl'[f] = sl[f]
          BY <4>2 DEF Filter, CloseUnused, FirstRead, NextRead, PassOn, PTypeOK, Goto
        <5> QED
          BY <1>3, <2>2, <5>1 DEF Over
      <4>3. CASE CloseUnused(f)
        BY <1>3, <4>3 DEF CloseUnused, Over, Goto, PTypeOK
      <4>4. CASE PassOn(f)
        BY <1>3, <4>4 DEF PassOn, Over, Goto, PTypeOK, LocalInv, Held
      <4>5. CASE FirstRead(f)
        <5>1. ASSUME NEW n \in Numbers, sl' = [sl EXCEPT ![f] = n] PROVE FALSE
          <6>1. sl'[f] = n /\ n # 0 /\ pc'[f] = "read"
            BY <4>5, <5>1, Constants DEF FirstRead, PTypeOK, Goto
          <6> QED
            BY <1>3, <6>1 DEF Over
        <5> QED
          BY <4>5, <5>1 DEF FirstRead
      <4>6. CASE NextRead(f)
        <5>1. ASSUME NEW n \in Numbers,
                     IF Passes(f, n)
                     THEN cur' = [cur EXCEPT ![f] = n] /\ Goto(f, "write")
                     ELSE UNCHANGED <<cur, pc>>
              PROVE  FALSE
          <6>1. pc[f] = "read" /\ sl' = sl /\ pc'[f] \in {"read", "write"}
            BY <4>6, <5>1 DEF NextRead, PTypeOK, Goto
          <6> QED
            BY <1>3, <2>2, <6>1 DEF Over
        <5> QED
          BY <4>6, <5>1 DEF NextRead
      <4> QED
        BY <4>1, <4>2, <4>3, <4>4, <4>5, <4>6 DEF Step, Filter
    <3> QED
      BY <3>1, WritersFall DEF ReadEnd
  <2> QED
    BY <2>1, <2>2
<1>4. ASSUME NEW k \in Pipes, k >= made' PROVE pipe'[k] = <<>>
  <2>1. pipe[k] = <<>> /\ ~ HasReader(k)
    BY <1>4, ReadersOfMade DEF EndsInv
  <2> QED
    BY <2>1, PipeGrows
<1> QED
  BY <1>1, <1>2, <1>3, <1>4 DEF EndsInv

-----------------------------------------------------------------------------
\* What a step does to the numbers

\* No filter takes a number or gets rid of one.
SameHeld == \A f \in Filters : Held(f)' <=> Held(f)

\* The number n is written to pipe k, or nobody reads that.
Send(k, n) ==
  \/ Dead(k) /\ pipe' = pipe
  \/ pipe' = [pipe EXCEPT ![k] = Append(@, n)]

\* None moves; an even one is left out.
Quiet ==
  /\ i' = i \/ (i' = i + 1 /\ i % 2 # 1)
  /\ SameHeld /\ UNCHANGED <<pipe, cur, sl, printed>>

\* The next odd number is fed into pipe 0.
Fed ==
  /\ i \in Numbers /\ i % 2 = 1 /\ i' = i + 1
  /\ Send(0, i)
  /\ SameHeld /\ UNCHANGED <<cur, sl, printed>>

\* Filter f gets its prime.
Begun(f, n) ==
  /\ Read(f, n) /\ sl[f] = 0 /\ ~ Dead(f)
  /\ sl' = [sl EXCEPT ![f] = n]
  /\ printed' = [printed EXCEPT ![n] = @ + 1]
  /\ SameHeld /\ UNCHANGED <<i, cur>>

\* Filter f reads a multiple of its prime,
Dropped(f, n) ==
  /\ Read(f, n) /\ sl[f] > 0 /\ n % sl[f] = 0
  /\ SameHeld /\ UNCHANGED <<i, cur, sl, printed>>

\* or a number it will pass on.
Taken(f, n) ==
  /\ Read(f, n) /\ sl[f] > 0 /\ n % sl[f] # 0
  /\ \A g \in Filters : Held(g)' <=> g = f \/ Held(g)
  /\ ~ Held(f)
  /\ cur' = [cur EXCEPT ![f] = n]
  /\ UNCHANGED <<i, sl, printed>>

\* Filter f passes on what it has.
Handed(f) ==
  /\ Held(f) /\ sl[f] > 0
  /\ Send(f + 1, cur[f])
  /\ \A g \in Filters : Held(g)' <=> g # f /\ Held(g)
  /\ cur' = [cur EXCEPT ![f] = 0]
  /\ printed' = [printed EXCEPT ![cur[f]] = IF sl[f] >= MAX \div 2 THEN @ + 1 ELSE @]
  /\ UNCHANGED <<i, sl>>

Moved ==
  \/ Quiet \/ Fed
  \/ \E f \in Filters :
       Handed(f) \/ \E n \in Numbers : Begun(f, n) \/ Dropped(f, n) \/ Taken(f, n)

\* What is written goes into the pipe, or nobody will read that.
LEMMA WriteSends ==
  ASSUME PrimesAssumption, PTypeOK, MainInv, EndsInv, NEW k \in Pipes, NEW n,
         Write(k, n),
         \/ k = 0 /\ pc[Main] = "feed"
         \/ \E f \in Filters : k = f + 1 /\ pc[f] \in Active
  PROVE  Send(k, n)
<1>1. CASE HasReader(k)
  BY <1>1 DEF Write, Send
<1>2. CASE ~ HasReader(k)
  BY <1>2, LostIsDead DEF Write, Send
<1> QED
  BY <1>1, <1>2

\* Every step does one of these things to the numbers.
LEMMA Moves ==
  ASSUME PrimesAssumption, PTypeOK, MainInv, LocalInv, EndsInv, NEW p \in Procs, Step(p)
  PROVE  Moved
<1>c. /\ Last \in Nat /\ Last + 1 <= END /\ START = 2 /\ END \in Nat
      /\ Filters = 0 .. Last /\ Pipes = 0 .. END /\ Numbers = 2 .. END
      /\ Procs = Filters \cup {Main} /\ Main \notin Filters
  BY Constants
<1> USE <1>c DEF Goto
<1>1. CASE Feed
  <2>1. \A f \in Filters : pc'[f] = pc[f]
    BY <1>1 DEF Feed, PTypeOK
  <2>2. SameHeld
    BY <2>1 DEF SameHeld, Held
  <2>3. CASE i <= END /\ i % START # 0
    <3>1. i \in Numbers /\ i % 2 = 1 /\ i' = i + 1 /\ 0 \in Pipes
      BY <1>1, <2>3 DEF Feed, PTypeOK
    <3>2. Send(0, i)
      BY <1>1, <2>3, <3>1, WriteSends DEF Feed
    <3> QED
      BY <1>1, <2>2, <3>1, <3>2 DEF Fed, Feed, Moved
  <2>4. CASE i <= END /\ i % START = 0
    BY <1>1, <2>2, <2>4 DEF Feed, Quiet, PTypeOK, Moved
  <2>5. CASE ~ (i <= END)
    BY <1>1, <2>2, <2>5 DEF Feed, Quiet, Moved
  <2> QED
    BY <2>3, <2>4, <2>5
<1>2. CASE Fork
  <2>1. pc[c] = "none" /\ c \in Filters
    <3>1. pc[Main] = "fork" /\ c \in Filters /\ c \in Int
      BY <1>2 DEF Fork, PTypeOK
    <3> QED
      BY <3>1 DEF MainInv, Passed
  <2>2. /\ \A f \in Filters \ {c} : pc'[f] = pc[f]
        /\ pc'[c] \in {pc[c], "start"}
    BY <1>2, <2>1 DEF Fork, PTypeOK
  <2>3. SameHeld
    BY <2>1, <2>2 DEF SameHeld, Held
  <2> QED
    BY <1>2, <2>3 DEF Quiet, Fork, Moved
<1>3. CASE CloseFed \/ Unwind \/ WaitAll
  <2>1. \A f \in Filters : pc'[f] = pc[f]
    BY <1>3 DEF CloseFed, Unwind, WaitAll, PTypeOK
  <2>2. SameHeld
    BY <2>1 DEF SameHeld, Held
  <2> QED
    BY <1>3, <2>2 DEF CloseFed, Unwind, WaitAll, Quiet, Moved
<1>4. ASSUME NEW f \in Filters, CloseUnused(f) PROVE Quiet
  <2>1. SameHeld
    BY <1>4 DEF CloseUnused, PTypeOK, SameHeld, Held
  <2> QED
    BY <1>4, <2>1 DEF CloseUnused, Quiet
<1>5. ASSUME NEW f \in Filters, FirstRead(f)
      PROVE  Quiet \/ \E n \in Numbers : Begun(f, n)
  <2>1. SameHeld /\ sl[f] = 0
    BY <1>5 DEF FirstRead, PTypeOK, SameHeld, Held, LocalInv
  <2>2. pc[f] = "first" /\ f \in Pipes
    BY <1>5 DEF FirstRead
  <2>3. ASSUME NEW n, Read(f, n) PROVE ~ Dead(f)
    <3>1. f < made \/ ~ (f >= made)
      BY <2>2, <2>3 DEF EndsInv, Read
    <3> QED
      BY <2>2, <2>3 DEF EndsInv, Read, Dead
  <2> QED
    BY <1>5, <2>1, <2>3 DEF FirstRead, Quiet, Begun
<1>6. ASSUME NEW f \in Filters, NextRead(f)
      PROVE  Quiet \/ \E n \in Numbers : Dropped(f, n) \/ Taken(f, n)
  <2>1. pc[f] = "read" /\ ~ Held(f)
    BY <1>6 DEF NextRead, Held
  <2>2. ASSUME NEW n \in Numbers, Read(f, n),
               IF Passes(f, n)
               THEN cur' = [cur EXCEPT ![f] = n] /\ Goto(f, "write")
               ELSE UNCHANGED <<cur, pc>>
        PROVE  Dropped(f, n) \/ Taken(f, n)
    <3>1. sl[f] > 0
      <4>1. pipe[f] # <<>>
        BY <2>2 DEF Read
      <4>2. sl[f] # 0
        BY <2>1, <4>1 DEF EndsInv, Over
      <4>3. sl[f] \in {0} \cup Numbers
        BY DEF PTypeOK
      <4> QED
        BY <4>2, <4>3
    <3>2. CASE n % sl[f] # 0
      <4>1. \A g \in Filters : Held(g)' <=> g = f \/ Held(g)
        BY <2>2, <3>1, <3>2 DEF Passes, Held, PTypeOK
      <4> QED
        BY <1>6, <2>1, <2>2, <3>1, <3>2, <4>1 DEF Passes, Taken, NextRead
    <3>3. CASE n % sl[f] = 0
      <4>1. UNCHANGED <<cur, pc>>
        BY <2>2, <3>3 DEF Passes
      <4>2. SameHeld
        BY <4>1 DEF SameHeld, Held
      <4> QED
        BY <1>6, <2>2, <3>1, <3>3, <4>1, <4>2 DEF Dropped, NextRead
    <3> QED
      BY <3>2, <3>3
  <2>3. CASE Goto(f, "exited") /\ UNCHANGED <<pipe, cur>>
    <3>1. SameHeld
      BY <2>1, <2>3 DEF SameHeld, Held, PTypeOK
    <3> QED
      BY <1>6, <2>3, <3>1 DEF NextRead, Quiet
  <2> QED
    BY <1>6, <2>2, <2>3 DEF NextRead
<1>7. ASSUME NEW f \in Filters, PassOn(f) PROVE Handed(f)
  <2>1. Held(f) /\ sl[f] > 0 /\ f + 1 \in Pipes /\ pc[f] \in Active
    BY <1>7 DEF PassOn, Held, LocalInv, Active
  <2>2. Send(f + 1, cur[f])
    BY <1>7, <2>1, WriteSends DEF PassOn
  <2>3. \A g \in Filters : Held(g)' <=> g # f /\ Held(g)
    BY <1>7 DEF PassOn, Held, PTypeOK
  <2> QED
    BY <1>7, <2>1, <2>2, <2>3 DEF PassOn, Handed
<1> QED
  BY <1>1, <1>2, <1>3, <1>4, <1>5, <1>6, <1>7 DEF Step, MainStep, Filter, Moved

-----------------------------------------------------------------------------
\* What is in the pipes after that

\* What is in a pipe is a number.
LEMMA InPipeNumbers ==
  ASSUME PTypeOK, NEW k \in Pipes, NEW x, InPipe(k, x)
  PROVE  x \in Numbers
  BY DEF PTypeOK, InPipe

\* A read takes the smallest number out of the pipe.
LEMMA AfterRead ==
  ASSUME PTypeOK, PTypeOK', OrderInv, NEW f \in Pipes, NEW n, Read(f, n)
  PROVE  /\ InPipe(f, n)
         /\ \A k \in Pipes, x \in Numbers :
              InPipe(k, x) <=> InPipe(k, x)' \/ (k = f /\ x = n)
         /\ \A x \in Numbers : InPipe(f, x)' => n < x
         /\ \A k \in Pipes : \A a, b \in 1 .. Len(pipe'[k]) :
              a < b => pipe'[k][a] < pipe'[k][b]
<1> DEFINE s == pipe[f]
<1>1. s \in Seq(Numbers) /\ s # <<>> /\ n = s[1] /\ Len(s) \in Nat \ {0}
  BY DEF Read, PTypeOK
<1>2. pipe'[f] = Tail(s) /\ \A k \in Pipes \ {f} : pipe'[k] = pipe[k]
  BY DEF Read, PTypeOK
<1>3. /\ Len(Tail(s)) = Len(s) - 1
      /\ \A j \in 1 .. Len(s) - 1 : Tail(s)[j] = s[j + 1]
  BY <1>1
<1>4. \A a, b \in 1 .. Len(s) : a < b => s[a] < s[b]
  BY DEF OrderInv
<1>5. Len(pipe'[f]) = Len(s) - 1 /\ \A j \in 1 .. Len(s) - 1 : pipe'[f][j] = s[j + 1]
  BY <1>2, <1>3
<1> HIDE DEF s
<1>6. ASSUME NEW x \in Numbers
      PROVE  /\ InPipe(f, x) <=> InPipe(f, x)' \/ x = n
             /\ InPipe(f, x)' => n < x
  <2>0. InPipe(f, x) <=> \E j \in 1 .. Len(s) : x = s[j]
    BY DEF InPipe, s
  <2>a. InPipe(f, x)' <=> \E j \in 1 .. Len(s) - 1 : x = s[j + 1]
    BY <1>5 DEF InPipe
  <2>1. ASSUME NEW j \in 1 .. Len(s), x = s[j], j # 1
        PROVE  InPipe(f, x)'
    <3>1. j - 1 \in 1 .. Len(s) - 1 /\ x = s[(j - 1) + 1]
      BY <1>1, <2>1
    <3> QED
      BY <3>1, <2>a
  <2>2. ASSUME NEW j \in 1 .. Len(s) - 1, x = s[j + 1]
        PROVE  InPipe(f, x) /\ n < x
    <3>1. j + 1 \in 1 .. Len(s) /\ 1 \in 1 .. Len(s) /\ 1 < j + 1
      BY <1>1, <2>2
    <3> QED
      BY <1>1, <1>4, <2>2, <2>0, <3>1
  <2>3. 1 \in 1 .. Len(s)
    BY <1>1
  <2> QED
    BY <1>1, <2>0, <2>a, <2>1, <2>2, <2>3
<1>7. \A k \in Pipes \ {f}, x \in Numbers : InPipe(k, x) <=> InPipe(k, x)'
  BY <1>2 DEF InPipe
<1>8. n \in Numbers /\ InPipe(f, n)
  BY <1>1 DEF InPipe, s
<1>9. ASSUME NEW a \in 1 .. Len(s) - 1, NEW b \in 1 .. Len(s) - 1, a < b
      PROVE  pipe'[f][a] < pipe'[f][b]
  <2>1. a + 1 \in 1 .. Len(s) /\ b + 1 \in 1 .. Len(s) /\ a + 1 < b + 1
    BY <1>1, <1>9
  <2> QED
    BY <1>4, <1>5, <2>1
<1>10. \A k \in Pipes \ {f} : \A a, b \in 1 .. Len(pipe'[k]) :
         a < b => pipe'[k][a] < pipe'[k][b]
  BY <1>2 DEF OrderInv
<1>11. \A k \in Pipes : \A a, b \in 1 .. Len(pipe'[k]) :
         a < b => pipe'[k][a] < pipe'[k][b]
  BY <1>5, <1>9, <1>10
<1> QED
  BY <1>6, <1>7, <1>8, <1>11

\* A write puts the greatest number in.
LEMMA AfterAppend ==
  ASSUME PTypeOK, OrderInv, NEW k \in Pipes, NEW n \in Numbers,
         pipe' = [pipe EXCEPT ![k] = Append(@, n)],
         \A x \in Numbers : InPipe(k, x) => x < n
  PROVE  /\ \A l \in Pipes, x \in Numbers :
              InPipe(l, x)' <=> InPipe(l, x) \/ (l = k /\ x = n)
         /\ \A l \in Pipes : \A a, b \in 1 .. Len(pipe'[l]) :
              a < b => pipe'[l][a] < pipe'[l][b]
<1> DEFINE s == pipe[k]
<1>1. s \in Seq(Numbers) /\ Len(s) \in Nat
  BY DEF PTypeOK
<1>2. pipe'[k] = Append(s, n) /\ \A l \in Pipes \ {k} : pipe'[l] = pipe[l]
  BY DEF PTypeOK
<1>3. /\ Len(pipe'[k]) = Len(s) + 1
      /\ \A j \in 1 .. Len(s) : pipe'[k][j] = s[j]
      /\ pipe'[k][Len(s) + 1] = n
  BY <1>1, <1>2
<1>4. \A a, b \in 1 .. Len(s) : a < b => s[a] < s[b]
  BY DEF OrderInv
<1>5. \A j \in 1 .. Len(s) : s[j] < n
  BY <1>1 DEF InPipe
<1>6. \A x \in Numbers : InPipe(k, x) <=> \E j \in 1 .. Len(s) : x = s[j]
  BY DEF InPipe
<1> HIDE DEF s
<1>7. ASSUME NEW x \in Numbers
      PROVE  InPipe(k, x)' <=> InPipe(k, x) \/ x = n
  <2>1. InPipe(k, x)' <=> \E j \in 1 .. Len(s) + 1 : x = pipe'[k][j]
    BY <1>3 DEF InPipe
  <2>2. \A j \in 1 .. Len(s) + 1 : j \in 1 .. Len(s) \/ j = Len(s) + 1
    BY <1>1
  <2>3. /\ Len(s) + 1 \in 1 .. Len(s) + 1
        /\ \A j \in 1 .. Len(s) : j \in 1 .. Len(s) + 1
    BY <1>1
  <2> QED
    BY <1>3, <1>6, <2>1, <2>2, <2>3
<1>8. \A l \in Pipes \ {k}, x \in Numbers : InPipe(l, x)' <=> InPipe(l, x)
  BY <1>2 DEF InPipe
<1>9. ASSUME NEW a \in 1 .. Len(s) + 1, NEW b \in 1 .. Len(s) + 1, a < b
      PROVE  pipe'[k][a] < pipe'[k][b]
  <2>1. a \in 1 .. Len(s) /\ (b \in 1 .. Len(s) \/ b = Len(s) + 1)
    BY <1>1, <1>9
  <2> QED
    BY <1>3, <1>4, <1>5, <1>9, <2>1
<1>10. \A l \in Pipes \ {k} : \A a, b \in 1 .. Len(pipe'[l]) :
         a < b => pipe'[l][a] < pipe'[l][b]
  BY <1>2 DEF OrderInv
<1>11. \A l \in Pipes : \A a, b \in 1 .. Len(pipe'[l]) :
         a < b => pipe'[l][a] < pipe'[l][b]
  BY <1>3, <1>9, <1>10
<1> QED
  BY <1>7, <1>8, <1>11

-----------------------------------------------------------------------------
\* The numbers' invariants

\* What never goes back.
Grows ==
  /\ i' >= i
  /\ \A g \in Filters : sl[g] > 0 => sl'[g] = sl[g]
  /\ \A x \in Numbers : printed[x] > 0 => printed'[x] > 0

DataInv == ItemInv /\ OrderInv /\ PrimeInv /\ AllKept /\ PrintInv

\* The constants, in one piece.
Numeric ==
  /\ Last \in Nat /\ Last + 1 <= END /\ START = 2 /\ END \in Nat
  /\ Filters = 0 .. Last /\ Pipes = 0 .. END /\ Numbers = 2 .. END
  /\ Filters \subseteq Pipes

\* The code's bounds make them so.
LEMMA NumericHolds == PrimesAssumption => Numeric
  BY Constants DEF Numeric

\* The same of a write that may get lost.
LEMMA AfterSend ==
  ASSUME PTypeOK, OrderInv, NEW k \in Pipes, NEW n \in Numbers, Send(k, n),
         \A x \in Numbers : InPipe(k, x) => x < n
  PROVE  \E sent \in BOOLEAN :
           /\ sent \/ Dead(k)
           /\ \A l \in Pipes, x \in Numbers :
                InPipe(l, x)' <=> InPipe(l, x) \/ (sent /\ l = k /\ x = n)
           /\ \A l \in Pipes : \A a, b \in 1 .. Len(pipe'[l]) :
                a < b => pipe'[l][a] < pipe'[l][b]
<1>1. CASE Dead(k) /\ pipe' = pipe
  BY <1>1 DEF OrderInv, InPipe
<1>2. CASE pipe' = [pipe EXCEPT ![k] = Append(@, n)]
  <2>1. /\ \A l \in Pipes, x \in Numbers :
              InPipe(l, x)' <=> InPipe(l, x) \/ (l = k /\ x = n)
        /\ \A l \in Pipes : \A a, b \in 1 .. Len(pipe'[l]) :
              a < b => pipe'[l][a] < pipe'[l][b]
    BY <1>2, AfterAppend
  <2> WITNESS TRUE \in BOOLEAN
  <2> QED
    BY <2>1
<1> QED
  BY <1>1, <1>2 DEF Send

\* A filter that passes a number on prints no other one.
LEMMA HandedGrows ==
  ASSUME PrimesAssumption, PTypeOK, LocalInv, NEW f \in Filters, Handed(f)
  PROVE  /\ Grows
         /\ cur[f] \in Numbers /\ f + 1 \in Pipes
         /\ sl[f] >= MAX \div 2 => printed'[cur[f]] > 0
         /\ \A x \in Numbers : printed'[x] > 0 /\ ~ (printed[x] > 0) =>
              x = cur[f] /\ sl[f] >= MAX \div 2
<1>1. cur[f] \in Numbers /\ f + 1 \in Pipes
  <2>1. Held(f) /\ cur[f] # 0
    BY DEF Handed, LocalInv
  <2>2. cur[f] \in {0} \cup Numbers
    BY DEF PTypeOK
  <2>3. f + 1 \in Pipes
    BY NumericHolds DEF Numeric
  <2> QED
    BY <2>1, <2>2, <2>3
<1> DEFINE n == cur[f]
           q == IF sl[f] >= MAX \div 2 THEN printed[n] + 1 ELSE printed[n]
<1>2. printed' = [printed EXCEPT ![n] = q] /\ printed[n] \in Nat
  BY <1>1 DEF Handed, PTypeOK
<1>3. (sl[f] >= MAX \div 2 => q = printed[n] + 1) /\ (~ (sl[f] >= MAX \div 2) => q = printed[n])
  OBVIOUS
<1> HIDE DEF q, n
<1>4. \A x \in Numbers : printed'[x] = IF x = n THEN q ELSE printed[x]
  BY <1>2 DEF PTypeOK
<1>5. n \in Numbers
  BY <1>1 DEF n
<1>6. Grows
  BY <1>2, <1>3, <1>4 DEF Grows, Handed, PTypeOK
<1>7. /\ sl[f] >= MAX \div 2 => printed'[n] > 0
      /\ \A x \in Numbers : printed'[x] > 0 /\ ~ (printed[x] > 0) =>
              x = n /\ sl[f] >= MAX \div 2
  BY <1>2, <1>3, <1>4, <1>5
<1> QED
  BY <1>1, <1>6, <1>7 DEF n

\* A filter that finds its prime prints it and nothing else.
LEMMA BegunGrows ==
  ASSUME PrimesAssumption, PTypeOK, NEW f \in Filters, NEW n \in Numbers, Begun(f, n)
  PROVE  /\ Grows
         /\ sl'[f] = n /\ printed'[n] > 0
         /\ \A g \in Filters \ {f} : sl'[g] = sl[g]
         /\ \A x \in Numbers : printed'[x] > 0 /\ ~ (printed[x] > 0) => x = n
<1>1. /\ printed[n] \in Nat
      /\ \A x \in Numbers : printed'[x] = IF x = n THEN printed[n] + 1 ELSE printed[x]
  BY DEF Begun, PTypeOK
<1>2. sl'[f] = n /\ \A g \in Filters \ {f} : sl'[g] = sl[g]
  BY DEF Begun, PTypeOK
<1> QED
  BY <1>1, <1>2 DEF Grows, Begun, PTypeOK

\* What has passed the filters has passed them for good.
LEMMA PastStays ==
  ASSUME PTypeOK, Grows, NEW x \in Numbers, NEW k, Past(x, k)
  PROVE  Past(x, k)'
  BY DEF Past, Grows

\* Every step keeps ItemInv: a number goes on from a filter only when its prime
\* does not divide it.
LEMMA ItemNext ==
  ASSUME PrimesAssumption, PTypeOK, PTypeOK', LocalInv, DataInv, Moved
  PROVE  ItemInv' /\ Grows
<1>c. Numeric /\ i \in Nat /\ i' \in Nat
  BY NumericHolds DEF Numeric, PTypeOK
<1> USE <1>c DEF DataInv
<1>s. \A g \in Filters : sl[g] \in Nat /\ sl[g] < i
  <2>1. \A g \in Filters : sl[g] \in Nat /\ (sl[g] = 0 \/ sl[g] > 0)
    BY DEF PTypeOK, Numeric
  <2>2. i > 0
    BY DEF PTypeOK, Numeric
  <2>3. \A g \in Filters : sl[g] > 0 => sl[g] < i
    BY DEF PrimeInv
  <2> QED
    BY <2>1, <2>2, <2>3
<1>1. CASE Quiet
  <2>1. Grows
    BY <1>1 DEF Quiet, Grows
  <2>2. \A k \in Pipes, x \in Numbers : InPipe(k, x)' <=> InPipe(k, x)
    BY <1>1 DEF Quiet, InPipe
  <2>3. \A k, x : Past(x, k)' <=> Past(x, k)
    BY <1>1 DEF Quiet, Past
  <2>4. cur' = cur /\ sl' = sl /\ \A f \in Filters : Held(f)' <=> Held(f)
    BY <1>1 DEF Quiet, SameHeld
  <2>5. \A x \in Int : x < i => x < i'
    BY <2>1 DEF Grows
  <2>6. \A x \in Numbers : x \in Int
    BY DEF Numeric
  <2>7. \A f \in Filters : cur[f] \in Int
    BY DEF PTypeOK, Numeric
  <2> QED
    BY <2>1, <2>2, <2>3, <2>4, <2>5, <2>6, <2>7 DEF ItemInv, PipeItem, HeldItem
<1>2. CASE Fed
  <2>1. Grows /\ 0 \in Pipes /\ i \in Numbers
    BY <1>2 DEF Fed, Grows, Numeric
  <2>2. \A x \in Numbers : InPipe(0, x) => x < i
    BY <2>1 DEF ItemInv, PipeItem, HeldItem
  <2>3. PICK sent \in BOOLEAN :
          /\ \A l \in Pipes, x \in Numbers :
                InPipe(l, x)' <=> InPipe(l, x) \/ (sent /\ l = 0 /\ x = i)
          /\ \A l \in Pipes : \A a, b \in 1 .. Len(pipe'[l]) :
               a < b => pipe'[l][a] < pipe'[l][b]
    BY <1>2, <2>1, <2>2, AfterSend DEF Fed
  <2>4. \A k, x : Past(x, k)' <=> Past(x, k)
    BY <1>2 DEF Fed, Past
  <2>5. cur' = cur /\ sl' = sl /\ \A f \in Filters : Held(f)' <=> Held(f)
    BY <1>2 DEF Fed, SameHeld
  <2>6. ASSUME NEW k \in Pipes, NEW x \in Numbers, InPipe(k, x)'
        PROVE  PipeItem(k, x)'
    <3>1. CASE InPipe(k, x)
      BY <1>2, <2>4, <2>5, <3>1 DEF ItemInv, PipeItem, HeldItem, Fed, Numeric
    <3>2. CASE k = 0 /\ x = i
      <4>1. Past(i, 0)
        BY DEF Past, Numeric
      <4> QED
        BY <1>2, <1>s, <2>4, <2>5, <3>2, <4>1 DEF Fed, PipeItem, Numeric
    <3> QED
      BY <2>3, <2>6, <3>1, <3>2
  <2>7. ASSUME NEW f \in Filters, Held(f)'
        PROVE  HeldItem(f)'
    <3>1. cur[f] < i /\ cur[f] \in Int
      BY <2>5, <2>7 DEF ItemInv, PipeItem, HeldItem, PTypeOK, Numeric
    <3> QED
      BY <1>2, <2>4, <2>5, <2>7, <3>1 DEF ItemInv, PipeItem, HeldItem, Fed
  <2> QED
    BY <2>1, <2>6, <2>7 DEF ItemInv
<1>3. ASSUME NEW f \in Filters, NEW n \in Numbers, Begun(f, n) PROVE ItemInv' /\ Grows
  <2>1. /\ Grows /\ sl'[f] = n /\ \A g \in Filters \ {f} : sl'[g] = sl[g]
        /\ sl[f] = 0 /\ i' = i /\ cur' = cur
        /\ \A g \in Filters : Held(g)' <=> Held(g)
        /\ Read(f, n) /\ f \in Pipes
    BY <1>3, BegunGrows DEF Begun, SameHeld, Numeric
  <2>2. /\ InPipe(f, n)
        /\ \A k \in Pipes, x \in Numbers :
              InPipe(k, x) <=> InPipe(k, x)' \/ (k = f /\ x = n)
        /\ \A x \in Numbers : InPipe(f, x)' => n < x
    BY <2>1, AfterRead
  <2>3. ASSUME NEW k \in Pipes, NEW x \in Numbers, InPipe(k, x)'
        PROVE  PipeItem(k, x)'
    <3>1. InPipe(k, x)
      BY <2>2, <2>3
    <3>2. x % 2 = 1 /\ x < i /\ Past(x, k) /\ \A g \in Filters : sl[g] < x
      BY <3>1 DEF ItemInv, PipeItem, HeldItem
    <3>3. n < x
      <4>1. CASE k = f
        BY <2>2, <2>3, <4>1
      <4>2. CASE k < f
        BY <2>1, <2>2, <3>1, <4>2 DEF OrderInv
      <4>3. CASE k > f
        BY <2>1, <3>2, <4>3 DEF Past
      <4> QED
        BY <4>1, <4>2, <4>3 DEF Numeric
    <3> QED
      BY <2>1, <3>2, <3>3, PastStays DEF PipeItem
  <2>4. ASSUME NEW g \in Filters, Held(g)'
        PROVE  HeldItem(g)'
    <3>1. Held(g) /\ sl[g] > 0 /\ g # f
      BY <2>1, <2>4 DEF LocalInv
    <3>2. /\ cur[g] % 2 = 1 /\ cur[g] < i /\ Past(cur[g], g)
          /\ cur[g] % sl[g] # 0
          /\ \A h \in Filters : sl[h] < cur[g]
      BY <3>1 DEF ItemInv, PipeItem, HeldItem
    <3>3. cur[g] \in Numbers
      BY <3>1 DEF LocalInv, PTypeOK
    <3>4. n < cur[g]
      <4>1. CASE g < f
        <5>1. ~ (f <= g)
          BY <4>1 DEF Numeric
        <5> QED
          BY <2>1, <2>2, <3>1, <5>1 DEF OrderInv
      <4>2. CASE g > f
        BY <2>1, <3>2, <4>2 DEF Past
      <4> QED
        BY <3>1, <4>1, <4>2 DEF Numeric
    <3>5. Past(cur[g], g)'
      <4>1. Past(cur[g], g)
        BY <3>2
      <4> QED
        BY <2>1, <3>3, <4>1, PastStays
    <3>6. \A h \in Filters : sl'[h] < cur'[g]
      BY <2>1, <3>2, <3>4
    <3> QED
      BY <2>1, <3>1, <3>2, <3>3, <3>5, <3>6 DEF HeldItem
  <2> QED
    BY <2>1, <2>3, <2>4 DEF ItemInv
<1>4. ASSUME NEW f \in Filters, NEW n \in Numbers, Dropped(f, n) \/ Taken(f, n)
      PROVE  ItemInv' /\ Grows
  <2>1. /\ Grows /\ sl' = sl /\ i' = i /\ Read(f, n) /\ f \in Pipes
    BY <1>4 DEF Dropped, Taken, Grows, Numeric
  <2>2. \A k, x : Past(x, k)' <=> Past(x, k)
    BY <1>4 DEF Dropped, Taken, Past
  <2>3. /\ InPipe(f, n)
        /\ \A k \in Pipes, x \in Numbers : InPipe(k, x)' => InPipe(k, x)
    BY <2>1, AfterRead
  <2>4. ASSUME NEW g \in Filters, Held(g)'
        PROVE  HeldItem(g)'
    <3>1. CASE Held(g) /\ cur'[g] = cur[g]
      BY <2>1, <2>2, <3>1 DEF ItemInv, PipeItem, HeldItem
    <3>2. CASE g = f /\ cur'[g] = n /\ n % sl[f] # 0
      BY <2>1, <2>2, <2>3, <3>2 DEF ItemInv, PipeItem, HeldItem
    <3> QED
      BY <1>4, <2>4, <3>1, <3>2 DEF Dropped, Taken, SameHeld, PTypeOK
  <2>5. ASSUME NEW k \in Pipes, NEW x \in Numbers, InPipe(k, x)'
        PROVE  PipeItem(k, x)'
    <3>1. PipeItem(k, x)
      BY <2>3, <2>5 DEF ItemInv
    <3> QED
      BY <2>1, <2>2, <3>1 DEF PipeItem
  <2> QED
    BY <2>1, <2>4, <2>5 DEF ItemInv
<1>5. ASSUME NEW f \in Filters, Handed(f) PROVE ItemInv' /\ Grows
  <2>1. /\ Grows /\ cur[f] \in Numbers /\ f + 1 \in Pipes
        /\ sl[f] >= MAX \div 2 => printed'[cur[f]] > 0
        /\ Held(f) /\ sl[f] > 0 /\ Send(f + 1, cur[f]) /\ sl' = sl /\ i' = i
    BY <1>5, HandedGrows DEF Handed
  <2>2. \A x \in Numbers : InPipe(f + 1, x) => x < cur[f]
    BY <2>1 DEF OrderInv, Numeric
  <2>3. PICK sent \in BOOLEAN :
          \A l \in Pipes, x \in Numbers :
                InPipe(l, x)' <=> InPipe(l, x) \/ (sent /\ l = f + 1 /\ x = cur[f])
    BY <2>1, <2>2, AfterSend
  <2>4. ASSUME NEW k \in Pipes, NEW x \in Numbers, InPipe(k, x)'
        PROVE  PipeItem(k, x)'
    <3>1. CASE InPipe(k, x)
      BY <2>1, <3>1, PastStays DEF ItemInv, PipeItem, HeldItem
    <3>2. CASE k = f + 1 /\ x = cur[f]
      <4>1. /\ x % 2 = 1 /\ x < i /\ Past(x, f) /\ x % sl[f] # 0
            /\ \A g \in Filters : sl[g] < x
        BY <2>1, <3>2 DEF ItemInv, PipeItem, HeldItem
      <4>2. Past(x, f)'
        BY <2>1, <4>1, PastStays
      <4>3. Past(x, f + 1)'
        BY <2>1, <3>2, <4>1, <4>2 DEF Past, Numeric
      <4> QED
        BY <2>1, <3>2, <4>1, <4>3 DEF PipeItem
    <3> QED
      BY <2>3, <2>4, <3>1, <3>2
  <2>5. ASSUME NEW g \in Filters, Held(g)'
        PROVE  HeldItem(g)'
    <3>1. Held(g) /\ cur'[g] = cur[g] /\ cur[g] \in Numbers
      BY <1>5, <2>5 DEF Handed, PTypeOK, LocalInv
    <3> QED
      BY <2>1, <3>1, PastStays DEF ItemInv, PipeItem, HeldItem
  <2> QED
    BY <2>1, <2>4, <2>5 DEF ItemInv
<1> QED
  BY <1>1, <1>2, <1>3, <1>4, <1>5 DEF Moved

\* Every step keeps the numbers in order: no pipe lets one overtake another.
LEMMA OrderNext ==
  ASSUME PrimesAssumption, PTypeOK, PTypeOK', LocalInv, DataInv, Moved
  PROVE  OrderInv'
<1>c. Numeric /\ i \in Nat /\ i' \in Nat
  BY NumericHolds DEF Numeric, PTypeOK
<1> USE <1>c DEF DataInv
<1>1. CASE Quiet
  <2>1. \A k \in Pipes, x \in Numbers : InPipe(k, x)' <=> InPipe(k, x)
    BY <1>1 DEF Quiet, InPipe
  <2>2. pipe' = pipe /\ cur' = cur /\ \A f \in Filters : Held(f)' <=> Held(f)
    BY <1>1 DEF Quiet, SameHeld
  <2> QED
    BY <2>1, <2>2 DEF OrderInv
<1>2. CASE Fed
  <2>1. 0 \in Pipes /\ i \in Numbers /\ \A k \in Pipes : ~ (k < 0)
    BY <1>2 DEF Fed, Numeric
  <2>2. /\ \A k \in Pipes, x \in Numbers : InPipe(k, x) => x < i
        /\ \A f \in Filters : Held(f) => cur[f] < i
    BY <2>1 DEF ItemInv, PipeItem, HeldItem
  <2>3. PICK sent \in BOOLEAN :
          /\ \A l \in Pipes, x \in Numbers :
                InPipe(l, x)' <=> InPipe(l, x) \/ (sent /\ l = 0 /\ x = i)
          /\ \A l \in Pipes : \A a, b \in 1 .. Len(pipe'[l]) :
               a < b => pipe'[l][a] < pipe'[l][b]
    BY <1>2, <2>1, <2>2, AfterSend DEF Fed
  <2>4. cur' = cur /\ \A f \in Filters : Held(f)' <=> Held(f)
    BY <1>2 DEF Fed, SameHeld
  <2>5. ASSUME NEW k \in Pipes, NEW l \in Pipes, NEW x \in Numbers, NEW y \in Numbers,
               k < l, InPipe(k, x)', InPipe(l, y)'
        PROVE  y < x
    <3>1. InPipe(l, y)
      BY <2>3, <2>5 DEF Numeric
    <3> QED
      BY <2>2, <2>3, <2>5, <3>1 DEF OrderInv
  <2>6. ASSUME NEW f \in Filters, NEW k \in Pipes, NEW x \in Numbers,
               Held(f)', InPipe(k, x)'
        PROVE  IF k <= f THEN cur'[f] < x ELSE x < cur'[f]
    <3>1. 0 <= f
      BY DEF Numeric
    <3> QED
      BY <2>2, <2>3, <2>4, <2>6, <3>1 DEF OrderInv
  <2> QED
    BY <2>3, <2>4, <2>5, <2>6 DEF OrderInv
<1>3. ASSUME NEW f \in Filters, NEW n \in Numbers, Begun(f, n) \/ Dropped(f, n)
      PROVE  OrderInv'
  <2>1. /\ cur' = cur /\ \A g \in Filters : Held(g)' <=> Held(g)
        /\ Read(f, n) /\ f \in Pipes
    BY <1>3 DEF Begun, Dropped, SameHeld, Numeric
  <2>2. /\ \A k \in Pipes, x \in Numbers : InPipe(k, x)' => InPipe(k, x)
        /\ \A k \in Pipes : \A a, b \in 1 .. Len(pipe'[k]) :
              a < b => pipe'[k][a] < pipe'[k][b]
    BY <2>1, AfterRead
  <2> QED
    BY <2>1, <2>2 DEF OrderInv
<1>4. ASSUME NEW f \in Filters, NEW n \in Numbers, Taken(f, n)
      PROVE  OrderInv'
  <2>1. /\ \A g \in Filters : Held(g)' <=> g = f \/ Held(g)
        /\ ~ Held(f)
        /\ cur'[f] = n /\ \A g \in Filters \ {f} : cur'[g] = cur[g]
        /\ Read(f, n) /\ f \in Pipes
    BY <1>4 DEF Taken, Numeric, PTypeOK
  <2>2. /\ InPipe(f, n)
        /\ \A k \in Pipes, x \in Numbers : InPipe(k, x)' => InPipe(k, x)
        /\ \A x \in Numbers : InPipe(f, x)' => n < x
        /\ \A k \in Pipes : \A a, b \in 1 .. Len(pipe'[k]) :
              a < b => pipe'[k][a] < pipe'[k][b]
    BY <2>1, AfterRead
  <2>3. \A k, l \in Pipes : \A x, y \in Numbers :
          k < l /\ InPipe(k, x)' /\ InPipe(l, y)' => y < x
    BY <2>2 DEF OrderInv
  <2>4. ASSUME NEW g \in Filters, NEW k \in Pipes, NEW x \in Numbers,
               Held(g)', InPipe(k, x)'
        PROVE  IF k <= g THEN cur'[g] < x ELSE x < cur'[g]
    <3>1. CASE g # f
      BY <2>1, <2>2, <2>4, <3>1 DEF OrderInv
    <3>2. CASE g = f
      <4>1. CASE k = f
        BY <2>1, <2>2, <2>4, <3>2, <4>1 DEF Numeric
      <4>2. CASE k < f
        <5>1. n < x
          <6>1. InPipe(k, x)
            BY <2>2, <2>4
          <6> QED
            BY <2>1, <2>2, <4>2, <6>1 DEF OrderInv
        <5> QED
          BY <2>1, <3>2, <4>2, <5>1 DEF Numeric
      <4>3. CASE f < k
        <5>1. x < n
          <6>1. InPipe(k, x)
            BY <2>2, <2>4
          <6> QED
            BY <2>1, <2>2, <4>3, <6>1 DEF OrderInv
        <5> QED
          BY <2>1, <3>2, <4>3, <5>1 DEF Numeric
      <4> QED
        BY <4>1, <4>2, <4>3 DEF Numeric
    <3> QED
      BY <3>1, <3>2
  <2>5. ASSUME NEW g \in Filters, NEW h \in Filters, g < h, Held(g)', Held(h)'
        PROVE  cur'[h] < cur'[g]
    <3>1. CASE g = f
      <4>1. h # f /\ Held(h) /\ f <= h
        BY <2>1, <2>5, <3>1 DEF Numeric
      <4> QED
        BY <2>1, <2>2, <3>1, <4>1 DEF OrderInv
    <3>2. CASE h = f
      <4>1. g # f /\ Held(g) /\ ~ (f <= g)
        BY <2>1, <2>5, <3>2 DEF Numeric
      <4> QED
        BY <2>1, <2>2, <3>2, <4>1 DEF OrderInv
    <3>3. CASE g # f /\ h # f
      BY <2>1, <2>5, <3>3 DEF OrderInv
    <3> QED
      BY <3>1, <3>2, <3>3
  <2> QED
    BY <2>2, <2>3, <2>4, <2>5 DEF OrderInv
<1>5. ASSUME NEW f \in Filters, Handed(f) PROVE OrderInv'
  <2>1. /\ cur[f] \in Numbers /\ f + 1 \in Pipes
        /\ Held(f) /\ Send(f + 1, cur[f])
        /\ \A g \in Filters : Held(g)' <=> g # f /\ Held(g)
        /\ \A g \in Filters \ {f} : cur'[g] = cur[g]
    BY <1>5, HandedGrows DEF Handed, PTypeOK
  <2>2. \A x \in Numbers : InPipe(f + 1, x) => x < cur[f]
    BY <2>1 DEF OrderInv, Numeric
  <2>3. PICK sent \in BOOLEAN :
          /\ \A l \in Pipes, x \in Numbers :
                InPipe(l, x)' <=> InPipe(l, x) \/ (sent /\ l = f + 1 /\ x = cur[f])
          /\ \A l \in Pipes : \A a, b \in 1 .. Len(pipe'[l]) :
               a < b => pipe'[l][a] < pipe'[l][b]
    BY <2>1, <2>2, AfterSend
  <2>4. ASSUME NEW k \in Pipes, NEW l \in Pipes, NEW x \in Numbers, NEW y \in Numbers,
               k < l, InPipe(k, x)', InPipe(l, y)'
        PROVE  y < x
    <3>1. CASE InPipe(k, x) /\ InPipe(l, y)
      BY <2>4, <3>1 DEF OrderInv
    <3>2. CASE k = f + 1 /\ x = cur[f] /\ InPipe(l, y)
      <4>1. ~ (l <= f)
        BY <2>4, <3>2 DEF Numeric
      <4> QED
        BY <2>1, <3>2, <4>1 DEF OrderInv
    <3>3. CASE l = f + 1 /\ y = cur[f] /\ InPipe(k, x)
      <4>1. k <= f
        BY <2>4, <3>3 DEF Numeric
      <4> QED
        BY <2>1, <3>3, <4>1 DEF OrderInv
    <3>4. ~ (k = f + 1 /\ l = f + 1)
      BY <2>4 DEF Numeric
    <3> QED
      BY <2>3, <2>4, <3>1, <3>2, <3>3, <3>4
  <2>5. ASSUME NEW g \in Filters, NEW k \in Pipes, NEW x \in Numbers,
               Held(g)', InPipe(k, x)'
        PROVE  IF k <= g THEN cur'[g] < x ELSE x < cur'[g]
    <3>1. g # f /\ Held(g) /\ cur'[g] = cur[g]
      BY <2>1, <2>5
    <3>2. CASE InPipe(k, x)
      BY <3>1, <3>2 DEF OrderInv
    <3>3. CASE k = f + 1 /\ x = cur[f]
      <4>1. (k <= g /\ f < g) \/ (~ (k <= g) /\ g < f)
        BY <3>1, <3>3 DEF Numeric
      <4> QED
        BY <2>1, <3>1, <3>3, <4>1 DEF OrderInv
    <3> QED
      BY <2>3, <2>5, <3>2, <3>3
  <2>6. \A g, h \in Filters : g < h /\ Held(g)' /\ Held(h)' => cur'[h] < cur'[g]
    BY <2>1 DEF OrderInv
  <2> QED
    BY <2>3, <2>4, <2>5, <2>6 DEF OrderInv
<1> QED
  BY <1>1, <1>2, <1>3, <1>4, <1>5 DEF Moved

\* The filters find their primes one after the other.
LEMMA ChainFirst ==
  ASSUME PrimesAssumption, PTypeOK, PrimeInv, NEW f \in Filters, sl[f] = 0,
         NEW g \in Filters, sl[g] > 0
  PROVE  g < f
<1>1. CASE f < g
  BY <1>1 DEF PrimeInv
<1> QED
  BY <1>1, NumericHolds DEF Numeric

\* A filter that has its prime reads its pipe.
LEMMA NotDead ==
  ASSUME PrimesAssumption, PTypeOK, LocalInv, NEW f \in Filters, sl[f] > 0
  PROVE  ~ Dead(f)
<1>1. f < made /\ pc[f] # "none" /\ made \in Int /\ f \in 0 .. Last
  BY DEF LocalInv, PTypeOK, PrimesAssumption, Filters
<1>2. f \in Int /\ Last \in Int
  BY Constants
<1> QED
  BY <1>1, <1>2 DEF Dead

\* What filter f has read first is not divided by anything smaller.
LEMMA BeforeFirst ==
  ASSUME PrimesAssumption, PTypeOK, PTypeOK', LocalInv, EndsInv, DataInv,
         NEW f \in Filters, NEW n \in Numbers, Begun(f, n),
         NEW d \in 3 .. n - 1, d % 2 = 1
  PROVE  \E g \in Filters : g < f /\ sl[g] > 0 /\ d % sl[g] = 0
<1>c. Numeric
  BY NumericHolds
<1> USE <1>c DEF DataInv
<1>1. sl[f] = 0 /\ ~ Dead(f) /\ Read(f, n) /\ f \in Pipes
  BY DEF Begun, Numeric
<1>2. /\ InPipe(f, n)
      /\ \A x \in Numbers : InPipe(f, x) => x = n \/ n < x
  BY <1>1, AfterRead
<1>3. d \in Numbers /\ ~ (n < d) /\ d # n /\ d \in START + 1 .. i - 1
  <2>1. n < i
    BY <1>1, <1>2 DEF ItemInv, PipeItem
  <2> QED
    BY <2>1 DEF Numeric, PTypeOK
<1>4. \A g \in Filters : sl[g] > 0 => g < f
  BY <1>1, ChainFirst
<1>5. CASE \E k \in Pipes : InPipe(k, d)
  <2>1. PICK k \in Pipes : InPipe(k, d)
    BY <1>5
  <2>2. ~ (k < f)
    BY <1>1, <1>2, <1>3, <2>1 DEF OrderInv
  <2>3. k # f
    BY <1>2, <1>3, <2>1
  <2>4. f < k
    BY <2>2, <2>3 DEF Numeric
  <2>5. Past(d, k)
    BY <1>3, <2>1 DEF ItemInv, PipeItem
  <2> QED
    BY <1>1, <2>4, <2>5 DEF Past
<1>6. CASE \E g \in Filters : Held(g) /\ cur[g] = d
  <2>1. PICK g \in Filters : Held(g) /\ cur[g] = d
    BY <1>6
  <2>2. g < f /\ ~ (f <= g)
    BY <1>4, <2>1 DEF LocalInv, Numeric
  <2>3. n < d
    BY <1>1, <1>2, <2>1, <2>2 DEF OrderInv
  <2> QED
    BY <1>3, <2>3
<1>7. CASE Sifted(d)
  BY <1>4, <1>7 DEF Sifted
<1>8. CASE \E k \in 0 .. Last + 1 : Dead(k) /\ Past(d, k)
  <2>1. PICK k \in 0 .. Last + 1 : Dead(k) /\ Past(d, k)
    BY <1>8
  <2>2. ~ (f < k)
    BY <1>1, <2>1 DEF Past
  <2>3. k # f
    BY <1>1, <2>1
  <2>4. k < f /\ k \in Filters
    BY <2>2, <2>3 DEF Numeric
  <2>5. sl[k] > 0
    BY <1>1, <1>2, <2>4 DEF ItemInv, PipeItem, Past, Numeric
  <2> QED
    BY <2>1, <2>4, <2>5, NotDead
<1> QED
  BY <1>3, <1>5, <1>6, <1>7, <1>8 DEF AllKept, Kept

\* Every step keeps PrimeInv: a filter's first number is the next prime.
LEMMA PrimeNext ==
  ASSUME PrimesAssumption, PTypeOK, PTypeOK', LocalInv, EndsInv, DataInv, Grows, Moved
  PROVE  PrimeInv'
<1>c. Numeric /\ i \in Nat /\ i' \in Nat /\ sl \in [Filters -> {0} \cup Numbers]
  BY NumericHolds DEF Numeric, PTypeOK
<1> USE <1>c DEF DataInv
<1>1. CASE \A f \in Filters : sl'[f] = sl[f]
  <2>1. ASSUME NEW f \in Filters, sl'[f] > 0
        PROVE  /\ sl'[f] < i'
               /\ sl'[f] % 2 = 1 /\ printed'[sl'[f]] > 0
               /\ \A g \in Filters : g < f => sl'[g] > 0 /\ sl'[g] < sl'[f] /\ sl'[f] % sl'[g] # 0
               /\ \A d \in 3 .. sl'[f] - 1 : d % 2 = 1 =>
                    \E g \in Filters : g < f /\ sl'[g] > 0 /\ d % sl'[g] = 0
    <3>1. sl[f] \in Numbers /\ sl'[f] = sl[f] /\ sl[f] > 0
      BY <1>1, <2>1
    <3>2. sl[f] < i' /\ printed'[sl[f]] > 0 /\ sl[f] % 2 = 1
      BY <3>1 DEF PrimeInv, Grows, Numeric
    <3>3. /\ \A g \in Filters : g < f => sl[g] > 0 /\ sl[g] < sl[f] /\ sl[f] % sl[g] # 0
          /\ \A d \in 3 .. sl[f] - 1 : d % 2 = 1 =>
               \E g \in Filters : g < f /\ sl[g] > 0 /\ d % sl[g] = 0
      BY <3>1 DEF PrimeInv
    <3> QED
      BY <1>1, <3>1, <3>2, <3>3
  <2> QED
    BY <2>1 DEF PrimeInv
<1>2. ASSUME NEW f \in Filters, NEW n \in Numbers, Begun(f, n)
      PROVE  PrimeInv'
  <2>1. /\ sl'[f] = n /\ printed'[n] > 0 /\ \A g \in Filters \ {f} : sl'[g] = sl[g]
        /\ sl[f] = 0 /\ i' = i /\ Read(f, n) /\ f \in Pipes
    BY <1>2, BegunGrows DEF Begun, Numeric
  <2>2. InPipe(f, n)
    BY <2>1, AfterRead
  <2>3. n % 2 = 1 /\ n < i /\ \A g \in Filters : g < f => sl[g] > 0 /\ sl[g] < n /\ n % sl[g] # 0
    BY <2>1, <2>2 DEF ItemInv, PipeItem, Past
  <2>4. \A d \in 3 .. n - 1 : d % 2 = 1 => \E g \in Filters : g < f /\ sl[g] > 0 /\ d % sl[g] = 0
    BY <1>2, BeforeFirst
  <2>5. \A g \in Filters : g < f => sl'[g] = sl[g]
    BY <2>1 DEF Numeric
  <2>6. ASSUME NEW g \in Filters, sl'[g] > 0, g # f
        PROVE  /\ g < f /\ sl'[g] = sl[g] /\ sl[g] > 0 /\ sl[g] \in Numbers
               /\ \A h \in Filters : h < g => sl'[h] = sl[h]
    <3>1. g < f /\ sl'[g] = sl[g] /\ sl[g] > 0
      BY <2>1, <2>6, ChainFirst
    <3>2. \A h \in Filters : h < g => h # f
      BY <3>1 DEF Numeric
    <3> QED
      BY <2>1, <3>1, <3>2
  <2>7. ASSUME NEW g \in Filters, sl'[g] > 0
        PROVE  /\ sl'[g] < i'
               /\ sl'[g] % 2 = 1 /\ printed'[sl'[g]] > 0
               /\ \A h \in Filters : h < g => sl'[h] > 0 /\ sl'[h] < sl'[g] /\ sl'[g] % sl'[h] # 0
               /\ \A d \in 3 .. sl'[g] - 1 : d % 2 = 1 =>
                    \E h \in Filters : h < g /\ sl'[h] > 0 /\ d % sl'[h] = 0
    <3>1. CASE g = f
      BY <2>1, <2>3, <2>4, <2>5, <3>1
    <3>2. CASE g # f
      <4>1. /\ sl[g] < i /\ sl[g] % 2 = 1 /\ printed'[sl[g]] > 0
            /\ \A h \in Filters : h < g => sl[h] > 0 /\ sl[h] < sl[g] /\ sl[g] % sl[h] # 0
            /\ \A d \in 3 .. sl[g] - 1 : d % 2 = 1 =>
                 \E h \in Filters : h < g /\ sl[h] > 0 /\ d % sl[h] = 0
        BY <2>6, <2>7, <3>2 DEF PrimeInv, Grows
      <4> QED
        BY <2>1, <2>6, <2>7, <3>2, <4>1
    <3> QED
      BY <3>1, <3>2
  <2> QED
    BY <2>7 DEF PrimeInv
<1> QED
  BY <1>1, <1>2 DEF Moved, Quiet, Fed, Handed, Dropped, Taken

\* What has been sifted remains so.
LEMMA SiftedStays ==
  ASSUME PTypeOK, Grows, NEW x, Sifted(x)
  PROVE  Sifted(x)'
  BY DEF Sifted, Grows

\* What was not lost is not lost by a step either.
LEMMA AllKeptNext ==
  ASSUME PrimesAssumption, PTypeOK, PTypeOK', LocalInv, EndsInv, DataInv, Grows, Moved,
         \A k \in 0 .. Last + 1 : Dead(k) => Dead(k)'
  PROVE  AllKept'
<1>c. Numeric /\ i \in Nat /\ i' \in Nat /\ i \in 3 .. END + 1
  BY NumericHolds DEF Numeric, PTypeOK
<1> USE <1>c DEF DataInv
<1>d. \A x \in Numbers : \A k \in 0 .. Last + 1 : Dead(k) /\ Past(x, k) => Kept(x)'
  BY PastStays DEF Kept
<1>e. \A x : Sifted(x) => Kept(x)'
  BY SiftedStays DEF Kept
<1>n. \A x \in START + 1 .. i - 1 : x \in Numbers
  BY DEF Numeric
<1>1. CASE Quiet
  <2>1. \A k \in Pipes, x \in Numbers : InPipe(k, x)' <=> InPipe(k, x)
    BY <1>1 DEF Quiet, InPipe
  <2>2. cur' = cur /\ \A f \in Filters : Held(f)' <=> Held(f)
    BY <1>1 DEF Quiet, SameHeld
  <2>3. \A x \in Numbers : Kept(x) => Kept(x)'
    BY <1>d, <1>e, <2>1, <2>2 DEF Kept
  <2>4. ASSUME NEW x \in START + 1 .. i' - 1, x % 2 = 1
        PROVE  x \in START + 1 .. i - 1
    <3>1. CASE i' = i
      BY <2>4, <3>1
    <3>2. CASE i' = i + 1 /\ i % 2 # 1
      <4>1. x # i
        BY <2>4, <3>2
      <4> QED
        BY <2>4, <3>2, <4>1 DEF Numeric
    <3> QED
      BY <1>1, <3>1, <3>2 DEF Quiet
  <2> QED
    BY <1>n, <2>3, <2>4 DEF AllKept
<1>2. CASE Fed
  <2>1. 0 \in Pipes /\ i \in Numbers /\ i' = i + 1
    BY <1>2 DEF Fed, Numeric
  <2>2. \A x \in Numbers : InPipe(0, x) => x < i
    BY <2>1 DEF ItemInv, PipeItem
  <2>3. PICK sent \in BOOLEAN :
          /\ sent \/ Dead(0)
          /\ \A l \in Pipes, x \in Numbers :
                InPipe(l, x)' <=> InPipe(l, x) \/ (sent /\ l = 0 /\ x = i)
    BY <1>2, <2>1, <2>2, AfterSend DEF Fed
  <2>4. cur' = cur /\ \A f \in Filters : Held(f)' <=> Held(f)
    BY <1>2 DEF Fed, SameHeld
  <2>5. \A x \in Numbers : Kept(x) => Kept(x)'
    BY <1>d, <1>e, <2>3, <2>4 DEF Kept
  <2>6. ASSUME NEW x \in Numbers, x = i PROVE Kept(x)'
    <3>1. CASE sent
      BY <2>1, <2>3, <2>6, <3>1 DEF Kept
    <3>2. CASE Dead(0)
      <4>1. Past(x, 0) /\ 0 \in 0 .. Last + 1
        BY DEF Past, Numeric
      <4> QED
        BY <1>d, <3>2, <4>1
    <3> QED
      BY <2>3, <3>1, <3>2
  <2>7. \A x \in START + 1 .. i' - 1 : x \in START + 1 .. i - 1 \/ x = i
    BY <2>1 DEF Numeric
  <2> QED
    BY <1>n, <2>1, <2>5, <2>6, <2>7 DEF AllKept
<1>3. ASSUME NEW f \in Filters, NEW n \in Numbers, Begun(f, n) \/ Dropped(f, n) \/ Taken(f, n)
      PROVE  AllKept'
  <2>1. Read(f, n) /\ f \in Pipes /\ i' = i
    BY <1>3 DEF Begun, Dropped, Taken, Numeric
  <2>2. \A k \in Pipes, x \in Numbers : InPipe(k, x) => InPipe(k, x)' \/ x = n
    BY <2>1, AfterRead
  <2>3. \A g \in Filters : Held(g) => Held(g)' /\ cur'[g] = cur[g]
    BY <1>3 DEF Begun, Dropped, Taken, SameHeld, PTypeOK
  <2>4. Kept(n)'
    <3>1. CASE Begun(f, n)
      <4>1. sl'[f] = n
        BY <3>1 DEF Begun, PTypeOK
      <4>2. n % n = 0 /\ n > 0
        <5>1. n \in Nat \ {0} /\ 1 \in Nat /\ n * 1 = n
          BY DEF Numeric
        <5>2. (n * 1) % n = 0
          BY <5>1, Mult
        <5> QED
          BY <5>1, <5>2
      <4> QED
        BY <4>1, <4>2 DEF Kept, Sifted
    <3>2. CASE Dropped(f, n)
      <4>1. Sifted(n)
        BY <3>2 DEF Dropped, Sifted
      <4> QED
        BY <1>e, <4>1
    <3>3. CASE Taken(f, n)
      BY <3>3 DEF Taken, Kept, PTypeOK
    <3> QED
      BY <1>3, <3>1, <3>2, <3>3
  <2>5. \A x \in Numbers : Kept(x) => Kept(x)'
    BY <1>d, <1>e, <2>2, <2>3, <2>4 DEF Kept
  <2> QED
    BY <1>n, <2>1, <2>5 DEF AllKept
<1>4. ASSUME NEW f \in Filters, Handed(f) PROVE AllKept'
  <2>1. /\ cur[f] \in Numbers /\ f + 1 \in Pipes /\ i' = i /\ sl' = sl
        /\ sl[f] >= MAX \div 2 => printed'[cur[f]] > 0
        /\ Held(f) /\ sl[f] > 0 /\ Send(f + 1, cur[f])
        /\ \A g \in Filters : Held(g)' <=> g # f /\ Held(g)
        /\ \A g \in Filters \ {f} : cur'[g] = cur[g]
    BY <1>4, HandedGrows DEF Handed, PTypeOK
  <2>2. \A x \in Numbers : InPipe(f + 1, x) => x < cur[f]
    BY <2>1 DEF OrderInv, Numeric
  <2>3. PICK sent \in BOOLEAN :
          /\ sent \/ Dead(f + 1)
          /\ \A l \in Pipes, x \in Numbers :
                InPipe(l, x)' <=> InPipe(l, x) \/ (sent /\ l = f + 1 /\ x = cur[f])
    BY <2>1, <2>2, AfterSend
  <2>4. ASSUME NEW x \in Numbers, x = cur[f] PROVE Kept(x)'
    <3>1. CASE sent
      BY <2>1, <2>3, <2>4, <3>1 DEF Kept
    <3>2. CASE Dead(f + 1)
      <4>1. /\ Past(x, f) /\ x % sl[f] # 0 /\ sl[f] < x
            /\ f + 1 \in 0 .. Last + 1
        BY <2>1, <2>4 DEF ItemInv, HeldItem, Numeric
      <4>2. Past(x, f)'
        BY <4>1, PastStays
      <4>3. Past(x, f + 1)'
        BY <2>1, <2>4, <4>1, <4>2 DEF Past, Numeric
      <4> QED
        BY <3>2, <4>1, <4>3 DEF Kept
    <3> QED
      BY <2>3, <3>1, <3>2
  <2>5. \A x \in Numbers : Kept(x) => Kept(x)'
    BY <1>d, <1>e, <2>1, <2>3, <2>4 DEF Kept
  <2> QED
    BY <1>n, <2>1, <2>5 DEF AllKept
<1> QED
  BY <1>1, <1>2, <1>3, <1>4 DEF Moved

\* Only primes are printed: what filter f reads first is divided by nothing
\* smaller, and what is passed on by a filter whose prime is at least MAX / 2
\* could only be divided by something smaller than that prime.
LEMMA PrintNext ==
  ASSUME PrimesAssumption, PTypeOK, PTypeOK', LocalInv, EndsInv, DataInv, Grows, Moved
  PROVE  PrintInv'
<1>c. Numeric
  BY NumericHolds
<1> USE <1>c DEF DataInv
<1>0. printed'[START] > 0
  <2>1. START \in Numbers /\ START' = START
    BY DEF Numeric, PrimesAssumption, START
  <2> QED
    BY <2>1 DEF PrintInv, Grows
<1>1. SUFFICES ASSUME NEW n \in Numbers, printed'[n] > 0, ~ (printed[n] > 0),
                      NEW d \in 2 .. n - 1, n % d = 0
               PROVE  FALSE
  <2>1. \A x \in Numbers : printed'[x] > 0 => IsPrime(x)
    BY <1>1 DEF PrintInv, PrimesOnly, IsPrime
  <2> QED
    BY <1>0, <2>1 DEF PrintInv, PrimesOnly, IsPrime
<1>2. ASSUME n % 2 = 1
      PROVE  d \in 3 .. n - 1 /\ d % 2 = 1 /\ 3 * d <= n
  <2>1. n \in Nat /\ d \in Nat \ {0} /\ d < n
    BY DEF Numeric
  <2>2. d % 2 = 1
    BY <1>1, <1>2, <2>1, DivTwo
  <2>3. 3 * d <= n
    BY <1>1, <1>2, <2>1, Third
  <2> QED
    BY <2>1, <2>2, <2>3
<1>3. ASSUME NEW s \in Numbers, d % s = 0
      PROVE  n % s = 0
  <2>1. n \in Nat /\ d \in Nat \ {0} /\ s \in Nat \ {0}
    BY DEF Numeric
  <2> QED
    BY <1>1, <1>3, <2>1, DivTrans
<1>4. ASSUME NEW f \in Filters, NEW m \in Numbers, Begun(f, m)
      PROVE  FALSE
  <2>1. n = m /\ Read(f, n) /\ f \in Pipes
    BY <1>1, <1>4, BegunGrows DEF Begun, Numeric
  <2>2. PipeItem(f, n)
    BY <2>1, AfterRead DEF ItemInv
  <2>3. PICK g \in Filters : g < f /\ sl[g] > 0 /\ d % sl[g] = 0
    BY <1>2, <1>4, <2>1, <2>2, BeforeFirst DEF PipeItem
  <2>4. sl[g] \in Numbers
    BY <2>3 DEF PTypeOK
  <2> QED
    BY <1>3, <2>2, <2>3, <2>4 DEF PipeItem, Past
<1>5. ASSUME NEW f \in Filters, Handed(f)
      PROVE  FALSE
  <2>1. n = cur[f] /\ sl[f] >= MAX \div 2 /\ Held(f) /\ sl[f] > 0
    BY <1>1, <1>5, HandedGrows DEF Handed
  <2>2. HeldItem(f) /\ sl[f] \in Numbers
    BY <2>1 DEF ItemInv, PTypeOK
  <2>3. d \in 3 .. n - 1 /\ d % 2 = 1 /\ 3 * d <= n
    BY <1>2, <2>1, <2>2 DEF HeldItem
  <2>4. d < sl[f] \/ d = sl[f]
    <3>1. n <= MAX /\ MAX \in Nat /\ n \in Nat /\ d \in Nat /\ sl[f] \in Nat
      BY <2>2 DEF PrimesAssumption, Numeric
    <3> QED
      BY <2>1, <2>3, <3>1
  <2>5. n % sl[f] # 0
    BY <2>1, <2>2 DEF HeldItem
  <2>6. d \in 3 .. sl[f] - 1
    BY <1>1, <2>2, <2>3, <2>4, <2>5 DEF Numeric
  <2>7. PICK g \in Filters : g < f /\ sl[g] > 0 /\ d % sl[g] = 0
    BY <2>1, <2>3, <2>6 DEF PrimeInv
  <2>8. sl[g] \in Numbers
    BY <2>7 DEF PTypeOK
  <2> QED
    BY <1>3, <2>1, <2>2, <2>7, <2>8 DEF HeldItem, Past
<1> QED
  BY <1>1, <1>4, <1>5 DEF Moved, Quiet, Fed, Dropped, Taken

\* Nothing is printed unread but at the end of the pipe, and nothing is read after
\* that.
LEMMA UnreadNext ==
  ASSUME PrimesAssumption, PTypeOK, MainInv, LocalInv, UnreadInv, NEW p \in Procs, Step(p)
  PROVE  UnreadInv'
<1>c. Main \notin Filters /\ Procs = Filters \cup {Main} /\ 0 \notin Numbers
  BY Constants
<1> USE <1>c DEF Goto
<1>1. SUFFICES ASSUME NEW g \in garbage' PROVE g \in Filters /\ Over(g)' /\ sl'[g] = 0
  BY DEF UnreadInv
<1>2. CASE MainStep
  <2>1. garbage' = garbage /\ sl' = sl
    BY <1>2 DEF MainStep, Feed, Fork, CloseFed, Unwind, WaitAll
  <2>2. g \in Filters /\ Over(g) /\ sl[g] = 0
    BY <2>1 DEF UnreadInv
  <2>3. pc'[g] = pc[g]
    <3>1. CASE Fork
      <4>1. pc[Main] = "fork" /\ c \in Filters /\ c \in Int
        BY <3>1, Constants DEF Fork, PTypeOK
      <4>2. pc[c] = "none"
        BY <4>1 DEF MainInv, Passed
      <4>3. g # c
        BY <2>2, <4>2 DEF Over
      <4> QED
        BY <2>2, <3>1, <4>1, <4>3 DEF Fork, PTypeOK
    <3>2. CASE Feed \/ CloseFed \/ Unwind \/ WaitAll
      BY <2>2, <3>2 DEF Feed, CloseFed, Unwind, WaitAll, PTypeOK
    <3> QED
      BY <1>2, <3>1, <3>2 DEF MainStep
  <2> QED
    BY <2>1, <2>2, <2>3 DEF Over
<1>3. ASSUME NEW f \in Filters, Filter(f), f # g
      PROVE  g \in Filters /\ Over(g)' /\ sl'[g] = 0
  <2>1. g \in garbage
    BY <1>3 DEF Filter, CloseUnused, FirstRead, NextRead, PassOn
  <2>2. g \in Filters /\ Over(g) /\ sl[g] = 0
    BY <2>1 DEF UnreadInv
  <2>3. pc'[g] = pc[g] /\ sl'[g] = sl[g]
    BY <1>3, <2>2 DEF Filter, CloseUnused, FirstRead, NextRead, PassOn, PTypeOK
  <2> QED
    BY <2>2, <2>3 DEF Over
<1>4. ASSUME NEW f \in Filters, Filter(f), f = g
      PROVE  Over(g)' /\ sl'[g] = 0
  <2>1. CASE FirstRead(f)
    <3>1. pc[f] = "first" /\ sl[f] = 0 /\ pc'[f] = "read"
      BY <2>1 DEF FirstRead, LocalInv, PTypeOK
    <3>2. f \notin garbage
      BY <3>1 DEF UnreadInv, Over
    <3>3. sl' = sl
      BY <1>4, <2>1, <3>2 DEF FirstRead
    <3> QED
      BY <1>4, <3>1, <3>3 DEF Over
  <2>2. CASE ~ FirstRead(f)
    <3>1. f \in garbage /\ sl' = sl
      BY <1>4, <2>2 DEF Filter, CloseUnused, NextRead, PassOn
    <3>2. Over(f) /\ sl[f] = 0
      BY <3>1 DEF UnreadInv
    <3>3. NextRead(f)
      BY <1>4, <2>2, <3>2 DEF Filter, CloseUnused, PassOn, Over
    <3>4. pc'[f] \in {"read", "exited"}
      BY <3>2, <3>3 DEF NextRead, Passes, PTypeOK
    <3> QED
      BY <1>4, <3>1, <3>2, <3>4 DEF Over
  <2> QED
    BY <2>1, <2>2
<1> QED
  BY <1>2, <1>3, <1>4 DEF Step

\* At the beginning nothing is on its way.
LEMMA SieveInit ==
  ASSUME PrimesAssumption, Init
  PROVE  SieveInv
<1>c. /\ Numeric /\ Main = -1 /\ Main \notin Filters /\ Procs = Filters \cup {Main}
      /\ made \in 0 .. END + 1 /\ END >= 2
  BY NumericHolds, Constants DEF Numeric, PrimesAssumption, Main, Init
<1> USE <1>c DEF Init, PipesInit
<1>1. PTypeOK
  BY DEF PTypeOK, Numeric
<1>2. MainInv /\ LocalInv /\ EndsInv /\ ItemInv /\ OrderInv /\ PrimeInv
  <2>1. \A f \in Filters : pc[f] = "none" /\ sl[f] = 0 /\ cur[f] = 0
    OBVIOUS
  <2>2. pc[Main] = "feed"
    OBVIOUS
  <2>3. \A k \in Pipes : pipe[k] = <<>> /\ Len(pipe[k]) = 0
    OBVIOUS
  <2>4. \A k \in Pipes : \A x : ~ InPipe(k, x)
    BY <2>3 DEF InPipe
  <2>5. MainInv
    BY <2>1, <2>2 DEF MainInv, Passed
  <2>6. LocalInv
    BY <2>1 DEF LocalInv, Held
  <2>7. EndsInv
    BY <2>1, <2>2, <2>3 DEF EndsInv, Over, Active
  <2>8. ItemInv /\ OrderInv
    BY <2>1, <2>3, <2>4 DEF ItemInv, OrderInv, Held
  <2>9. PrimeInv
    BY <2>1 DEF PrimeInv
  <2> QED
    BY <2>5, <2>6, <2>7, <2>8, <2>9
<1>3. AllKept
  BY DEF AllKept, Numeric
<1>4. UnreadInv
  BY DEF UnreadInv
<1>5. PrintInv
  <2>1. \A n \in Numbers : printed[n] > 0 => n = 2
    BY DEF Numeric
  <2> QED
    BY <2>1 DEF PrintInv, PrimesOnly, IsPrime, Numeric
<1> QED
  BY <1>1, <1>2, <1>3, <1>4, <1>5 DEF SieveInv

\* Every step of every process keeps the invariant.
LEMMA SieveNext ==
  ASSUME PrimesAssumption, SieveInv, [Next]_vars
  PROVE  SieveInv'
<1>1. CASE UNCHANGED vars
  <2> USE <1>1 DEF vars
  <2>1. PTypeOK' /\ MainInv' /\ LocalInv' /\ EndsInv' /\ UnreadInv'
    BY DEF SieveInv, PTypeOK, MainInv, LocalInv, EndsInv, UnreadInv, Passed, Held, Over,
           HasWriter
  <2>2. ItemInv' /\ OrderInv'
    BY DEF SieveInv, ItemInv, OrderInv, PipeItem, HeldItem, Past, InPipe, Held
  <2>3. PrimeInv' /\ PrintInv'
    BY DEF SieveInv, PrimeInv, PrintInv, PrimesOnly
  <2>4. AllKept'
    BY DEF SieveInv, AllKept, Kept, InPipe, Held, Sifted, Dead, Passed, Past
  <2> QED
    BY <2>1, <2>2, <2>3, <2>4 DEF SieveInv
<1>2. ASSUME NEW p \in Procs, Step(p) PROVE SieveInv'
  <2> USE DEF SieveInv
  <2>1. PTypeOK' /\ MainInv' /\ LocalInv' /\ UnreadInv'
    BY <1>2, TypeNext, MainNext, LocalNext, UnreadNext
  <2>2. EndsInv'
    BY <1>2, <2>1, EndsNext
  <2>3. Moved /\ DataInv
    BY <1>2, Moves DEF Moved, DataInv
  <2>4. ItemInv' /\ Grows
    BY <2>1, <2>3, ItemNext
  <2>5. \A k \in 0 .. Last + 1 : Dead(k) => Dead(k)'
    BY <1>2, DeadStays
  <2>6. OrderInv' /\ PrimeInv' /\ AllKept' /\ PrintInv'
    BY <2>1, <2>3, <2>4, <2>5, OrderNext, PrimeNext, AllKeptNext, PrintNext
  <2> QED
    BY <2>1, <2>2, <2>4, <2>6
<1> QED
  BY <1>1, <1>2 DEF Next

-----------------------------------------------------------------------------
\* What is printed when the program is over

\* A prime that has been sifted is the prime of a filter.
LEMMA SiftedPrinted ==
  ASSUME PrimesAssumption, PTypeOK, PrimeInv, NEW n \in 3 .. END, IsPrime(n), Sifted(n)
  PROVE  printed[n] > 0
<1>c. Numeric
  BY NumericHolds
<1> USE <1>c
<1>1. PICK g \in Filters : sl[g] > 0 /\ n % sl[g] = 0
  BY DEF Sifted
<1>2. sl[g] \in Numbers /\ printed[sl[g]] > 0
  BY <1>1 DEF PTypeOK, PrimeInv
<1>3. ~ (sl[g] \in 2 .. n - 1)
  BY <1>1 DEF IsPrime
<1>4. \A s \in Nat : s > n => n % s = n
  OBVIOUS
<1>5. sl[g] = n
  BY <1>1, <1>2, <1>3, <1>4 DEF Numeric
<1> QED
  BY <1>2, <1>5

\* A prime greater than START is odd.
LEMMA PrimeOdd ==
  ASSUME NEW n \in Nat, n >= 3, IsPrime(n)
  PROVE  n % 2 = 1
<1>1. 2 \in 2 .. n - 1
  OBVIOUS
<1>2. n % 2 # 0
  BY <1>1 DEF IsPrime
<1> QED
  BY <1>2

\* A filter that got no number, and that could have got one, is at the end of its
\* pipe when all primes have been printed: the filters before it are over, and a
\* number that has come further would have passed it.
LEMMA EarlyEnd ==
  ASSUME PrimesAssumption, SieveInv
  PROVE  GarbageLast
<1>c. Numeric /\ Last \in Nat
  BY NumericHolds, Constants
<1> USE <1>c DEF SieveInv
<1>1. SUFFICES ASSUME NEW f \in garbage, 0 .. f \subseteq forked, f < made,
                      NEW n \in PrimesTo(END)
               PROVE  printed[n] > 0
  BY DEF GarbageLast
<1>2. /\ f \in Filters /\ Over(f) /\ sl[f] = 0 /\ made \in Int
      /\ \A g \in Filters : g <= f => pc[g] # "none"
  <2>1. f \in Filters /\ Over(f) /\ sl[f] = 0
    BY DEF UnreadInv
  <2>2. made \in Int
    BY DEF PTypeOK, PrimesAssumption
  <2>3. \A g \in Filters : g <= f => g \in 0 .. f
    BY <2>1 DEF Numeric
  <2> QED
    BY <1>1, <2>1, <2>2, <2>3 DEF MainInv
<1>3. \A g \in Filters : g <= f => Over(g)
  <2> DEFINE S == {k \in Nat : k <= f => Over(f - k)}
  <2>1. 0 \in S
    BY <1>2 DEF Numeric
  <2>2. ASSUME NEW k \in S PROVE k + 1 \in S
    <3>1. SUFFICES ASSUME k + 1 <= f PROVE Over(f - (k + 1))
      OBVIOUS
    <3> DEFINE g == f - (k + 1)
    <3>2. g \in Filters /\ g + 1 = f - k /\ g + 1 \in Filters /\ g + 1 < made /\ g <= f
      BY <1>1, <1>2, <3>1 DEF Numeric
    <3>3. Over(g + 1)
      BY <1>2, <3>1, <3>2 DEF Numeric
    <3>4. ~ HasWriter(g + 1)
      BY <3>2, <3>3 DEF EndsInv
    <3>5. ~ (pc[g] \in Active)
      <4>1. Filters \subseteq Procs
        BY Constants
      <4> QED
        BY <3>2, <3>4, <4>1 DEF EndsInv, HasWriter
    <3>6. pc[g] = "exited"
      BY <1>2, <3>2, <3>5 DEF PTypeOK
    <3> QED
      BY <3>6 DEF Over
  <2> HIDE DEF S
  <2>3. S = Nat
    <3>1. S \in SUBSET Nat
      BY DEF S
    <3> QED
      BY <2>1, <2>2, <3>1, NatInd
  <2>4. ASSUME NEW g \in Filters, g <= f PROVE Over(g)
    <3>1. f - g \in S /\ f - g <= f /\ f - (f - g) = g
      BY <1>2, <2>3, <2>4 DEF Numeric
    <3> QED
      BY <3>1 DEF S
  <2> QED
    BY <2>4
<1>4. CASE n = 2
  BY <1>4 DEF PrintInv, START
<1>5. CASE n # 2
  <2>1. n \in 3 .. END /\ IsPrime(n)
    BY <1>5 DEF PrimesTo, Numeric
  <2>2. n % 2 = 1 /\ n \in Numbers /\ n \in START + 1 .. i - 1
    <3>1. i = END + 1
      BY <1>2 DEF MainInv, Passed, Numeric
    <3> QED
      BY <2>1, <3>1, PrimeOdd DEF Numeric, START
  <2>3. \A k : k > f => ~ Past(n, k)
    BY <1>2 DEF Past
  <2>4. ~ (\E k \in Pipes : InPipe(k, n))
    <3>1. SUFFICES ASSUME NEW k \in Pipes, InPipe(k, n) PROVE FALSE
      OBVIOUS
    <3>2. k <= f \/ k > f
      BY <1>2 DEF Numeric
    <3>3. CASE k <= f
      <4>1. k \in Filters
        BY <1>2, <3>3 DEF Numeric
      <4>2. pipe[k] = <<>>
        BY <1>3, <3>3, <4>1 DEF EndsInv
      <4> QED
        BY <3>1, <4>2 DEF InPipe
    <3>4. CASE k > f
      BY <2>2, <2>3, <3>1, <3>4 DEF ItemInv, PipeItem
    <3> QED
      BY <3>2, <3>3, <3>4
  <2>5. ~ (\E g \in Filters : Held(g) /\ cur[g] = n)
    <3>1. SUFFICES ASSUME NEW g \in Filters, Held(g), cur[g] = n PROVE FALSE
      OBVIOUS
    <3>2. g <= f \/ g > f
      BY <1>2 DEF Numeric
    <3>3. CASE g <= f
      BY <1>3, <3>1, <3>3 DEF Over, Held
    <3>4. CASE g > f
      BY <2>3, <3>1, <3>4 DEF ItemInv, HeldItem
    <3> QED
      BY <3>2, <3>3, <3>4
  <2>6. ~ (\E k \in 0 .. Last + 1 : Dead(k) /\ Past(n, k))
    <3>1. SUFFICES ASSUME NEW k \in 0 .. Last + 1, Dead(k), k <= f PROVE FALSE
      BY <1>2, <2>3 DEF Numeric
    <3>2. k \in Filters /\ k < made /\ k <= Last
      BY <1>1, <1>2, <3>1 DEF Numeric
    <3> QED
      BY <1>2, <3>1, <3>2 DEF Dead
  <2>7. Kept(n)
    BY <2>2 DEF AllKept
  <2> QED
    BY <2>1, <2>4, <2>5, <2>6, <2>7, SiftedPrinted DEF Kept
<1> QED
  BY <1>4, <1>5

\* The primes of the filters grow so fast that the last one needs no other.
LEMMA Bound ==
  ASSUME PrimesAssumption, PTypeOK, PrimeInv, NEW g \in Filters, sl[g] > 0, g >= 1
  PROVE  sl[g] >= 3 * g + 1 /\ sl[g] % 2 = 1 /\ sl[0] = 3
<1>c. Numeric
  BY NumericHolds
<1> USE <1>c
<1>t. \A f \in Filters : sl[f] \in Nat
  BY DEF PTypeOK, Numeric
<1>1. /\ 0 \in Filters /\ g \in Nat
      /\ \A f \in Filters : f <= g => sl[f] > 0 /\ sl[f] % 2 = 1
  BY DEF PrimeInv, Numeric
<1>2. sl[0] = 3
  <2>1. ~ (3 \in 3 .. sl[0] - 1)
    BY <1>1 DEF PrimeInv, Numeric
  <2>2. sl[0] >= 2
    <3>1. sl[0] \in {0} \cup Numbers /\ 0 <= g
      BY <1>1 DEF PTypeOK
    <3> QED
      BY <1>1, <3>1 DEF Numeric
  <2> QED
    BY <1>t, <1>1, <2>1, <2>2
<1>3. ASSUME NEW f \in Filters, f <= g, f >= 1
      PROVE  sl[f] > 3 /\ sl[f] % 3 # 0
  <2>1. sl[f] > 0 /\ 0 < f /\ 0 \in Filters
    BY <1>1, <1>3
  <2> QED
    BY <1>2, <2>1 DEF PrimeInv
<1> DEFINE S == {k \in Nat : k >= 1 /\ k <= g => sl[k] >= 3 * k + 1}
<1>4. ASSUME NEW k \in S
      PROVE  k + 1 \in S
  <2>1. CASE ~ (k + 1 <= g)
    BY <2>1
  <2>2. CASE k = 0 /\ k + 1 <= g
    <3>1. 1 \in Filters
      BY <2>2 DEF Numeric
    <3> QED
      BY <1>1, <1>3, <1>t, <2>2, <3>1
  <2>3. CASE k >= 1 /\ k + 1 <= g
    <3>1. k \in Filters /\ k + 1 \in Filters /\ k <= g /\ k < k + 1
      BY <2>3 DEF Numeric
    <3>2. sl[k] >= 3 * k + 1 /\ sl[k] % 2 = 1
      BY <1>1, <2>3, <3>1
    <3>3. sl[k + 1] % 2 = 1 /\ sl[k + 1] % 3 # 0 /\ sl[k] < sl[k + 1]
      BY <1>1, <1>3, <2>3, <3>1 DEF PrimeInv
    <3>4. sl[k] \in Nat /\ sl[k + 1] \in Nat
      BY <1>t, <3>1
    <3>5. sl[k + 1] >= 3 * (k + 1) + 1
      BY <2>3, <3>2, <3>3, <3>4, Sixths
    <3> QED
      BY <3>5
  <2> QED
    BY <2>1, <2>2, <2>3
<1>5. 0 \in S
  OBVIOUS
<1> HIDE DEF S
<1>6. S = Nat
  <2>1. S \in SUBSET Nat
    BY DEF S
  <2> QED
    BY <1>4, <1>5, <2>1, NatInd
<1>7. g \in S
  BY <1>1, <1>6
<1> QED
  BY <1>1, <1>2, <1>7 DEF S

\* The first k filters have different odd primes; when all are less than MAX / 2,
\* there are fewer than Enough.
LEMMA PrimesFew ==
  ASSUME PrimesAssumption, PTypeOK, PrimeInv, PrintInv, NEW k \in Nat, k <= Last + 1,
         \A g \in Filters : g < k => sl[g] > 0 /\ sl[g] < MAX \div 2
  PROVE  k < Enough
<1>c. Numeric /\ MAX \in Nat
  BY NumericHolds DEF PrimesAssumption
<1> USE <1>c
<1> DEFINE T == {n \in PrimesTo(MAX \div 2 - 1) : n # START}
           F == [g \in 0 .. k - 1 |-> sl[g]]
<1>1. IsFiniteSet(T)
  <2>1. MAX \div 2 - 1 \in Int
    OBVIOUS
  <2>2. IsFiniteSet(2 .. MAX \div 2 - 1)
    BY <2>1, FS_Interval
  <2>3. T \in SUBSET (2 .. MAX \div 2 - 1)
    BY DEF PrimesTo
  <2> QED
    BY <2>2, <2>3, FS_Subset
<1>2. \A g \in 0 .. k - 1 : g \in Filters /\ g < k
  BY DEF Numeric
<1>3. ASSUME NEW g \in 0 .. k - 1
      PROVE  sl[g] \in T
  <2>1. sl[g] > 0 /\ sl[g] < MAX \div 2 /\ sl[g] \in Numbers
    BY <1>2 DEF PTypeOK
  <2>2. sl[g] % 2 = 1 /\ printed[sl[g]] > 0
    BY <1>2, <2>1 DEF PrimeInv
  <2>3. IsPrime(sl[g])
    BY <2>1, <2>2 DEF PrintInv, PrimesOnly
  <2>4. sl[g] \in 2 .. MAX \div 2 - 1 /\ sl[g] # START
    BY <2>1, <2>2 DEF Numeric
  <2> QED
    BY <2>3, <2>4 DEF PrimesTo
<1>4. ASSUME NEW g \in 0 .. k - 1, NEW h \in 0 .. k - 1, sl[g] = sl[h]
      PROVE  g = h
  <2>1. \A a, b \in 0 .. k - 1 : a < b => sl[a] < sl[b]
    BY <1>2 DEF PrimeInv
  <2>2. sl[g] \in Int /\ sl[h] \in Int
    BY <1>2 DEF PTypeOK, Numeric
  <2> QED
    BY <1>4, <2>1, <2>2
<1> HIDE DEF T
<1>5. F \in Injection(0 .. k - 1, T)
  BY <1>3, <1>4 DEF Injection, IsInjective
<1>6. Cardinality(0 .. k - 1) <= Cardinality(T)
  BY <1>1, <1>5, FS_Injection
<1>7. Cardinality(0 .. k - 1) = k
  BY FS_Interval
<1>8. Cardinality(T) \in Nat
  BY <1>1, FS_CardinalityType
<1> QED
  BY <1>6, <1>7, <1>8 DEF Enough, T

\* Enough is a number.
LEMMA EnoughNat ==
  ASSUME PrimesAssumption
  PROVE  Enough \in Nat
<1> DEFINE T == {n \in PrimesTo(MAX \div 2 - 1) : n # START}
<1>1. MAX \div 2 - 1 \in Int
  BY DEF PrimesAssumption
<1>2. IsFiniteSet(2 .. MAX \div 2 - 1)
  BY <1>1, FS_Interval
<1>3. T \in SUBSET (2 .. MAX \div 2 - 1)
  BY DEF PrimesTo
<1>4. IsFiniteSet(T)
  BY <1>2, <1>3, FS_Subset
<1> HIDE DEF T
<1>5. Cardinality(T) \in Nat
  BY <1>4, FS_CardinalityType
<1> QED
  BY <1>5 DEF Enough, T

\* When the program is over, a prime that has not been printed would have passed
\* every filter: but then the filters' primes are at least 3 * f + 1, or there
\* are Enough of them.
LEMMA Ended ==
  ASSUME PrimesAssumption, SieveInv
  PROVE  EachPrime
<1>c. /\ Numeric /\ MAX \in Nat
      /\ Last \in Nat /\ 3 * (Last + 1) > END
  BY NumericHolds, Constants DEF PrimesAssumption
<1> USE <1>c DEF SieveInv
<1>1. SUFFICES ASSUME pc[Main] = "exited", forked = Filters, made >= Enough,
                      NEW n \in PrimesTo(END), ~ (printed[n] > 0)
               PROVE  FALSE
  BY DEF EachPrime
<1>2. n \in 3 .. END /\ IsPrime(n)
  <2>1. n \in 2 .. END /\ IsPrime(n)
    BY DEF PrimesTo
  <2>2. n # 2
    BY <1>1 DEF PrintInv, Numeric
  <2> QED
    BY <2>1, <2>2
<1>3. n % 2 = 1 /\ n \in Numbers /\ n \in START + 1 .. i - 1
  <2>1. i = END + 1
    BY <1>1 DEF MainInv
  <2> QED
    BY <1>2, <2>1, PrimeOdd DEF Numeric
<1>4. \A f \in Filters : pc[f] = "exited" /\ pipe[f] = <<>>
  BY <1>1 DEF MainInv, EndsInv, Over
<1>5. ~ Sifted(n)
  BY <1>1, <1>2, SiftedPrinted
<1>6. PICK k \in 0 .. END : Past(n, k) /\ (k > Last \/ k >= made)
  <2>1. Kept(n)
    BY <1>3 DEF AllKept
  <2>2. CASE \E k \in Pipes : InPipe(k, n)
    <3>1. PICK k \in Pipes : InPipe(k, n)
      BY <2>2
    <3>2. k \notin Filters
      BY <1>4, <3>1 DEF InPipe
    <3> QED
      BY <1>3, <3>1, <3>2 DEF ItemInv, PipeItem, Numeric
  <2>3. ~ (\E f \in Filters : Held(f) /\ cur[f] = n)
    BY <1>4 DEF Held
  <2>4. CASE \E k \in 0 .. Last + 1 : Dead(k) /\ Past(n, k)
    <3>1. PICK k \in 0 .. Last + 1 : Dead(k) /\ Past(n, k)
      BY <2>4
    <3>2. k \in 0 .. END
      BY DEF Numeric
    <3>3. k > Last \/ k >= made
      <4>1. k \in Filters => pc[k] # "none"
        BY <1>4
      <4> QED
        BY <3>1, <4>1 DEF Dead, Numeric
    <3> QED
      BY <3>1, <3>2, <3>3
  <2> QED
    BY <1>5, <2>1, <2>2, <2>3, <2>4 DEF Kept
<1>7. \A g \in Filters : g < k => sl[g] > 0 /\ sl[g] < n /\ n % sl[g] # 0 /\ sl[g] < MAX \div 2
  <2>1. \A g \in Filters : sl[g] \in Int
    BY DEF PTypeOK, Numeric
  <2> QED
    BY <1>1, <1>6, <2>1 DEF Past
<1>8. CASE k <= Last
  <2>1. k < Enough
    BY <1>7, <1>8, PrimesFew
  <2>2. made \in Int /\ Enough \in Int
    <3>1. made \in Int
      BY DEF PTypeOK, PrimesAssumption
    <3>2. Enough \in Int
      BY EnoughNat
    <3> QED
      BY <3>1, <3>2
  <2> QED
    BY <1>1, <1>6, <1>8, <2>1, <2>2
<1>9. CASE k > Last
  <2>1. /\ Last \in Filters /\ Last < k /\ sl[Last] \in Nat
        /\ sl[Last] > 0 /\ sl[Last] < n /\ n % sl[Last] # 0
    BY <1>7, <1>9 DEF Numeric, PTypeOK
  <2>2. CASE Last = 0
    BY <1>c, <1>2, <1>3, <2>2 DEF Numeric
  <2>3. CASE Last >= 1
    <3>1. sl[Last] >= 3 * Last + 1 /\ sl[Last] % 2 = 1 /\ sl[0] = 3
      BY <2>1, <2>3, Bound
    <3>2. n % 3 # 0
      <4>1. 0 \in Filters /\ 0 < k
        BY <1>9 DEF Numeric
      <4> QED
        BY <1>7, <3>1, <4>1
    <3>3. n \in Nat
      BY <1>2
    <3>4. n >= 3 * (Last + 1) + 1
      BY <1>3, <2>1, <2>3, <3>1, <3>2, <3>3, Sixths
    <3> QED
      BY <1>c, <1>2, <3>4 DEF Numeric
  <2> QED
    BY <2>2, <2>3
<1> QED
  BY <1>6, <1>8, <1>9

\* The sieve alone: of what comes through the pipes only primes are printed, in the
\* end all of them if every fork() succeeded and the pipes were enough, and what
\* was not read after all of them, if the pipes and filters up to there are whole.
THEOREM SieveSafe ==
  ASSUME PrimesAssumption
  PROVE  Init /\ [][Next]_vars => [](SieveInv /\ PrimesOnly /\ EachPrime /\ GarbageLast)
<1>1. Init => SieveInv
  BY SieveInit
<1>2. SieveInv /\ [Next]_vars => SieveInv'
  BY SieveNext
<1>3. SieveInv => PrimesOnly /\ EachPrime /\ GarbageLast
  BY Ended, EarlyEnd DEF SieveInv, PrintInv
<1> QED
  BY <1>1, <1>2, <1>3, PTL
===============================================================================
