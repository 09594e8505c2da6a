-------------------------- MODULE DiskSchedProofs --------------------------
(***************************************************************************)
(* Proofs about DiskSched.                                                 *)
(***************************************************************************)
EXTENDS DiskSched, ListLemmas, SequenceTheorems, FiniteSetTheorems,
        WellFoundedInduction, TLAPS

-----------------------------------------------------------------------------
(***************************************************************************)
(* list_sort (list.h:363-430).                                             *)
(***************************************************************************)
Entries == [cylinder : Nat, dist : Nat, up : BOOLEAN]

Orders ==
  [policy : {"SSTF", "SCAN", "CSCAN", "LOOK", "CLOOK"}, up : BOOLEAN]

(* The compare functions (disksim.c:246-298) tell apart classes of entries *)
(* that are in a line: of three entries in a row the first does not go     *)
(* behind the last.                                                        *)
LEMMA AfterOrder ==
  \A by \in Orders : \A a, b, c \in Entries :
    /\ After(by, a, b) => ~After(by, b, a)
    /\ ~After(by, a, b) /\ ~After(by, b, c) => ~After(by, a, c)
<1> SUFFICES ASSUME NEW by \in Orders,
                    NEW a \in Entries, NEW b \in Entries, NEW c \in Entries
             PROVE  /\ After(by, a, b) => ~After(by, b, a)
                    /\ ~After(by, a, b) /\ ~After(by, b, c) => ~After(by, a, c)
  OBVIOUS
<1>1. /\ a.dist \in Nat /\ b.dist \in Nat /\ c.dist \in Nat
      /\ a.up \in {TRUE, FALSE} /\ b.up \in {TRUE, FALSE} /\ c.up \in {TRUE, FALSE}
      /\ by.up \in {TRUE, FALSE}
  BY DEF Entries, Orders
<1>2. CASE by.policy = "SSTF"
  <2>1. /\ After(by, a, b) <=> a.dist > b.dist
        /\ After(by, b, a) <=> b.dist > a.dist
        /\ After(by, b, c) <=> b.dist > c.dist
        /\ After(by, a, c) <=> a.dist > c.dist
    BY <1>2 DEF After
  <2>2. QED
    BY <1>1, <2>1
<1>3. CASE by.policy \in {"SCAN", "LOOK"}
  <2>1. \A x, y : After(by, x, y) <=>
          IF x.up = y.up THEN x.dist > y.dist ELSE y.up = by.up
    BY <1>3 DEF After
  <2>2. CASE a.up = b.up /\ b.up = c.up
    BY <1>1, <2>1, <2>2
  <2>3. CASE a.up = b.up /\ b.up # c.up
    BY <1>1, <2>1, <2>3
  <2>4. CASE a.up # b.up /\ b.up = c.up
    BY <1>1, <2>1, <2>4
  <2>5. CASE a.up # b.up /\ b.up # c.up
    BY <1>1, <2>1, <2>5
  <2>6. QED
    BY <2>2, <2>3, <2>4, <2>5
<1>4. CASE by.policy \in {"CSCAN", "CLOOK"}
  <2>1. \A x, y : After(by, x, y) <=>
          IF x.up # y.up THEN y.up = by.up
          ELSE IF x.up = by.up THEN x.dist > y.dist ELSE x.dist < y.dist
    BY <1>4 DEF After
  <2>2. CASE a.up = b.up /\ b.up = c.up
    BY <1>1, <2>1, <2>2
  <2>3. CASE a.up = b.up /\ b.up # c.up
    BY <1>1, <2>1, <2>3
  <2>4. CASE a.up # b.up /\ b.up = c.up
    BY <1>1, <2>1, <2>4
  <2>5. CASE a.up # b.up /\ b.up # c.up
    BY <1>1, <2>1, <2>5
  <2>6. QED
    BY <2>2, <2>3, <2>4, <2>5
<1>5. QED
  BY <1>2, <1>3, <1>4 DEF Orders

NothingMerged == [p |-> 0, q |-> 0, merged |-> << >>]

(* What Merge keeps after each of its first n rounds: such a function       *)
(* exists, as there is no least n without one.                              *)
Merging(job, n, f) ==
  f = [m \in 0..n |-> IF m = 0 THEN NothingMerged ELSE MergeOne(job.by, job.p, job.q, f[m - 1])]

LEMMA MergingFacts ==
  ASSUME NEW job, NEW n \in Nat, NEW f, Merging(job, n, f)
  PROVE  /\ DOMAIN f = 0..n /\ f[0] = NothingMerged
         /\ \A m \in 1..n : f[m] = MergeOne(job.by, job.p, job.q, f[m - 1])
<1> DEFINE g == [m \in 0..n |-> IF m = 0 THEN NothingMerged ELSE MergeOne(job.by, job.p, job.q, f[m - 1])]
<1>1. f = g
  BY Zenon DEF Merging
<1>2. DOMAIN g = 0..n /\ g[0] = NothingMerged
  OBVIOUS
<1>3. ASSUME NEW m \in 1..n
      PROVE  g[m] = MergeOne(job.by, job.p, job.q, f[m - 1])
  <2>1. m \in 0..n /\ m # 0
    OBVIOUS
  <2>2. QED
    BY <2>1, Zenon
<1> HIDE DEF g
<1>4. QED
  BY <1>1, <1>2, <1>3, Zenon

LEMMA MergingExists ==
  ASSUME NEW job, NEW n \in Nat
  PROVE  \E f : Merging(job, n, f)
<1> DEFINE Missing == {m \in Nat : ~ \E f : Merging(job, m, f)}
<1> SUFFICES ASSUME Missing # {} PROVE FALSE
  OBVIOUS
<1>1. PICK m \in Missing : \A i \in Missing : m <= i
  <2>1. Missing \subseteq Nat
    OBVIOUS
  <2> HIDE DEF Missing
  <2>2. QED
    BY <2>1, LeastOf
<1>2. m \in Nat /\ ~ \E f : Merging(job, m, f)
  OBVIOUS
<1>3. m # 0
  <2> DEFINE f == [i \in 0..0 |-> NothingMerged]
  <2>1. [i \in 0..0 |-> IF i = 0 THEN NothingMerged ELSE MergeOne(job.by, job.p, job.q, f[i - 1])] = f
    OBVIOUS
  <2>2. Merging(job, 0, f)
    BY <2>1, Zenon DEF Merging
  <2>3. QED
    BY <1>2, <2>2
<1>4. m - 1 \in Nat /\ m - 1 \notin Missing
  BY <1>1, <1>2, <1>3
<1>5. PICK g : Merging(job, m - 1, g)
  BY <1>4
<1>6. /\ DOMAIN g = 0..m - 1 /\ g[0] = NothingMerged
      /\ \A i \in 1..m - 1 : g[i] = MergeOne(job.by, job.p, job.q, g[i - 1])
  BY <1>4, <1>5, MergingFacts
<1> DEFINE f == [i \in 0..m |-> IF i = m THEN MergeOne(job.by, job.p, job.q, g[m - 1]) ELSE g[i]]
           h == [i \in 0..m |-> IF i = 0 THEN NothingMerged ELSE MergeOne(job.by, job.p, job.q, f[i - 1])]
<1>7. ASSUME NEW i \in 0..m PROVE f[i] = h[i]
  <2>1. CASE i = 0
    BY <1>2, <1>3, <1>6, <2>1
  <2>2. CASE i = m
    <3>1. h[m] = MergeOne(job.by, job.p, job.q, f[m - 1]) /\ m - 1 \in 0..m /\ m - 1 # m
      <4>1. m \in 0..m /\ m - 1 \in 0..m /\ m - 1 # m
        BY <1>2, <1>3
      <4>2. QED
        BY <1>3, <4>1, Zenon
    <3>2. f[m - 1] = g[m - 1]
      BY <3>1, Zenon
    <3>3. QED
      BY <2>2, <3>1, <3>2, Zenon
  <2>3. CASE i # 0 /\ i # m
    <3>1. /\ h[i] = MergeOne(job.by, job.p, job.q, f[i - 1]) /\ i - 1 \in 0..m /\ i - 1 # m
          /\ i \in 1..m - 1 /\ f[i] = g[i]
      <4>1. i - 1 \in 0..m /\ i - 1 # m /\ i \in 1..m - 1
        BY <1>2, <2>3
      <4>2. QED
        BY <2>3, <4>1, Zenon
    <3>2. f[i - 1] = g[i - 1]
      BY <3>1, Zenon
    <3>3. QED
      BY <1>6, <3>1, <3>2, Zenon
  <2>4. QED
    BY <2>1, <2>2, <2>3
<1>8. f = h
  BY <1>7
<1>9. Merging(job, m, f)
  BY <1>8, Zenon DEF Merging
<1>10. QED
  BY <1>2, <1>9

(* Entry x of a list goes ahead of its entry y: the compare function says  *)
(* so, or finds no difference and x is ahead of y in the list.             *)
Ahead(by, list, x, y) ==
  IF x < y THEN ~After(by, list[x], list[y]) ELSE After(by, list[y], list[x])

InOrder(by, list) ==
  \A x, y \in 1..Len(list) : x < y => ~After(by, list[x], list[y])

(* merged are the entries of list, each once, in the order of rho          *)
OrderedBy(by, list, merged, rho) ==
  /\ merged \in Seq(Entries) /\ Len(merged) = Len(list)
  /\ rho \in [1..Len(list) -> 1..Len(list)]
  /\ \A i \in 1..Len(list) : merged[i] = list[rho[i]]
  /\ \A i, j \in 1..Len(list) :
       i < j => rho[i] # rho[j] /\ Ahead(by, list, rho[i], rho[j])

(* after n rounds: where the n entries merged come from, and that they go  *)
(* ahead of one another and of all that are left                           *)
MergedSoFar(by, list, lp, at, n, rho) ==
  /\ at.p \in 0..lp /\ at.q \in 0..Len(list) - lp /\ at.p + at.q = n
  /\ at.merged \in Seq(Entries) /\ Len(at.merged) = n
  /\ rho \in [1..n -> 1..Len(list)]
  /\ \A i \in 1..n : /\ rho[i] <= at.p \/ (lp < rho[i] /\ rho[i] <= lp + at.q)
                     /\ at.merged[i] = list[rho[i]]
  /\ \A i, j \in 1..n :
       i < j => rho[i] # rho[j] /\ Ahead(by, list, rho[i], rho[j])
  /\ \A i \in 1..n : \A x \in 1..Len(list) :
       (at.p < x /\ x <= lp) \/ lp + at.q < x => Ahead(by, list, rho[i], x)

(* the entry that is merged next, and what is left behind it               *)
Takes(by, list, lp, at, to, e) ==
  /\ \/ at.p < lp /\ e = at.p + 1 /\ to.p = at.p + 1 /\ to.q = at.q
     \/ at.q < Len(list) - lp /\ e = lp + at.q + 1 /\ to.p = at.p /\ to.q = at.q + 1
  /\ to.merged = Append(at.merged, list[e])
  /\ \A x \in 1..Len(list) :
       (to.p < x /\ x <= lp) \/ lp + to.q < x => Ahead(by, list, e, x)

(* One round of the inner loop (lines 386-416) merges an entry that goes   *)
(* ahead of all that are left.                                             *)
LEMMA MergeOneTakes ==
  \A by \in Orders : \A p, q \in Seq(Entries) : \A at :
    /\ InOrder(by, p) /\ InOrder(by, q)
    /\ at.p \in 0..Len(p) /\ at.q \in 0..Len(q) /\ at.p + at.q < Len(p) + Len(q)
    => \E e \in 1..Len(p) + Len(q) :
         Takes(by, p \o q, Len(p), at, MergeOne(by, p, q, at), e)
<1> SUFFICES ASSUME NEW by \in Orders,
                    NEW p \in Seq(Entries), NEW q \in Seq(Entries), NEW at,
                    InOrder(by, p), InOrder(by, q),
                    at.p \in 0..Len(p), at.q \in 0..Len(q),
                    at.p + at.q < Len(p) + Len(q)
             PROVE  \E e \in 1..Len(p) + Len(q) :
                      Takes(by, p \o q, Len(p), at, MergeOne(by, p, q, at), e)
  OBVIOUS
<1> DEFINE list == p \o q
           lp == Len(p)
           lq == Len(q)
           to == MergeOne(by, p, q, at)
<1>1. /\ lp \in Nat /\ lq \in Nat
      /\ \A x \in 1..lp : p[x] \in Entries
      /\ \A x \in 1..lq : q[x] \in Entries
  BY LenProperties, ElementOfSeq
<1>2. /\ list \in Seq(Entries) /\ Len(list) = lp + lq
      /\ \A x \in 1..lp : list[x] = p[x]
      /\ \A x \in 1..lq : list[lp + x] = q[x]
  <2>1. /\ list \in Seq(Entries) /\ Len(list) = lp + lq
        /\ \A x \in 1..lp + lq : list[x] = IF x <= lp THEN p[x] ELSE q[x - lp]
    BY ConcatProperties
  <2> HIDE DEF list
  <2>2. \A x \in 1..lp : list[x] = p[x]
    BY <1>1, <2>1
  <2>3. ASSUME NEW x \in 1..lq PROVE list[lp + x] = q[x]
    <3>1. lp + x \in 1..lp + lq /\ ~(lp + x <= lp) /\ (lp + x) - lp = x
      BY <1>1
    <3>2. QED
      BY <2>1, <3>1
  <2>4. QED
    BY <2>1, <2>2, <2>3
<1>3. /\ \A a, b, c \in Entries :
           ~After(by, a, b) /\ ~After(by, b, c) => ~After(by, a, c)
  BY AfterOrder
<1> HIDE DEF list
<1>4. CASE TakesSecond(by, p, q, at)
  <2>1. /\ to.p = at.p /\ to.q = at.q + 1
        /\ to.merged = Append(at.merged, q[at.q + 1])
    BY <1>4 DEF MergeOne
  <2>2. at.q < lq
    BY <1>4, <1>1 DEF TakesSecond
  <2> DEFINE e == lp + at.q + 1
  <2>3. /\ e \in 1..lp + lq /\ list[e] = q[at.q + 1] /\ at.q + 1 \in 1..lq
        /\ q[at.q + 1] \in Entries
    <3>1. at.q + 1 \in 1..lq /\ lp + (at.q + 1) = e /\ e \in 1..lp + lq
      BY <1>1, <2>2
    <3>2. QED
      BY <1>1, <1>2, <3>1
  <2> HIDE DEF to
  <2>4. ASSUME NEW x \in 1..lp, at.p < x
        PROVE  Ahead(by, list, e, x)
    <3>1. at.p + 1 \in 1..lp /\ at.p # lp
      BY <1>1, <2>4
    <3>2. After(by, p[at.p + 1], q[at.q + 1])
      BY <1>4, <3>1 DEF TakesSecond
    <3>3. x = at.p + 1 \/ ~After(by, p[at.p + 1], p[x])
      BY <1>1, <2>4, <3>1 DEF InOrder
    <3>4. After(by, p[x], q[at.q + 1])
      <4>1. p[x] \in Entries /\ p[at.p + 1] \in Entries
        BY <1>1, <3>1
      <4>2. QED
        BY <1>3, <2>3, <3>2, <3>3, <4>1
    <3>5. ~(e < x)
      BY <1>1, <2>3
    <3>6. QED
      BY <1>2, <2>3, <3>4, <3>5 DEF Ahead
  <2>5. ASSUME NEW x \in 1..lp + lq, lp + to.q < x
        PROVE  Ahead(by, list, e, x)
    <3>1. x - lp \in 1..lq /\ lp + (x - lp) = x /\ at.q + 1 < x - lp /\ e < x
      BY <1>1, <2>1, <2>5
    <3>2. ~After(by, q[at.q + 1], q[x - lp])
      BY <2>3, <3>1 DEF InOrder
    <3>3. list[x] = q[x - lp]
      BY <1>2, <3>1
    <3>4. QED
      BY <2>3, <3>1, <3>2, <3>3 DEF Ahead
  <2>6. Takes(by, list, lp, at, to, e)
    <3>1. at.q < Len(list) - lp
      BY <1>1, <1>2, <2>2
    <3>2. ASSUME NEW x \in 1..Len(list), (to.p < x /\ x <= lp) \/ lp + to.q < x
          PROVE  Ahead(by, list, e, x)
      <4>1. x \in 1..lp + lq /\ (x <= lp => x \in 1..lp)
        BY <1>1, <1>2
      <4>2. QED
        BY <2>1, <2>4, <2>5, <3>2, <4>1
    <3>3. QED
      BY <2>1, <2>3, <3>1, <3>2 DEF Takes
  <2>7. QED
    BY <2>3, <2>6 DEF list, to
<1>5. CASE ~TakesSecond(by, p, q, at)
  <2>1. /\ to.p = at.p + 1 /\ to.q = at.q
        /\ to.merged = Append(at.merged, p[at.p + 1])
    BY <1>5 DEF MergeOne
  <2>2. at.p < lp
    BY <1>5, <1>1 DEF TakesSecond
  <2> DEFINE e == at.p + 1
  <2>3. /\ e \in 1..lp + lq /\ e \in 1..lp /\ list[e] = p[e] /\ p[e] \in Entries
    <3>1. e \in 1..lp /\ e \in 1..lp + lq
      BY <1>1, <2>2
    <3>2. QED
      BY <1>1, <1>2, <3>1
  <2> HIDE DEF to
  <2>4. ASSUME NEW x \in 1..lp, e < x
        PROVE  Ahead(by, list, e, x)
    <3>1. ~After(by, p[e], p[x])
      BY <2>3, <2>4 DEF InOrder
    <3>2. QED
      BY <1>2, <2>3, <2>4, <3>1 DEF Ahead
  <2>5. ASSUME NEW x \in 1..lp + lq, lp + at.q < x
        PROVE  Ahead(by, list, e, x)
    <3>0. /\ lp \in Nat /\ lq \in Nat /\ at.q \in Nat /\ at.p \in Nat /\ x \in Nat
          /\ x <= lp + lq /\ lp + at.q < x /\ at.p < lp
      BY <1>1, <2>2, <2>5
    <3>1. /\ x - lp \in 1..lq /\ lp + (x - lp) = x /\ at.q + 1 <= x - lp /\ e < x
          /\ at.q + 1 \in 1..lq /\ at.q < lq
      <4> HIDE DEF lp, lq
      <4>1. QED
        BY <3>0
    <3>2. ~After(by, p[e], q[at.q + 1])
      BY <1>5, <3>1 DEF TakesSecond
    <3>3. x - lp = at.q + 1 \/ ~After(by, q[at.q + 1], q[x - lp])
      <4>1. at.q + 1 < x - lp \/ x - lp = at.q + 1
        BY <3>0, <3>1
      <4>2. QED
        BY <3>1, <4>1 DEF InOrder
    <3>4. ~After(by, p[e], q[x - lp])
      <4>1. q[x - lp] \in Entries /\ q[at.q + 1] \in Entries
        BY <1>1, <3>1
      <4>2. QED
        BY <1>3, <2>3, <3>2, <3>3, <4>1
    <3>5. list[x] = q[x - lp]
      BY <1>2, <3>1
    <3>6. QED
      BY <2>3, <3>1, <3>4, <3>5 DEF Ahead
  <2>6. Takes(by, list, lp, at, to, e)
    <3>1. ASSUME NEW x \in 1..Len(list), (to.p < x /\ x <= lp) \/ lp + to.q < x
          PROVE  Ahead(by, list, e, x)
      <4>1. x \in 1..lp + lq /\ (x <= lp => x \in 1..lp)
        BY <1>1, <1>2
      <4>2. QED
        BY <2>1, <2>4, <2>5, <3>1, <4>1
    <3>2. QED
      BY <2>1, <2>2, <2>3, <3>1 DEF Takes
  <2>7. QED
    BY <2>3, <2>6 DEF list, to
<1>6. QED
  BY <1>4, <1>5

LEMMA TakesOneMore ==
  \A by \in Orders : \A list \in Seq(Entries) : \A lp \in 0..Len(list) :
  \A at, to, rho : \A n \in Nat : \A e \in 1..Len(list) :
    MergedSoFar(by, list, lp, at, n, rho) /\ Takes(by, list, lp, at, to, e)
    => \E r : MergedSoFar(by, list, lp, to, n + 1, r)
<1> SUFFICES ASSUME NEW by \in Orders, NEW list \in Seq(Entries),
                    NEW lp \in 0..Len(list), NEW at, NEW to, NEW rho,
                    NEW n \in Nat, NEW e \in 1..Len(list),
                    MergedSoFar(by, list, lp, at, n, rho),
                    Takes(by, list, lp, at, to, e)
             PROVE  \E r : MergedSoFar(by, list, lp, to, n + 1, r)
  OBVIOUS
<1> DEFINE N == Len(list)
           r == [i \in 1..n + 1 |-> IF i = n + 1 THEN e ELSE rho[i]]
<1>1. N \in Nat /\ lp \in Nat /\ lp <= N /\ list[e] \in Entries
  BY LenProperties, ElementOfSeq
<1>2. /\ at.p \in Nat /\ at.p <= lp /\ at.q \in Nat /\ at.q <= N - lp
      /\ at.p + at.q = n
  BY <1>1 DEF MergedSoFar
<1>3. /\ to.p \in 0..lp /\ to.q \in 0..N - lp /\ to.p + to.q = n + 1
  <2> DEFINE x == to.p
             y == to.q
             u == at.p
             v == at.q
  <2>1. \/ u < lp /\ x = u + 1 /\ y = v
        \/ v < N - lp /\ x = u /\ y = v + 1
    BY DEF Takes
  <2>2. u \in Nat /\ u <= lp /\ v \in Nat /\ v <= N - lp /\ u + v = n
    BY <1>2, Zenon
  <2> HIDE DEF N, x, y, u, v
  <2>3. CASE u < lp /\ x = u + 1 /\ y = v
    <3>1. x \in 0..lp /\ y \in 0..N - lp /\ x + y = n + 1
      BY <1>1, <2>2, <2>3
    <3>2. QED
      BY <3>1, Zenon DEF x, y
  <2>4. CASE v < N - lp /\ x = u /\ y = v + 1
    <3>1. x \in 0..lp /\ y \in 0..N - lp /\ x + y = n + 1
      BY <1>1, <2>2, <2>4
    <3>2. QED
      BY <3>1, Zenon DEF x, y
  <2>5. QED
    BY <2>1, <2>3, <2>4, Zenon
<1>4. /\ to.merged \in Seq(Entries) /\ Len(to.merged) = n + 1
      /\ \A i \in 1..n : to.merged[i] = at.merged[i]
      /\ to.merged[n + 1] = list[e]
  <2>1. at.merged \in Seq(Entries) /\ Len(at.merged) = n
    BY DEF MergedSoFar
  <2>2. to.merged = Append(at.merged, list[e])
    BY DEF Takes
  <2>3. \A t \in Seq(Entries) : \A x \in Entries :
          /\ Append(t, x) \in Seq(Entries) /\ Len(Append(t, x)) = Len(t) + 1
          /\ \A i \in 1..Len(t) : Append(t, x)[i] = t[i]
          /\ Append(t, x)[Len(t) + 1] = x
    BY AppendProperties
  <2> DEFINE t == at.merged
           x == list[e]
  <2>4. /\ Append(t, x) \in Seq(Entries) /\ Len(Append(t, x)) = Len(t) + 1
        /\ \A i \in 1..Len(t) : Append(t, x)[i] = t[i]
        /\ Append(t, x)[Len(t) + 1] = x
    BY <1>1, <2>1, <2>3, Zenon
  <2>5. to.merged = Append(t, x) /\ Len(t) = n
    BY <2>1, <2>2
  <2> HIDE DEF t, x
  <2>6. /\ to.merged \in Seq(Entries) /\ Len(to.merged) = n + 1
        /\ \A i \in 1..n : to.merged[i] = t[i]
        /\ to.merged[n + 1] = x
    BY <2>4, <2>5, Zenon
  <2>7. QED
    BY <2>6, Zenon DEF t, x
<1>5. /\ r[n + 1] = e
      /\ \A i \in 1..n : r[i] = rho[i] /\ rho[i] \in 1..N
  BY DEF MergedSoFar
<1>6. r \in [1..n + 1 -> 1..N]
  BY <1>5
<1> HIDE DEF r
<1>7. /\ e <= to.p \/ (lp < e /\ e <= lp + to.q)
      /\ (at.p < e /\ e <= lp) \/ lp + at.q < e
  BY <1>1, <1>2 DEF Takes
<1>8. to.p >= at.p /\ to.q >= at.q
  BY <1>2 DEF Takes
<1>9. ASSUME NEW i \in 1..n + 1
      PROVE  /\ r[i] <= to.p \/ (lp < r[i] /\ r[i] <= lp + to.q)
             /\ to.merged[i] = list[r[i]]
  <2>1. CASE i = n + 1
    BY <1>4, <1>5, <1>7, <2>1
  <2>2. CASE i # n + 1
    <3>1. i \in 1..n
      BY <2>2
    <3>2. /\ rho[i] <= at.p \/ (lp < rho[i] /\ rho[i] <= lp + at.q)
          /\ at.merged[i] = list[rho[i]]
      BY <3>1 DEF MergedSoFar
    <3>3. r[i] = rho[i] /\ rho[i] \in 1..N
      BY <1>5, <3>1
    <3>4. to.merged[i] = list[r[i]]
      BY <1>4, <3>1, <3>2, <3>3, Zenon
    <3>5. r[i] <= to.p \/ (lp < r[i] /\ r[i] <= lp + to.q)
      <4> DEFINE c == rho[i]
                 x == to.p
                 y == to.q
                 u == at.p
                 v == at.q
      <4>1. /\ c \in Nat /\ x \in Nat /\ y \in Nat /\ u \in Nat /\ v \in Nat
            /\ lp \in Nat
        BY <1>1, <1>2, <1>3, <3>3
      <4>2. x >= u /\ y >= v /\ (c <= u \/ (lp < c /\ c <= lp + v))
        BY <1>8, <3>2, Zenon
      <4> HIDE DEF c, x, y, u, v
      <4>3. c <= x \/ (lp < c /\ c <= lp + y)
        BY <4>1, <4>2
      <4>4. QED
        BY <3>3, <4>3, Zenon DEF c, x, y
    <3>6. QED
      BY <3>4, <3>5
  <2>3. QED
    BY <2>1, <2>2
<1>10. ASSUME NEW i \in 1..n + 1, NEW j \in 1..n + 1, i < j
       PROVE  r[i] # r[j] /\ Ahead(by, list, r[i], r[j])
  <2>1. i \in 1..n /\ r[i] = rho[i] /\ rho[i] \in 1..N
    BY <1>5, <1>10
  <2>2. CASE j = n + 1
    <3>1. r[j] = e
      BY <1>5, <2>2
    <3>2. Ahead(by, list, rho[i], e)
      BY <1>7, <2>1 DEF MergedSoFar
    <3>3. rho[i] <= at.p \/ (lp < rho[i] /\ rho[i] <= lp + at.q)
      BY <2>1 DEF MergedSoFar
    <3>4. rho[i] # e
      <4> DEFINE c == rho[i]
                 u == at.p
                 v == at.q
      <4>1. /\ c \in Nat /\ u \in Nat /\ v \in Nat /\ lp \in Nat /\ e \in Nat
            /\ u <= lp
        BY <1>1, <1>2, <2>1
      <4>2. /\ c <= u \/ (lp < c /\ c <= lp + v)
            /\ (u < e /\ e <= lp) \/ lp + v < e
        BY <1>7, <3>3, Zenon
      <4> HIDE DEF c, u, v
      <4>3. c # e
        BY <4>1, <4>2
      <4>4. QED
        BY <4>3 DEF c
    <3>5. QED
      BY <2>1, <3>1, <3>2, <3>4
  <2>3. CASE j # n + 1
    <3>1. j \in 1..n /\ r[j] = rho[j]
      BY <1>5, <2>3
    <3>2. QED
      BY <1>10, <2>1, <3>1 DEF MergedSoFar
  <2>4. QED
    BY <2>2, <2>3
<1>11. ASSUME NEW i \in 1..n + 1, NEW x \in 1..N,
              (to.p < x /\ x <= lp) \/ lp + to.q < x
       PROVE  Ahead(by, list, r[i], x)
  <2>1. CASE i = n + 1
    BY <1>5, <1>11, <2>1 DEF Takes
  <2>2. CASE i # n + 1
    <3>1. i \in 1..n /\ r[i] = rho[i]
      BY <1>5, <2>2
    <3>2. (at.p < x /\ x <= lp) \/ lp + at.q < x
      <4> DEFINE a == to.p
                 c == to.q
                 u == at.p
                 v == at.q
      <4>1. /\ a \in Nat /\ c \in Nat /\ u \in Nat /\ v \in Nat
            /\ x \in Nat /\ lp \in Nat
        BY <1>1, <1>2, <1>3
      <4>2. a >= u /\ c >= v /\ ((a < x /\ x <= lp) \/ lp + c < x)
        BY <1>8, <1>11, Zenon
      <4> HIDE DEF a, c, u, v
      <4>3. (u < x /\ x <= lp) \/ lp + v < x
        BY <4>1, <4>2
      <4>4. QED
        BY <4>3, Zenon DEF u, v
    <3>3. QED
      BY <3>1, <3>2 DEF MergedSoFar
  <2>3. QED
    BY <2>1, <2>2
<1>12. MergedSoFar(by, list, lp, to, n + 1, r)
  BY <1>3, <1>4, <1>6, <1>9, <1>10, <1>11 DEF MergedSoFar
<1>13. QED
  BY <1>12

(* merging two runs that are in order (lines 385-417) makes one of them,   *)
(* and of two entries that compare equal the one of the first run is ahead *)
LEMMA MergeSorts ==
  \A by \in Orders : \A p, q \in Seq(Entries) :
    InOrder(by, p) /\ InOrder(by, q)
    => \E rho : OrderedBy(by, p \o q, Merge(by, p, q), rho)
<1> SUFFICES ASSUME NEW by \in Orders,
                    NEW p \in Seq(Entries), NEW q \in Seq(Entries),
                    InOrder(by, p), InOrder(by, q)
             PROVE  \E rho : OrderedBy(by, p \o q, Merge(by, p, q), rho)
  OBVIOUS
<1> DEFINE list == p \o q
           lp == Len(p)
           N == Len(p) + Len(q)
           job == [by |-> by, p |-> p, q |-> q]
           f == CHOOSE g : Merging(job, N, g)
<1>1. /\ lp \in Nat /\ N \in Nat /\ list \in Seq(Entries) /\ Len(list) = N
      /\ lp \in 0..Len(list) /\ Len(q) \in Nat
  <2>1. Len(p) \in Nat /\ Len(q) \in Nat
    BY LenProperties
  <2>2. list \in Seq(Entries) /\ Len(list) = N
    BY ConcatProperties
  <2>3. QED
    BY <2>1, <2>2
<1>2. Merge(by, p, q) = f[N].merged
  <2>1. job.by = by /\ job.p = p /\ job.q = q
    OBVIOUS
  <2> HIDE DEF job
  <2>2. Merge(job.by, job.p, job.q) = (CHOOSE g : Merging(job, Len(job.p) + Len(job.q), g))[Len(job.p) + Len(job.q)].merged
    BY DEF Merge, Merging, NothingMerged
  <2>3. QED
    BY <2>1, <2>2
<1>3. /\ f[0] = NothingMerged
      /\ \A m \in 1..N : f[m] = MergeOne(by, p, q, f[m - 1])
  <2>1. Merging(job, N, f)
    BY <1>1, MergingExists
  <2> HIDE DEF f
  <2>2. /\ f[0] = NothingMerged
        /\ \A m \in 1..N : f[m] = MergeOne(job.by, job.p, job.q, f[m - 1])
    BY <1>1, <2>1, MergingFacts
  <2>3. job.by = by /\ job.p = p /\ job.q = q
    OBVIOUS
  <2> HIDE DEF job
  <2>4. QED
    BY <2>2, <2>3
<1> HIDE DEF f, job, list
<1> DEFINE Reached(n) == \E rho : MergedSoFar(by, list, lp, f[n], n, rho)
           Bad == {n \in Nat : n <= N /\ ~Reached(n)}
<1>4. Reached(0)
  <2> DEFINE rho == [i \in 1..0 |-> 1]
  <2>1. NothingMerged.p = 0 /\ NothingMerged.q = 0 /\ NothingMerged.merged = << >>
    BY DEF NothingMerged
  <2>2. << >> \in Seq(Entries) /\ Len(<< >>) = 0
    BY EmptySeq
  <2>3. rho \in [1..0 -> 1..Len(list)]
    OBVIOUS
  <2> HIDE DEF rho
  <2>4. MergedSoFar(by, list, lp, f[0], 0, rho)
    BY <1>1, <1>3, <2>1, <2>2, <2>3 DEF MergedSoFar
  <2>5. QED
    BY <2>4
<1>5. ASSUME NEW n \in Nat, n < N, Reached(n)
      PROVE  Reached(n + 1)
  <2>1. PICK rho : MergedSoFar(by, list, lp, f[n], n, rho)
    BY <1>5
  <2>2. f[n + 1] = MergeOne(by, p, q, f[n])
    <3>1. n + 1 \in 1..N /\ (n + 1) - 1 = n
      BY <1>1, <1>5
    <3>2. QED
      BY <1>3, <3>1
  <2>3. f[n].p \in 0..Len(p) /\ f[n].q \in 0..Len(q) /\ f[n].p + f[n].q < N
    BY <1>1, <1>5, <2>1 DEF MergedSoFar
  <2>4. PICK e \in 1..N : Takes(by, list, lp, f[n], f[n + 1], e)
    BY <2>2, <2>3, MergeOneTakes DEF list
  <2>5. e \in 1..Len(list)
    BY <1>1
  <2>6. QED
    BY <1>1, <2>1, <2>4, <2>5, TakesOneMore
<1>6. Bad = {}
  <2> SUFFICES ASSUME Bad # {} PROVE FALSE
    OBVIOUS
  <2>1. PICK m \in Bad : \A i \in Bad : m <= i
    <3>1. Bad \subseteq Nat
      OBVIOUS
    <3> HIDE DEF Bad
    <3>2. QED
      BY <3>1, LeastOf
  <2>2. m \in Nat /\ m <= N /\ ~Reached(m)
    OBVIOUS
  <2> HIDE DEF Reached
  <2>3. m # 0
    BY <1>4, <2>2
  <2>4. m - 1 \in Nat /\ m - 1 < N /\ (m - 1) + 1 = m /\ Reached(m - 1)
    <3>1. m - 1 \in Nat /\ m - 1 < N /\ (m - 1) + 1 = m /\ ~ (m <= m - 1)
      BY <1>1, <2>2, <2>3
    <3>2. QED
      BY <1>1, <2>1, <3>1
  <2>5. Reached((m - 1) + 1)
    BY <1>5, <2>4
  <2>6. QED
    BY <2>2, <2>4, <2>5
<1>7. PICK rho : MergedSoFar(by, list, lp, f[N], N, rho)
  <2>1. N <= N
    BY <1>1
  <2>2. QED
    BY <1>1, <1>6, <2>1
<1>8. OrderedBy(by, list, f[N].merged, rho)
  BY <1>1, <1>7 DEF MergedSoFar, OrderedBy
<1>9. QED
  BY <1>2, <1>8 DEF list

-----------------------------------------------------------------------------
(***************************************************************************)
(* One pass.  Entry i lies in run k of s entries; the pair m of runs lies  *)
(* behind Before(m, s) entries.                                            *)
(***************************************************************************)
InRun(k, s, i) == k * s < i /\ i <= k * s + s

Before(m, s) == (m - 1) * (2 * s)

(* how many entries of n are among the s behind the first a                *)
Reaching(n, a, s) == IF a + s <= n THEN s ELSE IF a <= n THEN n - a ELSE 0

LEMMA Offsets ==
  \A m \in Nat \ {0}, s \in Nat :
    /\ Before(m, s) \in Nat
    /\ (2 * m - 2) * s = Before(m, s) /\ (2 * m - 1) * s = Before(m, s) + s
    /\ (2 * m - 2) \in Nat /\ (2 * m - 1) \in Nat
    /\ m * (2 * s) = Before(m, s) + 2 * s
    /\ Before(m + 1, s) = Before(m, s) + 2 * s
BY SMT DEF Before

LEMMA Products ==
  /\ \A k, m, t \in Nat : k < m => k * t + t <= m * t
  /\ \A k, t \in Nat : k * t \in Nat
  /\ \A k, s \in Nat : /\ (2 * k) * s = k * (2 * s)
                       /\ (2 * k + 1) * s = k * (2 * s) + s
<1>1. \A k, m, t \in Nat : k < m => k * t + t <= m * t
  <2>1. \A d, k, t \in Nat : (k + 1 + d) * t = k * t + t + d * t /\ d * t >= 0
    BY SMT
  <2>2. ASSUME NEW k \in Nat, NEW m \in Nat, NEW t \in Nat, k < m
        PROVE  k * t + t <= m * t
    <3>1. m - (k + 1) \in Nat /\ k + 1 + (m - (k + 1)) = m
      BY <2>2
    <3>2. /\ m * t = k * t + t + (m - (k + 1)) * t /\ (m - (k + 1)) * t >= 0
      BY <2>1, <3>1
    <3>3. k * t \in Nat /\ (m - (k + 1)) * t \in Nat
      BY <3>1
    <3>4. QED
      BY <3>2, <3>3
  <2>3. QED
    BY <2>2
<1>2. \A k, t \in Nat : k * t \in Nat
  OBVIOUS
<1>3. \A k, s \in Nat : /\ (2 * k) * s = k * (2 * s)
                        /\ (2 * k + 1) * s = k * (2 * s) + s
  BY SMT
<1>4. QED
  BY <1>1, <1>2, <1>3

(* an entry lies in one run                                                *)
LEMMA OneRun ==
  \A k, m, t, i \in Nat : InRun(k, t, i) /\ InRun(m, t, i) => k = m
<1> SUFFICES ASSUME NEW k \in Nat, NEW m \in Nat, NEW t \in Nat, NEW i \in Nat,
                    InRun(k, t, i), InRun(m, t, i), k # m
             PROVE  FALSE
  OBVIOUS
<1>1. k * t \in Nat /\ m * t \in Nat
  BY Products
<1>2. CASE k < m
  BY <1>1, <1>2, Products DEF InRun
<1>3. CASE m < k
  BY <1>1, <1>3, Products DEF InRun
<1>4. QED
  BY <1>2, <1>3

(* every entry of the list lies in a pair, and every pair has an entry     *)
LEMMA PairsCover ==
  \A list, s : s \in Nat \ {0} /\ Len(list) \in Nat \ {0} =>
    /\ Pairs(list, s) \in Nat \ {0}
    /\ Len(list) <= Pairs(list, s) * (2 * s)
    /\ \A m \in 1..Pairs(list, s) : Before(m, s) < Len(list)
    /\ \A i \in 1..Len(list) : \E m \in 1..Pairs(list, s) :
         InRun(m - 1, 2 * s, i)
<1> SUFFICES ASSUME NEW list, NEW s \in Nat \ {0}, Len(list) \in Nat \ {0}
             PROVE  /\ Pairs(list, s) \in Nat \ {0}
                    /\ Len(list) <= Pairs(list, s) * (2 * s)
                    /\ \A m \in 1..Pairs(list, s) : Before(m, s) < Len(list)
                    /\ \A i \in 1..Len(list) : \E m \in 1..Pairs(list, s) :
                         InRun(m - 1, 2 * s, i)
  OBVIOUS
<1> DEFINE N == Len(list)
           t == 2 * s
           P == Pairs(list, s)
<1>1. N \in Nat \ {0} /\ t \in Nat \ {0}
  OBVIOUS
<1>2. \A x \in Nat : \A y \in Nat \ {0} :
        /\ x \div y \in Nat /\ (x \div y) * y <= x /\ x < (x \div y) * y + y
  BY SMT
<1>3. P = (N + t - 1) \div t
  BY DEF Pairs
<1> HIDE DEF P, N, t
<1>4. P \in Nat /\ P * t <= N + t - 1 /\ N + t - 1 < P * t + t
  <2>1. N + t - 1 \in Nat
    BY <1>1
  <2>2. QED
    BY <1>1, <1>2, <1>3, <2>1
<1>5. P # 0
  <2>1. 0 * t = 0
    BY <1>1
  <2>2. QED
    BY <1>1, <1>4, <2>1
<1>6. N <= P * t
  <2>1. P * t \in Nat
    BY <1>1, <1>4, Products
  <2>2. QED
    BY <1>1, <1>4, <2>1
<1>7. ASSUME NEW m \in 1..P
      PROVE  (m - 1) * t < N
  <2>1. m - 1 \in Nat /\ m - 1 < P
    BY <1>4
  <2>2. (m - 1) * t + t <= P * t /\ (m - 1) * t \in Nat /\ P * t \in Nat
    BY <1>1, <1>4, <2>1, Products
  <2>3. QED
    BY <1>1, <1>4, <2>2
<1>8. ASSUME NEW i \in 1..N
      PROVE  \E m \in 1..P : InRun(m - 1, t, i)
  <2> DEFINE k == (i - 1) \div t
  <2>1. k \in Nat /\ k * t <= i - 1 /\ i - 1 < k * t + t
    <3>1. i - 1 \in Nat
      BY <1>1
    <3>2. QED
      BY <1>1, <1>2, <3>1
  <2> HIDE DEF k
  <2>2. k * t \in Nat /\ P * t \in Nat
    BY <1>1, <1>4, <2>1, Products
  <2>3. InRun(k, t, i)
    BY <1>1, <2>1, <2>2 DEF InRun
  <2>4. k < P
    <3>1. CASE P < k
      <4>1. P * t + t <= k * t
        BY <1>1, <1>4, <2>1, <3>1, Products
      <4>2. QED
        BY <1>1, <1>6, <2>1, <2>2, <4>1
    <3>2. CASE P = k
      BY <1>1, <1>6, <2>1, <2>2, <3>2
    <3>3. QED
      BY <1>4, <2>1, <3>1, <3>2
  <2>5. k + 1 \in 1..P /\ (k + 1) - 1 = k
    BY <1>4, <2>1, <2>4
  <2>6. QED
    BY <2>3, <2>5
<1>9. \A m \in 1..P : Before(m, s) < N
  BY <1>7 DEF Before, t
<1>10. QED
  BY <1>4, <1>5, <1>6, <1>8, <1>9 DEF P, N, t

LEMMA RunFacts ==
  \A list \in Seq(Entries) : \A a, n \in Nat :
    /\ Run(list, a + 1, n) \in Seq(Entries)
    /\ Len(Run(list, a + 1, n)) = Reaching(Len(list), a, n)
    /\ \A i \in 1..Reaching(Len(list), a, n) :
         Run(list, a + 1, n)[i] = list[a + i]
<1> SUFFICES ASSUME NEW list \in Seq(Entries), NEW a \in Nat, NEW n \in Nat
             PROVE  /\ Run(list, a + 1, n) \in Seq(Entries)
                    /\ Len(Run(list, a + 1, n)) = Reaching(Len(list), a, n)
                    /\ \A i \in 1..Reaching(Len(list), a, n) :
                         Run(list, a + 1, n)[i] = list[a + i]
  OBVIOUS
<1> DEFINE b == IF a + n < Len(list) THEN a + n ELSE Len(list)
<1>1. Len(list) \in Nat /\ \A i \in 1..Len(list) : list[i] \in Entries
  BY LenProperties, ElementOfSeq
<1>2. Run(list, a + 1, n) = SubSeq(list, a + 1, b)
  <2>1. (a + 1) + n - 1 = a + n
    OBVIOUS
  <2>2. QED
    BY <2>1 DEF Run
<1>3. b \in Nat /\ b <= Len(list)
  BY <1>1
<1> HIDE DEF b
<1>4. \A i \in a + 1..b : list[i] \in Entries
  BY <1>1, <1>3
<1>5. /\ SubSeq(list, a + 1, b) \in Seq(Entries)
      /\ Len(SubSeq(list, a + 1, b)) = IF a + 1 <= b THEN b - (a + 1) + 1 ELSE 0
      /\ \A i \in 1..b - (a + 1) + 1 :
           SubSeq(list, a + 1, b)[i] = list[(a + 1) + i - 1]
  BY <1>1, <1>3, <1>4, SubSeqProperties
<1>6. (IF a + 1 <= b THEN b - (a + 1) + 1 ELSE 0) = Reaching(Len(list), a, n)
  BY <1>1 DEF b, Reaching
<1>7. ASSUME NEW i \in 1..Reaching(Len(list), a, n)
      PROVE  i \in 1..b - (a + 1) + 1 /\ (a + 1) + i - 1 = a + i
  BY <1>1 DEF b, Reaching
<1>8. \A i \in 1..Reaching(Len(list), a, n) :
        SubSeq(list, a + 1, b)[i] = list[a + i]
  BY <1>5, <1>7, Zenon
<1>9. QED
  BY <1>2, <1>5, <1>6, <1>8

(* within its runs of s entries the list is in order                       *)
RunsInOrder(by, list, s) ==
  \A k \in Nat : \A x, y \in 1..Len(list) :
    InRun(k, s, x) /\ InRun(k, s, y) /\ x < y => ~After(by, list[x], list[y])

(* merged are the w entries of list behind the first b                     *)
PairMerged(by, list, b, w, merged, rho) ==
  /\ merged \in Seq(Entries) /\ Len(merged) = w
  /\ rho \in [1..w -> 1..w]
  /\ \A i \in 1..w : merged[i] = list[b + rho[i]]
  /\ \A i, j \in 1..w :
       i < j => rho[i] # rho[j] /\ Ahead(by, list, b + rho[i], b + rho[j])

FirstRun(list, s, m) == Run(list, (2 * m - 2) * s + 1, s)
SecondRun(list, s, m) == Run(list, (2 * m - 1) * s + 1, s)

LEMMA RunsOfPair ==
  ASSUME NEW by \in Orders, NEW list \in Seq(Entries),
         NEW s \in Nat \ {0}, NEW m \in Nat \ {0},
         RunsInOrder(by, list, s), Before(m, s) < Len(list)
  PROVE  LET b == Before(m, s)
             p == FirstRun(list, s, m)
             q == SecondRun(list, s, m)
         IN /\ p \in Seq(Entries) /\ q \in Seq(Entries)
            /\ InOrder(by, p) /\ InOrder(by, q)
            /\ Len(p \o q) = Reaching(Len(list), b, 2 * s)
            /\ \A i \in 1..Len(p \o q) : (p \o q)[i] = list[b + i]
<1> DEFINE N == Len(list)
           b == Before(m, s)
           p == FirstRun(list, s, m)
           q == SecondRun(list, s, m)
<1>0. /\ Before(m, s) \in Nat
      /\ (2 * m - 2) * s = Before(m, s) /\ (2 * m - 1) * s = Before(m, s) + s
      /\ (2 * m - 2) \in Nat /\ (2 * m - 1) \in Nat
  <2>1. m \in Nat \ {0} /\ s \in Nat
    OBVIOUS
  <2>2. QED
    BY <2>1, Offsets, Zenon
<1>1. /\ N \in Nat /\ s \in Nat \ {0} /\ b \in Nat /\ b < N
      /\ (2 * m - 2) * s = b /\ (2 * m - 1) * s = b + s /\ b + s \in Nat
      /\ 2 * m - 2 \in Nat /\ 2 * m - 1 \in Nat
  <2>1. Len(list) \in Nat
    BY LenProperties
  <2> DEFINE c == Before(m, s)
  <2>2. c \in Nat
    BY <1>0
  <2> HIDE DEF c
  <2>3. c + s \in Nat
    BY <2>2
  <2>4. QED
    BY <1>0, <2>1, <2>2, <2>3 DEF c
<1>2. /\ p \in Seq(Entries) /\ Len(p) = Reaching(N, b, s)
      /\ \A i \in 1..Reaching(N, b, s) : p[i] = list[b + i]
  <2>1. p = Run(list, b + 1, s)
    BY <1>1, Zenon DEF FirstRun
  <2> HIDE DEF p, b
  <2>2. s \in Nat /\ b \in Nat
    BY <1>1
  <2>3. /\ Run(list, b + 1, s) \in Seq(Entries)
        /\ Len(Run(list, b + 1, s)) = Reaching(N, b, s)
        /\ \A i \in 1..Reaching(N, b, s) :
             Run(list, b + 1, s)[i] = list[b + i]
    BY <2>2, RunFacts, Zenon
  <2>4. QED
    BY <2>1, <2>3, Zenon
<1>3. /\ q \in Seq(Entries) /\ Len(q) = Reaching(N, b + s, s)
      /\ \A i \in 1..Reaching(N, b + s, s) : q[i] = list[b + s + i]
  <2>1. q = Run(list, b + s + 1, s)
    BY <1>1, Zenon DEF SecondRun
  <2> HIDE DEF q, b
  <2>2. s \in Nat /\ b + s \in Nat
    BY <1>1
  <2>3. /\ Run(list, b + s + 1, s) \in Seq(Entries)
        /\ Len(Run(list, b + s + 1, s)) = Reaching(N, b + s, s)
        /\ \A i \in 1..Reaching(N, b + s, s) :
             Run(list, b + s + 1, s)[i] = list[b + s + i]
    BY <2>2, RunFacts, Zenon
  <2>4. QED
    BY <2>1, <2>3, Zenon
<1> HIDE DEF p, q, b, N
<1>4. InOrder(by, p)
  <2> SUFFICES ASSUME NEW x \in 1..Len(p), NEW y \in 1..Len(p), x < y
               PROVE  ~After(by, p[x], p[y])
    BY DEF InOrder
  <2>1. /\ x \in 1..Reaching(N, b, s) /\ y \in 1..Reaching(N, b, s)
    BY <1>2
  <2>2. /\ b + x \in 1..N /\ b + y \in 1..N /\ b + x < b + y
        /\ b < b + x /\ b + x <= b + s /\ b < b + y /\ b + y <= b + s
    BY <1>1, <2>1 DEF Reaching
  <2>3. InRun(2 * m - 2, s, b + x) /\ InRun(2 * m - 2, s, b + y)
    BY <1>1, <2>2 DEF InRun
  <2>4. ~After(by, list[b + x], list[b + y])
    BY <1>1, <2>2, <2>3 DEF RunsInOrder, N
  <2>5. QED
    BY <1>2, <2>1, <2>4
<1>5. InOrder(by, q)
  <2> SUFFICES ASSUME NEW x \in 1..Len(q), NEW y \in 1..Len(q), x < y
               PROVE  ~After(by, q[x], q[y])
    BY DEF InOrder
  <2>1. /\ x \in 1..Reaching(N, b + s, s) /\ y \in 1..Reaching(N, b + s, s)
    BY <1>3
  <2>2. /\ b + s + x \in 1..N /\ b + s + y \in 1..N /\ b + s + x < b + s + y
        /\ b + s < b + s + x /\ b + s + x <= b + s + s
        /\ b + s < b + s + y /\ b + s + y <= b + s + s
    BY <1>1, <2>1 DEF Reaching
  <2>3. InRun(2 * m - 1, s, b + s + x) /\ InRun(2 * m - 1, s, b + s + y)
    BY <1>1, <2>2 DEF InRun
  <2>4. ~After(by, list[b + s + x], list[b + s + y])
    BY <1>1, <2>2, <2>3 DEF RunsInOrder, N
  <2>5. QED
    BY <1>3, <2>1, <2>4
<1>6. /\ Len(p \o q) = Len(p) + Len(q)
      /\ \A i \in 1..Len(p) + Len(q) :
           (p \o q)[i] = IF i <= Len(p) THEN p[i] ELSE q[i - Len(p)]
  BY <1>2, <1>3, ConcatProperties
<1>7. Len(p) + Len(q) = Reaching(N, b, 2 * s)
  BY <1>1, <1>2, <1>3 DEF Reaching
<1>8. ASSUME NEW i \in 1..Len(p) + Len(q)
      PROVE  (p \o q)[i] = list[b + i]
  <2>1. Len(p) \in Nat /\ Len(q) \in Nat
    BY <1>2, <1>3, LenProperties
  <2>2. CASE i <= Len(p)
    <3>1. i \in 1..Reaching(N, b, s)
      BY <1>2, <2>1, <2>2
    <3>2. QED
      BY <1>2, <1>6, <2>2, <3>1
  <2>3. CASE ~(i <= Len(p))
    <3>1. i - Len(p) \in 1..Reaching(N, b + s, s)
      BY <1>3, <2>1, <2>3
    <3>2. Len(p) = s
      BY <1>1, <1>2, <1>3, <3>1 DEF Reaching
    <3>3. b + s + (i - Len(p)) = b + i
      BY <1>1, <3>2
    <3>4. q[i - Len(p)] = list[b + i]
      BY <1>3, <3>1, <3>3
    <3>5. QED
      BY <1>6, <2>3, <3>4
  <2>4. QED
    BY <2>2, <2>3
<1>9. QED
  BY <1>2, <1>3, <1>4, <1>5, <1>6, <1>7, <1>8 DEF p, q, b, N

LEMMA PairMerges ==
  \A by \in Orders : \A list \in Seq(Entries) : \A s \in Nat \ {0} :
  \A m \in Nat \ {0} :
    RunsInOrder(by, list, s) /\ Before(m, s) < Len(list) =>
      \E rho : PairMerged(by, list, Before(m, s), Reaching(Len(list), Before(m, s), 2 * s),
                          Merge(by, FirstRun(list, s, m), SecondRun(list, s, m)), rho)
<1> SUFFICES ASSUME NEW by \in Orders, NEW list \in Seq(Entries),
                    NEW s \in Nat \ {0}, NEW m \in Nat \ {0},
                    RunsInOrder(by, list, s), Before(m, s) < Len(list)
             PROVE  \E rho : PairMerged(by, list, Before(m, s),
                               Reaching(Len(list), Before(m, s), 2 * s),
                               Merge(by, FirstRun(list, s, m), SecondRun(list, s, m)), rho)
  OBVIOUS
<1> DEFINE b == Before(m, s)
           p == FirstRun(list, s, m)
           q == SecondRun(list, s, m)
           c == p \o q
           w == Reaching(Len(list), b, 2 * s)
<1>1. /\ p \in Seq(Entries) /\ q \in Seq(Entries)
      /\ InOrder(by, p) /\ InOrder(by, q)
      /\ Len(c) = w
      /\ \A i \in 1..Len(c) : c[i] = list[b + i]
  BY RunsOfPair
<1>2. b \in Nat /\ w \in Nat
  <2>1. m \in Nat \ {0} /\ s \in Nat /\ 2 * s \in Nat /\ Len(list) \in Nat
    BY LenProperties
  <2>2. b \in Nat
    BY <2>1, Offsets, Zenon
  <2> HIDE DEF b
  <2>3. w \in Nat
    BY <2>1, <2>2 DEF Reaching
  <2>4. QED
    BY <2>2, <2>3
<1> HIDE DEF p, q, w, b
<1>3. PICK rho : OrderedBy(by, c, Merge(by, p, q), rho)
  BY <1>1, MergeSorts
<1> HIDE DEF c
<1>4. /\ Merge(by, p, q) \in Seq(Entries) /\ Len(Merge(by, p, q)) = w
      /\ rho \in [1..w -> 1..w]
      /\ \A i \in 1..w : Merge(by, p, q)[i] = c[rho[i]]
      /\ \A i, j \in 1..w :
           i < j => rho[i] # rho[j] /\ Ahead(by, c, rho[i], rho[j])
  BY <1>1, <1>3 DEF OrderedBy
<1>5. \A i \in 1..w : rho[i] \in 1..w /\ c[rho[i]] = list[b + rho[i]]
  BY <1>1, <1>4
<1>6. ASSUME NEW i \in 1..w, NEW j \in 1..w, i < j
      PROVE  Ahead(by, list, b + rho[i], b + rho[j])
  <2>1. rho[i] < rho[j] <=> b + rho[i] < b + rho[j]
    BY <1>2, <1>5
  <2>2. Ahead(by, c, rho[i], rho[j])
    BY <1>4, <1>6
  <2>3. QED
    BY <1>5, <2>1, <2>2 DEF Ahead
<1>7. PairMerged(by, list, b, w, Merge(by, p, q), rho)
  BY <1>4, <1>5, <1>6 DEF PairMerged
<1>8. QED
  BY <1>7 DEF p, q, w, b

(* a pass puts the merged pairs one behind the other                       *)
PairOf(by, list, s, m) == Merge(by, FirstRun(list, s, m), SecondRun(list, s, m))

PutTogether(by, list, s, n, new) ==
  /\ Len(new) = IF n * (2 * s) <= Len(list) THEN n * (2 * s) ELSE Len(list)
  /\ \A m \in 1..n : \A x \in 1..Reaching(Len(list), Before(m, s), 2 * s) :
       new[Before(m, s) + x] = PairOf(by, list, s, m)[x]

LEMMA OnePairMore ==
  \A by, list : \A s \in Nat \ {0} : \A n \in Nat : \A new, part \in Seq(Entries) :
    /\ Len(list) \in Nat /\ n * (2 * s) < Len(list)
    /\ PutTogether(by, list, s, n, new)
    /\ part = PairOf(by, list, s, n + 1)
    /\ Len(part) = Reaching(Len(list), Before(n + 1, s), 2 * s)
    => PutTogether(by, list, s, n + 1, new \o part)
<1> SUFFICES ASSUME NEW by, NEW list, NEW s \in Nat \ {0}, NEW n \in Nat,
                    NEW new \in Seq(Entries), NEW part \in Seq(Entries),
                    Len(list) \in Nat, n * (2 * s) < Len(list),
                    PutTogether(by, list, s, n, new),
                    part = PairOf(by, list, s, n + 1),
                    Len(part) = Reaching(Len(list), Before(n + 1, s), 2 * s)
             PROVE  PutTogether(by, list, s, n + 1, new \o part)
  OBVIOUS
<1> DEFINE N == Len(list)
           t == 2 * s
           a == n * t
           W(m) == Reaching(N, Before(m, s), t)
<1>1. /\ t \in Nat \ {0} /\ a \in Nat /\ N \in Nat /\ n + 1 \in Nat
      /\ (n + 1) * t = a + t
  BY SMT
<1>2. Before(n + 1, s) = a
  <2>1. (n + 1) - 1 = n
    OBVIOUS
  <2>2. QED
    BY <2>1 DEF Before
<1>3. Len(new) = a
  BY DEF PutTogether
<1>4. /\ Len(new \o part) = a + W(n + 1)
      /\ \A i \in 1..a + W(n + 1) :
           (new \o part)[i] = IF i <= a THEN new[i] ELSE part[i - a]
  <2>1. \A u, v \in Seq(Entries) :
          /\ Len(u \o v) = Len(u) + Len(v)
          /\ \A i \in 1..Len(u) + Len(v) :
               (u \o v)[i] = IF i <= Len(u) THEN u[i] ELSE v[i - Len(u)]
    BY ConcatProperties
  <2>2. Len(part) = W(n + 1)
    OBVIOUS
  <2>3. /\ Len(new \o part) = Len(new) + Len(part)
        /\ \A i \in 1..Len(new) + Len(part) :
             (new \o part)[i] = IF i <= Len(new) THEN new[i] ELSE part[i - Len(new)]
    BY <2>1, Zenon
  <2> HIDE DEF W, a
  <2>4. QED
    BY <2>2, <2>3, <1>3, Zenon
<1>5. W(n + 1) = IF a + t <= N THEN t ELSE N - a
  BY <1>1, <1>2 DEF Reaching
<1> HIDE DEF a, N, t
<1>6. a + W(n + 1) = IF (n + 1) * t <= N THEN (n + 1) * t ELSE N
  <2> DEFINE v == W(n + 1)
             e == (n + 1) * t
  <2>1. /\ v = IF a + t <= N THEN t ELSE N - a
        /\ e = a + t /\ t \in Nat /\ a \in Nat /\ N \in Nat
    BY <1>1, <1>5, Zenon
  <2> HIDE DEF v, e
  <2>2. a + v = IF e <= N THEN e ELSE N
    BY <2>1
  <2>3. QED
    BY <2>2 DEF v, e
<1>7. W(n + 1) \in Nat
  BY <1>1, <1>5 DEF a, N, t
<1>8. ASSUME NEW m \in 1..n + 1, NEW x \in 1..W(m)
      PROVE  (new \o part)[Before(m, s) + x] = PairOf(by, list, s, m)[x]
  <2>1. CASE m = n + 1
    <3>1. x \in 1..W(n + 1)
      BY <2>1
    <3>2. /\ a + x \in 1..a + W(n + 1) /\ ~(a + x <= a) /\ (a + x) - a = x
      BY <1>1, <1>7, <3>1
    <3>3. (new \o part)[a + x] = part[x]
      BY <1>4, <3>2, Zenon
    <3>4. QED
      BY <1>2, <2>1, <3>3, Zenon
  <2>2. CASE m # n + 1
    <3>1. m \in 1..n /\ m - 1 \in Nat /\ m - 1 < n
      BY <2>2
    <3>2. Before(m, s) \in Nat /\ Before(m, s) + t <= a
      <4>1. (m - 1) * t + t <= n * t /\ (m - 1) * t \in Nat
        BY <1>1, <3>1, Products
      <4>2. QED
        BY <4>1 DEF Before, a, t
    <3>3. W(m) <= t /\ W(m) \in Nat
      BY <1>1, <3>2 DEF Reaching
    <3>4. Before(m, s) + x \in 1..a + W(n + 1) /\ Before(m, s) + x <= a
      <4> DEFINE b == Before(m, s)
                 w == W(m)
                 v == W(n + 1)
      <4>1. x \in 1..w /\ w <= t /\ w \in Nat /\ b \in Nat /\ b + t <= a /\ v \in Nat
        BY <1>7, <3>2, <3>3
      <4> HIDE DEF b, w, v
      <4>2. b + x \in 1..a + v /\ b + x <= a
        BY <1>1, <4>1
      <4>3. QED
        BY <4>2 DEF b, v
    <3>5. (new \o part)[Before(m, s) + x] = new[Before(m, s) + x]
      BY <1>4, <3>4, Zenon
    <3>6. x \in 1..Reaching(Len(list), Before(m, s), 2 * s)
      BY DEF N, t
    <3>7. new[Before(m, s) + x] = PairOf(by, list, s, m)[x]
      BY <3>1, <3>6, Zenon DEF PutTogether
    <3>8. QED
      BY <3>5, <3>7
  <2>3. QED
    BY <2>1, <2>2
<1>9. QED
  BY <1>4, <1>6, <1>8 DEF PutTogether, N, t

LEMMA PassPutsTogether ==
  \A by \in Orders : \A list \in Seq(Entries) : \A s \in Nat \ {0} :
    RunsInOrder(by, list, s) /\ Len(list) # 0 =>
      /\ Pass(by, list, s) \in Seq(Entries)
      /\ PutTogether(by, list, s, Pairs(list, s), Pass(by, list, s))
<1> SUFFICES ASSUME NEW by \in Orders, NEW list \in Seq(Entries),
                    NEW s \in Nat \ {0}, RunsInOrder(by, list, s), Len(list) # 0
             PROVE  /\ Pass(by, list, s) \in Seq(Entries)
                    /\ PutTogether(by, list, s, Pairs(list, s), Pass(by, list, s))
  OBVIOUS
<1> DEFINE P == Pairs(list, s)
           parts == [m \in 1..P |-> PairOf(by, list, s, m)]
<1>1. /\ Len(list) \in Nat \ {0} /\ P \in Nat \ {0}
      /\ \A m \in 1..P : Before(m, s) < Len(list)
  <2>1. Len(list) \in Nat \ {0}
    BY LenProperties
  <2>2. QED
    BY <2>1, PairsCover, Zenon
<1> HIDE DEF P
<1>2. ASSUME NEW m \in 1..P
      PROVE  /\ PairOf(by, list, s, m) \in Seq(Entries)
             /\ Len(PairOf(by, list, s, m)) = Reaching(Len(list), Before(m, s), 2 * s)
  <2>1. m \in Nat \ {0}
    BY <1>1
  <2>2. \E rho : PairMerged(by, list, Before(m, s), Reaching(Len(list), Before(m, s), 2 * s),
                            Merge(by, FirstRun(list, s, m), SecondRun(list, s, m)), rho)
    BY <1>1, <2>1, PairMerges, Zenon
  <2>3. QED
    BY <2>2, Zenon DEF PairMerged, PairOf
<1>3. parts \in [1..P -> Seq(Entries)]
  BY <1>2
<1>4. Pass(by, list, s) = FlattenSeq(parts)
  BY DEF Pass, P, PairOf, FirstRun, SecondRun
<1>5. \A m \in 1..P : parts[m] = PairOf(by, list, s, m)
  OBVIOUS
<1> HIDE DEF parts
<1>6. PICK g : Flattening(Entries, parts, P, g)
  BY <1>1, <1>3, FlattenSeqFacts
<1>7. /\ g \in [0..P -> Seq(Entries)] /\ g[0] = << >>
      /\ \A i \in 1..P : g[i] = g[i - 1] \o parts[i]
      /\ FlattenSeq(parts) = g[P]
  BY <1>6 DEF Flattening
<1> DEFINE Bad == {n \in Nat : n <= P /\ ~PutTogether(by, list, s, n, g[n])}
<1>8. PutTogether(by, list, s, 0, g[0])
  <2>1. 0 * (2 * s) = 0 /\ 0 <= Len(list)
    BY <1>1
  <2>2. Len(g[0]) = 0
    BY <1>7
  <2>3. \A m : m \notin 1..0
    OBVIOUS
  <2>4. QED
    BY <2>1, <2>2, <2>3 DEF PutTogether
<1>9. ASSUME NEW n \in Nat, n < P, PutTogether(by, list, s, n, g[n])
      PROVE  PutTogether(by, list, s, n + 1, g[n + 1])
  <2>1. n + 1 \in 1..P /\ (n + 1) - 1 = n /\ n \in 0..P
    BY <1>1, <1>9
  <2>2. g[n + 1] = g[n] \o parts[n + 1] /\ g[n] \in Seq(Entries)
    <3>1. g[n + 1] = g[(n + 1) - 1] \o parts[n + 1]
      BY <1>7, <2>1, Zenon
    <3>2. g[n] \in Seq(Entries)
      BY <1>7, <2>1
    <3>3. QED
      BY <2>1, <3>1, <3>2, Zenon
  <2>3. n * (2 * s) < Len(list)
    <3>1. Before(n + 1, s) < Len(list)
      BY <1>1, <2>1
    <3>2. QED
      BY <2>1, <3>1, Zenon DEF Before
  <2>4. /\ parts[n + 1] \in Seq(Entries) /\ parts[n + 1] = PairOf(by, list, s, n + 1)
        /\ Len(parts[n + 1]) = Reaching(Len(list), Before(n + 1, s), 2 * s)
    BY <1>2, <1>5, <2>1
  <2>5. Len(list) \in Nat
    BY <1>1
  <2>6. PutTogether(by, list, s, n + 1, g[n] \o parts[n + 1])
    BY <1>9, <2>2, <2>3, <2>4, <2>5, OnePairMore, Zenon
  <2>7. QED
    BY <2>2, <2>6
<1>10. Bad = {}
  <2> SUFFICES ASSUME Bad # {} PROVE FALSE
    OBVIOUS
  <2>1. PICK m \in Bad : \A i \in Bad : m <= i
    <3>1. Bad \subseteq Nat
      OBVIOUS
    <3> HIDE DEF Bad
    <3>2. QED
      BY <3>1, LeastOf
  <2>2. m \in Nat /\ m <= P /\ ~PutTogether(by, list, s, m, g[m])
    OBVIOUS
  <2>3. m # 0
    BY <1>8, <2>2
  <2>4. /\ m - 1 \in Nat /\ m - 1 < P /\ (m - 1) + 1 = m
        /\ PutTogether(by, list, s, m - 1, g[m - 1])
    <3>1. m - 1 \in Nat /\ m - 1 < P /\ m - 1 <= P /\ (m - 1) + 1 = m /\ ~ (m <= m - 1)
      BY <1>1, <2>2, <2>3
    <3>2. QED
      BY <2>1, <3>1
  <2>5. PutTogether(by, list, s, (m - 1) + 1, g[(m - 1) + 1])
    BY <1>9, <2>4
  <2>6. QED
    BY <2>2, <2>4, <2>5
<1>11. PutTogether(by, list, s, P, g[P]) /\ g[P] \in Seq(Entries)
  <2>1. P \in Nat /\ P <= P /\ P \in 0..P
    BY <1>1
  <2>2. QED
    BY <1>7, <1>10, <2>1
<1>12. QED
  BY <1>4, <1>7, <1>11 DEF P

(* new are the entries of list, each once, in the order of rho; none leaves *)
(* its pair of runs, and within the pair they go ahead of one another      *)
PassedBy(by, list, t, new, rho) ==
  /\ new \in Seq(Entries) /\ Len(new) = Len(list)
  /\ rho \in [1..Len(list) -> 1..Len(list)]
  /\ \A i \in 1..Len(list) : new[i] = list[rho[i]]
  /\ \A k \in Nat : \A i \in 1..Len(list) : InRun(k, t, i) => InRun(k, t, rho[i])
  /\ \A k \in Nat : \A i, j \in 1..Len(list) :
       InRun(k, t, i) /\ InRun(k, t, j) /\ i < j =>
         rho[i] # rho[j] /\ Ahead(by, list, rho[i], rho[j])

LEMMA PassPermutes ==
  \A by \in Orders : \A list \in Seq(Entries) : \A s \in Nat \ {0} :
    RunsInOrder(by, list, s) /\ Len(list) # 0 =>
      \E rho : PassedBy(by, list, 2 * s, Pass(by, list, s), rho)
<1> SUFFICES ASSUME NEW by \in Orders, NEW list \in Seq(Entries),
                    NEW s \in Nat \ {0}, RunsInOrder(by, list, s), Len(list) # 0
             PROVE  \E rho : PassedBy(by, list, 2 * s, Pass(by, list, s), rho)
  OBVIOUS
<1> DEFINE N == Len(list)
           t == 2 * s
           P == Pairs(list, s)
           B(m) == Before(m, s)
           W(m) == Reaching(N, B(m), t)
           Is(m, r) == PairMerged(by, list, B(m), W(m), PairOf(by, list, s, m), r)
           R == [m \in 1..P |-> CHOOSE r : Is(m, r)]
           M == [i \in 1..N |-> CHOOSE m \in 1..P : InRun(m - 1, t, i)]
           rho == [i \in 1..N |-> B(M[i]) + R[M[i]][i - B(M[i])]]
           new == Pass(by, list, s)
<1>1. /\ N \in Nat \ {0} /\ P \in Nat \ {0} /\ N <= P * t
      /\ \A m \in 1..P : B(m) < N
      /\ \A i \in 1..N : \E m \in 1..P : InRun(m - 1, t, i)
  <2>1. N \in Nat \ {0}
    BY LenProperties
  <2>2. QED
    BY <2>1, PairsCover, Zenon
<1>2. new \in Seq(Entries) /\ PutTogether(by, list, s, P, new)
  BY PassPutsTogether, Zenon
<1>3. t \in Nat \ {0} /\ \A m \in 1..P : m \in Nat \ {0} /\ m - 1 \in Nat /\ B(m) \in Nat
  <2>1. t \in Nat \ {0} /\ s \in Nat
    OBVIOUS
  <2> HIDE DEF P
  <2>2. \A m \in 1..P : m \in Nat \ {0} /\ m - 1 \in Nat
    BY <1>1
  <2>3. \A m \in 1..P : B(m) \in Nat
    BY <2>1, <2>2, Offsets, Zenon
  <2>4. QED
    BY <2>1, <2>2, <2>3
<1>4. ASSUME NEW m \in 1..P
      PROVE  /\ R[m] \in [1..W(m) -> 1..W(m)] /\ W(m) \in Nat /\ B(m) + W(m) <= N
             /\ \A x \in 1..W(m) : new[B(m) + x] = list[B(m) + R[m][x]]
             /\ \A x, y \in 1..W(m) :
                  x < y => /\ R[m][x] # R[m][y]
                           /\ Ahead(by, list, B(m) + R[m][x], B(m) + R[m][y])
  <2> DEFINE b == B(m)
             w == W(m)
             pair == PairOf(by, list, s, m)
             r == R[m]
  <2>1. \E q : PairMerged(by, list, b, w, pair, q)
    BY <1>1, <1>3, PairMerges, Zenon DEF PairOf
  <2>2. r = CHOOSE q : PairMerged(by, list, b, w, pair, q)
    OBVIOUS
  <2>3. \A x \in 1..w : new[b + x] = pair[x]
    BY <1>2 DEF PutTogether
  <2>4. w \in Nat /\ b + w <= N
    <3>1. b \in Nat /\ N \in Nat /\ b < N /\ t \in Nat
      BY <1>1, <1>3
    <3> HIDE DEF b, N, t
    <3>2. Reaching(N, b, t) \in Nat /\ b + Reaching(N, b, t) <= N
      BY <3>1 DEF Reaching
    <3>3. QED
      BY <3>2 DEF b, N, t
  <2> HIDE DEF b, w, pair, r, new, N, P, R, M, rho
  <2>5. PairMerged(by, list, b, w, pair, r)
    BY <2>1, <2>2, Zenon
  <2>6. /\ r \in [1..w -> 1..w]
        /\ \A i \in 1..w : pair[i] = list[b + r[i]]
        /\ \A i, j \in 1..w :
             i < j => r[i] # r[j] /\ Ahead(by, list, b + r[i], b + r[j])
    BY <2>5 DEF PairMerged
  <2>7. \A x \in 1..w : new[b + x] = list[b + r[x]]
    BY <2>3, <2>6, Zenon
  <2>8. QED
    BY <2>4, <2>6, <2>7, Zenon DEF b, w, r
<1>5. ASSUME NEW i \in 1..N
      PROVE  /\ M[i] \in 1..P /\ InRun(M[i] - 1, t, i)
             /\ i - B(M[i]) \in 1..W(M[i]) /\ B(M[i]) + (i - B(M[i])) = i
  <2> DEFINE m == M[i]
  <2>1. m \in 1..P /\ InRun(m - 1, t, i)
    BY <1>1
  <2> DEFINE b == B(m)
  <2>2. b < i /\ i <= b + t
    BY <2>1 DEF InRun, Before
  <2>3. b \in Nat /\ b < N /\ t \in Nat /\ N \in Nat
    BY <1>1, <1>3, <2>1
  <2> HIDE DEF b, N, t, M, P
  <2>4. i - b \in 1..Reaching(N, b, t) /\ b + (i - b) = i
    BY <2>2, <2>3 DEF Reaching
  <2>5. QED
    BY <2>1, <2>4, Zenon DEF b
<1>6. \A i \in 1..N : rho[i] = B(M[i]) + R[M[i]][i - B(M[i])]
  OBVIOUS
<1> HIDE DEF R, M, rho, new
<1>7. ASSUME NEW i \in 1..N
      PROVE  /\ rho[i] \in 1..N /\ new[i] = list[rho[i]]
             /\ InRun(M[i] - 1, t, rho[i])
  <2> DEFINE m == M[i]
             b == B(m)
             w == W(m)
             x == i - b
             y == R[m][x]
  <2>1. m \in 1..P /\ x \in 1..w /\ b + x = i
    BY <1>5, Zenon
  <2>2. y \in 1..w /\ new[b + x] = list[b + y]
    <3>1. R[m] \in [1..w -> 1..w] /\ new[b + x] = list[b + y]
      BY <1>4, <2>1, Zenon
    <3>2. QED
      BY <2>1, <3>1
  <2>3. rho[i] = b + y
    BY <1>6, Zenon
  <2>4. b \in Nat /\ w \in Nat /\ b + w <= N /\ N \in Nat /\ t \in Nat
    BY <1>1, <1>3, <1>4, <2>1, Zenon
  <2>5. w <= t
    <3>1. w = Reaching(N, b, t)
      BY Zenon
    <3> HIDE DEF w, b, N, t
    <3>2. QED
      BY <2>4, <3>1 DEF Reaching
  <2>6. b = (m - 1) * t
    BY Zenon DEF Before
  <2> HIDE DEF y, x, w, b, m, N, t
  <2>7. b + y \in 1..N /\ b < b + y /\ b + y <= b + t
    BY <2>2, <2>4, <2>5
  <2>8. InRun(m - 1, t, b + y)
    BY <2>6, <2>7 DEF InRun
  <2>9. QED
    BY <2>1, <2>2, <2>3, <2>7, <2>8 DEF m
<1>8. ASSUME NEW k \in Nat, NEW i \in 1..N, InRun(k, t, i)
      PROVE  M[i] - 1 = k
  <2>1. M[i] - 1 \in Nat /\ InRun(M[i] - 1, t, i) /\ i \in Nat /\ t \in Nat
    BY <1>3, <1>5
  <2>2. QED
    BY <1>8, <2>1, OneRun, Zenon
<1>9. ASSUME NEW k \in Nat, NEW i \in 1..N, NEW j \in 1..N,
             InRun(k, t, i), InRun(k, t, j), i < j
      PROVE  rho[i] # rho[j] /\ Ahead(by, list, rho[i], rho[j])
  <2> DEFINE m == M[i]
             b == B(m)
             w == W(m)
             x == i - b
             z == j - b
  <2>1. M[j] = m
    <3>1. M[i] - 1 = M[j] - 1 /\ M[i] \in 1..P /\ M[j] \in 1..P
      BY <1>5, <1>8, <1>9
    <3> DEFINE mi == M[i]
               mj == M[j]
    <3> HIDE DEF mi, mj
    <3>2. mi - 1 = mj - 1 /\ mi \in Nat /\ mj \in Nat
      BY <1>3, <3>1 DEF mi, mj
    <3>3. mi = mj
      BY <3>2
    <3>4. QED
      BY <3>3 DEF mi, mj
  <2>2. m \in 1..P /\ x \in 1..w
    BY <1>5, Zenon
  <2>3. z \in 1..w
    <3>1. j - B(M[j]) \in 1..W(M[j])
      BY <1>5
    <3>2. QED
      BY <2>1, <3>1, Zenon
  <2>4. b \in Nat /\ w \in Nat
    BY <1>3, <1>4, <2>2, Zenon
  <2>5. x < z
    <3> HIDE DEF b, m
    <3>1. QED
      BY <1>9, <2>4
  <2>6. /\ R[m] \in [1..w -> 1..w] /\ R[m][x] # R[m][z]
        /\ Ahead(by, list, b + R[m][x], b + R[m][z])
    <3>1. /\ R[m] \in [1..w -> 1..w]
          /\ \A x1, y1 \in 1..w :
               x1 < y1 => /\ R[m][x1] # R[m][y1]
                          /\ Ahead(by, list, b + R[m][x1], b + R[m][y1])
      BY <1>4, <2>2, Zenon
    <3> HIDE DEF x, z, w, b, m
    <3>2. QED
      BY <2>2, <2>3, <2>5, <3>1, Zenon
  <2>7. rho[i] = b + R[m][x] /\ rho[j] = b + R[m][z]
    <3>1. rho[j] = B(M[j]) + R[M[j]][j - B(M[j])]
      BY <1>6
    <3>2. QED
      BY <1>6, <2>1, <3>1, Zenon
  <2>8. R[m][x] \in 1..w /\ R[m][z] \in 1..w
    BY <2>2, <2>3, <2>6
  <2>9. b + R[m][x] # b + R[m][z]
    <3> DEFINE c == R[m][x]
               d == R[m][z]
    <3>1. c # d /\ c \in 1..w /\ d \in 1..w
      BY <2>6, <2>8, Zenon
    <3> HIDE DEF b, w, x, z, m, c, d
    <3>2. b + c # b + d
      BY <2>4, <3>1
    <3>3. QED
      BY <3>2, Zenon DEF c, d
  <2>10. QED
    BY <2>6, <2>7, <2>9, Zenon
<1>10. Len(new) = N
  <2>1. Len(new) = IF P * t <= N THEN P * t ELSE N
    BY <1>2 DEF PutTogether
  <2>2. P * t \in Nat
    BY <1>1, <1>3, Products
  <2> DEFINE e == P * t
  <2> HIDE DEF e, N, t, P
  <2>3. Len(new) = (IF e <= N THEN e ELSE N) /\ e \in Nat /\ N \in Nat /\ N <= e
    BY <1>1, <2>1, <2>2 DEF e
  <2>4. QED
    BY <2>3
<1>11. rho \in [1..N -> 1..N]
  BY <1>7 DEF rho
<1> HIDE DEF N, t, P
<1>12. \A k \in Nat : \A i \in 1..N : InRun(k, t, i) => InRun(k, t, rho[i])
  BY <1>7, <1>8, Zenon
<1>13. PassedBy(by, list, t, new, rho)
  BY <1>2, <1>7, <1>9, <1>10, <1>11, <1>12, Zenon DEF PassedBy, N
<1>14. QED
  BY <1>13 DEF new, t

(***************************************************************************)
(* The sort as a whole.  cur are the entries of list in the order of pi:   *)
(* none has left its run of s entries, and within a run they go ahead of   *)
(* one another.                                                            *)
(***************************************************************************)
Arranged(by, list, s, cur, pi) ==
  /\ cur \in Seq(Entries) /\ Len(cur) = Len(list)
  /\ pi \in [1..Len(list) -> 1..Len(list)]
  /\ \A i \in 1..Len(list) : cur[i] = list[pi[i]]
  /\ \A i, j \in 1..Len(list) : pi[i] = pi[j] => i = j
  /\ \A k \in Nat : \A i \in 1..Len(list) : InRun(k, s, i) => InRun(k, s, pi[i])
  /\ \A k \in Nat : \A i, j \in 1..Len(list) :
       InRun(k, s, i) /\ InRun(k, s, j) /\ i < j => Ahead(by, list, pi[i], pi[j])

LEMMA ArrangedInOrder ==
  \A by \in Orders : \A list \in Seq(Entries) : \A s, cur, pi :
    Arranged(by, list, s, cur, pi) => RunsInOrder(by, cur, s)
<1> SUFFICES ASSUME NEW by \in Orders, NEW list \in Seq(Entries), NEW s, NEW cur, NEW pi,
                    Arranged(by, list, s, cur, pi),
                    NEW k \in Nat, NEW x \in 1..Len(cur), NEW y \in 1..Len(cur),
                    InRun(k, s, x), InRun(k, s, y), x < y
             PROVE  ~After(by, cur[x], cur[y])
  BY DEF RunsInOrder
<1>1. /\ x \in 1..Len(list) /\ y \in 1..Len(list)
      /\ cur[x] = list[pi[x]] /\ cur[y] = list[pi[y]]
      /\ Ahead(by, list, pi[x], pi[y])
  BY DEF Arranged
<1>2. cur[x] \in Entries /\ cur[y] \in Entries
  BY DEF Arranged
<1>3. ~After(by, cur[x], cur[y]) \/ After(by, cur[y], cur[x])
  BY <1>1 DEF Ahead
<1>4. QED
  BY <1>2, <1>3, AfterOrder

(* a run of 2 * s entries is two runs of s                                 *)
LEMMA Halves ==
  \A k, s, x \in Nat :
    /\ InRun(k, 2 * s, x) <=> InRun(2 * k, s, x) \/ InRun(2 * k + 1, s, x)
    /\ 2 * k \in Nat /\ 2 * k + 1 \in Nat
<1> SUFFICES ASSUME NEW k \in Nat, NEW s \in Nat, NEW x \in Nat
             PROVE  /\ InRun(k, 2 * s, x) <=> InRun(2 * k, s, x) \/ InRun(2 * k + 1, s, x)
                    /\ 2 * k \in Nat /\ 2 * k + 1 \in Nat
  OBVIOUS
<1> DEFINE a == k * (2 * s)
<1>1. a \in Nat /\ (2 * k) * s = a /\ (2 * k + 1) * s = a + s
  <2>1. 2 * s \in Nat
    OBVIOUS
  <2>2. QED
    BY <2>1, Products
<1> HIDE DEF a
<1>2. InRun(k, 2 * s, x) <=> a < x /\ x <= a + 2 * s
  BY DEF InRun, a
<1>3. InRun(2 * k, s, x) <=> a < x /\ x <= a + s
  BY <1>1 DEF InRun
<1>4. InRun(2 * k + 1, s, x) <=> a + s < x /\ x <= a + s + s
  BY <1>1 DEF InRun
<1>5. QED
  BY <1>1, <1>2, <1>3, <1>4

(* all of the first run is before all of the second                        *)
LEMMA HalvesApart ==
  \A k, s, x, y \in Nat : InRun(2 * k, s, x) /\ InRun(2 * k + 1, s, y) => x < y
<1> SUFFICES ASSUME NEW k \in Nat, NEW s \in Nat, NEW x \in Nat, NEW y \in Nat,
                    InRun(2 * k, s, x), InRun(2 * k + 1, s, y)
             PROVE  x < y
  OBVIOUS
<1> DEFINE a == k * (2 * s)
<1>1. a \in Nat /\ (2 * k) * s = a /\ (2 * k + 1) * s = a + s
  <2>1. 2 * s \in Nat
    OBVIOUS
  <2>2. QED
    BY <2>1, Products
<1> HIDE DEF a
<1>2. QED
  BY <1>1 DEF InRun

(* A pass leaves the list arranged by runs of twice the length.            *)
LEMMA ArrangedPass ==
  \A by \in Orders : \A list \in Seq(Entries) : \A s \in Nat \ {0} : \A cur, pi :
    /\ Arranged(by, list, s, cur, pi) /\ Len(list) # 0
    => \E q : Arranged(by, list, 2 * s, Pass(by, cur, s), q)
<1> SUFFICES ASSUME NEW by \in Orders, NEW list \in Seq(Entries), NEW s \in Nat \ {0},
                    NEW cur, NEW pi,
                    Arranged(by, list, s, cur, pi), Len(list) # 0
             PROVE  \E q : Arranged(by, list, 2 * s, Pass(by, cur, s), q)
  OBVIOUS
<1> DEFINE N == Len(list)
           t == 2 * s
           new == Pass(by, cur, s)
<1>1. /\ cur \in Seq(Entries) /\ Len(cur) = N
      /\ pi \in [1..N -> 1..N]
      /\ \A i \in 1..N : cur[i] = list[pi[i]]
      /\ \A i, j \in 1..N : pi[i] = pi[j] => i = j
      /\ \A k \in Nat : \A i \in 1..N : InRun(k, s, i) => InRun(k, s, pi[i])
      /\ \A k \in Nat : \A i, j \in 1..N :
           InRun(k, s, i) /\ InRun(k, s, j) /\ i < j => Ahead(by, list, pi[i], pi[j])
  BY DEF Arranged
<1>2. RunsInOrder(by, cur, s)
  BY ArrangedInOrder, Zenon
<1>3. PICK rho : PassedBy(by, cur, t, new, rho)
  <2>1. Len(cur) # 0
    BY <1>1
  <2>2. QED
    BY <1>1, <1>2, <2>1, PassPermutes, Zenon
<1> HIDE DEF new
<1>4. /\ new \in Seq(Entries) /\ Len(new) = N
      /\ rho \in [1..N -> 1..N]
      /\ \A i \in 1..N : new[i] = cur[rho[i]]
      /\ \A k \in Nat : \A i \in 1..N : InRun(k, t, i) => InRun(k, t, rho[i])
      /\ \A k \in Nat : \A i, j \in 1..N :
           InRun(k, t, i) /\ InRun(k, t, j) /\ i < j =>
             rho[i] # rho[j] /\ Ahead(by, cur, rho[i], rho[j])
  BY <1>1, <1>3 DEF PassedBy
<1> DEFINE sig == [i \in 1..N |-> pi[rho[i]]]
<1>5. N \in Nat \ {0} /\ t \in Nat /\ s \in Nat
  BY LenProperties
<1>6. \A i \in 1..N : \E k \in Nat : InRun(k, t, i)
  <2>1. Len(cur) \in Nat \ {0}
    BY <1>1, <1>5
  <2>2. \A i \in 1..N : \E m \in 1..Pairs(cur, s) : InRun(m - 1, t, i)
    BY <1>1, <2>1, PairsCover, Zenon
  <2>3. Pairs(cur, s) \in Nat
    BY <2>1, PairsCover, Zenon
  <2> DEFINE P == Pairs(cur, s)
  <2> HIDE DEF P, t
  <2>4. P \in Nat /\ \A i \in 1..N : \E m \in 1..P : InRun(m - 1, t, i)
    BY <2>2, <2>3 DEF P
  <2>5. \A m \in 1..P : m - 1 \in Nat
    BY <2>4
  <2>6. QED
    BY <2>4, <2>5, Zenon
<1>7. ASSUME NEW i \in 1..N
      PROVE  rho[i] \in 1..N /\ sig[i] = pi[rho[i]] /\ pi[rho[i]] \in 1..N
  <2>1. rho[i] \in 1..N
    BY <1>4
  <2>2. QED
    BY <1>1, <2>1
<1> HIDE DEF N, t
<1>8. sig \in [1..N -> 1..N]
  BY <1>7
<1> HIDE DEF sig
<1>9. \A x \in 1..N : x \in Nat
  BY <1>5
(* what pi does to the halves of a run                                     *)
<1>10. ASSUME NEW k \in Nat, NEW x \in 1..N, InRun(k, t, x)
       PROVE  /\ \/ InRun(2 * k, s, x) /\ InRun(2 * k, s, pi[x])
                 \/ InRun(2 * k + 1, s, x) /\ InRun(2 * k + 1, s, pi[x])
              /\ InRun(k, t, pi[x])
  <2>1. x \in Nat /\ pi[x] \in Nat /\ pi[x] \in 1..N
    BY <1>1, <1>9
  <2>2. 2 * k \in Nat /\ 2 * k + 1 \in Nat
    OBVIOUS
  <2>3. InRun(2 * k, s, x) \/ InRun(2 * k + 1, s, x)
    BY <1>5, <1>10, <2>1, Halves, Zenon DEF t
  <2>4. \/ InRun(2 * k, s, x) /\ InRun(2 * k, s, pi[x])
        \/ InRun(2 * k + 1, s, x) /\ InRun(2 * k + 1, s, pi[x])
    BY <1>1, <2>2, <2>3, Zenon
  <2>5. InRun(k, t, pi[x])
    BY <1>5, <2>1, <2>4, Halves, Zenon DEF t
  <2>6. QED
    BY <2>4, <2>5
<1>11. ASSUME NEW k \in Nat, NEW i \in 1..N, NEW j \in 1..N,
              InRun(k, t, i), InRun(k, t, j), i < j
       PROVE  Ahead(by, list, sig[i], sig[j])
  <2> DEFINE x == rho[i]
             y == rho[j]
  <2>1. x \in 1..N /\ y \in 1..N /\ x # y /\ InRun(k, t, x) /\ InRun(k, t, y)
    BY <1>4, <1>7, <1>11
  <2>2. Ahead(by, cur, x, y)
    BY <1>4, <1>11
  <2>3. sig[i] = pi[x] /\ sig[j] = pi[y]
    BY <1>7
  <2> HIDE DEF x, y
  <2>4. /\ pi[x] \in 1..N /\ pi[y] \in 1..N /\ pi[x] # pi[y]
        /\ cur[x] = list[pi[x]] /\ cur[y] = list[pi[y]]
        /\ x \in Nat /\ y \in Nat /\ pi[x] \in Nat /\ pi[y] \in Nat
    BY <1>1, <1>9, <2>1
  <2> SUFFICES Ahead(by, list, pi[x], pi[y])
    BY <2>3
  <2>5. ASSUME NEW h \in Nat, InRun(h, s, x), InRun(h, s, y)
        PROVE  Ahead(by, list, pi[x], pi[y])
    <3>1. CASE x < y
      BY <1>1, <2>1, <2>5, <3>1
    <3>2. CASE ~(x < y)
      <4>1. y < x
        BY <2>1, <2>4, <3>2
      <4>2. ~After(by, cur[y], cur[x])
        BY <1>1, <1>2, <2>1, <2>5, <4>1 DEF RunsInOrder
      <4>3. After(by, cur[y], cur[x])
        BY <2>2, <3>2 DEF Ahead
      <4>4. QED
        BY <4>2, <4>3
    <3>3. QED
      BY <3>1, <3>2
  <2>6. ASSUME (x < y) <=> (pi[x] < pi[y])
        PROVE  Ahead(by, list, pi[x], pi[y])
    BY <2>2, <2>4, <2>6 DEF Ahead
  <2>7. 2 * k \in Nat /\ 2 * k + 1 \in Nat
    OBVIOUS
  <2>8. CASE InRun(2 * k, s, x) /\ InRun(2 * k, s, y)
    BY <2>5, <2>7, <2>8
  <2>9. CASE InRun(2 * k + 1, s, x) /\ InRun(2 * k + 1, s, y)
    BY <2>5, <2>7, <2>9
  <2>10. CASE /\ InRun(2 * k, s, x) /\ InRun(2 * k, s, pi[x])
              /\ InRun(2 * k + 1, s, y) /\ InRun(2 * k + 1, s, pi[y])
    <3>1. x < y /\ pi[x] < pi[y]
      BY <1>5, <2>4, <2>10, HalvesApart
    <3>2. QED
      BY <2>6, <3>1
  <2>11. CASE /\ InRun(2 * k + 1, s, x) /\ InRun(2 * k + 1, s, pi[x])
              /\ InRun(2 * k, s, y) /\ InRun(2 * k, s, pi[y])
    <3>1. y < x /\ pi[y] < pi[x]
      BY <1>5, <2>4, <2>11, HalvesApart
    <3>2. ~(x < y) /\ ~(pi[x] < pi[y])
      BY <2>4, <3>1
    <3>3. QED
      BY <2>6, <3>2
  <2>12. QED
    <3>1. /\ \/ InRun(2 * k, s, x) /\ InRun(2 * k, s, pi[x])
             \/ InRun(2 * k + 1, s, x) /\ InRun(2 * k + 1, s, pi[x])
          /\ \/ InRun(2 * k, s, y) /\ InRun(2 * k, s, pi[y])
             \/ InRun(2 * k + 1, s, y) /\ InRun(2 * k + 1, s, pi[y])
      BY <1>10, <2>1, Zenon
    <3>2. QED
      BY <2>8, <2>9, <2>10, <2>11, <3>1, Zenon
<1>12. ASSUME NEW k \in Nat, NEW i \in 1..N, InRun(k, t, i)
       PROVE  InRun(k, t, sig[i])
  BY <1>4, <1>7, <1>10, <1>12
<1>13. ASSUME NEW i \in 1..N, NEW j \in 1..N, i < j
       PROVE  sig[i] # sig[j]
  <2>1. PICK k \in Nat : InRun(k, t, i)
    BY <1>6
  <2>2. PICK h \in Nat : InRun(h, t, j)
    BY <1>6
  <2>3. CASE h = k
    <3>1. rho[i] # rho[j]
      BY <1>4, <1>13, <2>1, <2>2, <2>3
    <3>2. QED
      BY <1>1, <1>7, <3>1
  <2>4. CASE h # k
    <3>1. InRun(k, t, sig[i]) /\ InRun(h, t, sig[j])
      BY <1>12, <2>1, <2>2
    <3>2. sig[i] \in Nat /\ sig[j] \in Nat
      BY <1>7, <1>9
    <3>3. QED
      BY <1>5, <2>4, <3>1, <3>2, OneRun
  <2>5. QED
    BY <2>3, <2>4
<1>14. ASSUME NEW i \in 1..N, NEW j \in 1..N, sig[i] = sig[j]
       PROVE  i = j
  <2>1. ~(i < j) /\ ~(j < i)
    BY <1>13, <1>14
  <2>2. QED
    BY <1>9, <2>1
<1>15. ASSUME NEW i \in 1..N
       PROVE  new[i] = list[sig[i]]
  <2>1. new[i] = cur[rho[i]] /\ rho[i] \in 1..N /\ sig[i] = pi[rho[i]]
    BY <1>4, <1>7, Zenon
  <2>2. cur[rho[i]] = list[pi[rho[i]]]
    BY <1>1, <2>1, Zenon
  <2>3. QED
    BY <2>1, <2>2
<1>16. Arranged(by, list, t, new, sig)
  BY <1>4, <1>8, <1>11, <1>12, <1>14, <1>15, Zenon DEF Arranged, N
<1>17. QED
  BY <1>16 DEF new, t

(* ListSort is a function of the two.                                      *)
Sorting(job, n, f) ==
  f = [m \in 0..n |-> IF m = 0 THEN [list |-> job.list, insize |-> 1] ELSE NextPass(job.by, f[m - 1])]

LEMMA SortingFacts ==
  ASSUME NEW job, NEW n \in Nat, NEW f, Sorting(job, n, f)
  PROVE  /\ DOMAIN f = 0..n /\ f[0] = [list |-> job.list, insize |-> 1]
         /\ \A m \in 1..n : f[m] = NextPass(job.by, f[m - 1])
<1> DEFINE g == [m \in 0..n |-> IF m = 0 THEN [list |-> job.list, insize |-> 1] ELSE NextPass(job.by, f[m - 1])]
<1>1. f = g
  BY Zenon DEF Sorting
<1>2. DOMAIN g = 0..n /\ g[0] = [list |-> job.list, insize |-> 1]
  OBVIOUS
<1>3. ASSUME NEW m \in 1..n
      PROVE  g[m] = NextPass(job.by, f[m - 1])
  <2>1. m \in 0..n /\ m # 0
    OBVIOUS
  <2>2. QED
    BY <2>1, Zenon
<1> HIDE DEF g
<1>4. QED
  BY <1>1, <1>2, <1>3, Zenon

LEMMA SortingExists ==
  ASSUME NEW job, NEW n \in Nat
  PROVE  \E f : Sorting(job, n, f)
<1> DEFINE Missing == {m \in Nat : ~ \E f : Sorting(job, m, f)}
<1> SUFFICES ASSUME Missing # {} PROVE FALSE
  OBVIOUS
<1>1. PICK m \in Missing : \A i \in Missing : m <= i
  <2>1. Missing \subseteq Nat
    OBVIOUS
  <2> HIDE DEF Missing
  <2>2. QED
    BY <2>1, LeastOf
<1>2. m \in Nat /\ ~ \E f : Sorting(job, m, f)
  OBVIOUS
<1>3. m # 0
  <2> DEFINE f == [i \in 0..0 |-> [list |-> job.list, insize |-> 1]]
  <2>1. [i \in 0..0 |-> IF i = 0 THEN [list |-> job.list, insize |-> 1] ELSE NextPass(job.by, f[i - 1])] = f
    OBVIOUS
  <2>2. Sorting(job, 0, f)
    BY <2>1, Zenon DEF Sorting
  <2>3. QED
    BY <1>2, <2>2
<1>4. m - 1 \in Nat /\ m - 1 \notin Missing
  BY <1>1, <1>2, <1>3
<1>5. PICK g : Sorting(job, m - 1, g)
  BY <1>4
<1>6. /\ DOMAIN g = 0..m - 1 /\ g[0] = [list |-> job.list, insize |-> 1]
      /\ \A i \in 1..m - 1 : g[i] = NextPass(job.by, g[i - 1])
  BY <1>4, <1>5, SortingFacts
<1> DEFINE f == [i \in 0..m |-> IF i = m THEN NextPass(job.by, g[m - 1]) ELSE g[i]]
           h == [i \in 0..m |-> IF i = 0 THEN [list |-> job.list, insize |-> 1] ELSE NextPass(job.by, f[i - 1])]
<1>7. ASSUME NEW i \in 0..m PROVE f[i] = h[i]
  <2>1. CASE i = 0
    BY <1>2, <1>3, <1>6, <2>1
  <2>2. CASE i = m
    <3>1. h[m] = NextPass(job.by, f[m - 1]) /\ m - 1 \in 0..m /\ m - 1 # m
      <4>1. m \in 0..m /\ m - 1 \in 0..m /\ m - 1 # m
        BY <1>2, <1>3
      <4>2. QED
        BY <1>3, <4>1, Zenon
    <3>2. f[m - 1] = g[m - 1]
      BY <3>1, Zenon
    <3>3. QED
      BY <2>2, <3>1, <3>2, Zenon
  <2>3. CASE i # 0 /\ i # m
    <3>1. /\ h[i] = NextPass(job.by, f[i - 1]) /\ i - 1 \in 0..m /\ i - 1 # m
          /\ i \in 1..m - 1 /\ f[i] = g[i]
      <4>1. i - 1 \in 0..m /\ i - 1 # m /\ i \in 1..m - 1
        BY <1>2, <2>3
      <4>2. QED
        BY <2>3, <4>1, Zenon
    <3>2. f[i - 1] = g[i - 1]
      BY <3>1, Zenon
    <3>3. QED
      BY <1>6, <3>1, <3>2, Zenon
  <2>4. QED
    BY <2>1, <2>2, <2>3
<1>8. f = h
  BY <1>7
<1>9. Sorting(job, m, f)
  BY <1>8, Zenon DEF Sorting
<1>10. QED
  BY <1>2, <1>9

(* After n passes the list is arranged by runs that are longer than n, or  *)
(* as long as the list.                                                    *)
SortedSoFar(by, list, n, at) ==
  /\ at.insize \in Nat \ {0} /\ (n < at.insize \/ Len(list) <= at.insize)
  /\ \E pi : Arranged(by, list, at.insize, at.list, pi)

LEMMA ArrangedAtFirst ==
  \A by \in Orders : \A list \in Seq(Entries) : \E pi : Arranged(by, list, 1, list, pi)
<1> SUFFICES ASSUME NEW by \in Orders, NEW list \in Seq(Entries)
             PROVE  \E pi : Arranged(by, list, 1, list, pi)
  OBVIOUS
<1> DEFINE N == Len(list)
           pi == [i \in 1..N |-> i]
<1>1. N \in Nat
  BY LenProperties
<1>2. pi \in [1..N -> 1..N] /\ \A i \in 1..N : pi[i] = i
  OBVIOUS
<1> HIDE DEF pi, N
<1>3. ASSUME NEW k \in Nat, NEW i \in 1..N, NEW j \in 1..N,
             InRun(k, 1, i), InRun(k, 1, j), i < j
      PROVE  FALSE
  <2>1. k * 1 = k
    OBVIOUS
  <2>2. QED
    BY <1>1, <1>3, <2>1 DEF InRun
<1>4. Arranged(by, list, 1, list, pi)
  BY <1>2, <1>3 DEF Arranged, N
<1>5. QED
  BY <1>4

LEMMA SortedOneMore ==
  \A by \in Orders : \A list \in Seq(Entries) : \A n \in Nat : \A at :
    SortedSoFar(by, list, n, at) => SortedSoFar(by, list, n + 1, NextPass(by, at))
<1> SUFFICES ASSUME NEW by \in Orders, NEW list \in Seq(Entries), NEW n \in Nat, NEW at,
                    SortedSoFar(by, list, n, at)
             PROVE  SortedSoFar(by, list, n + 1, NextPass(by, at))
  OBVIOUS
<1> DEFINE s == at.insize
<1>1. /\ s \in Nat \ {0} /\ (n < s \/ Len(list) <= s)
      /\ \E pi : Arranged(by, list, s, at.list, pi)
  BY DEF SortedSoFar
<1>2. Len(at.list) = Len(list) /\ Len(list) \in Nat
  BY <1>1, LenProperties DEF Arranged
<1>3. CASE Len(at.list) <= s
  <2>1. NextPass(by, at) = at
    BY <1>3 DEF NextPass
  <2>2. QED
    BY <1>1, <1>2, <1>3, <2>1 DEF SortedSoFar
<1>4. CASE ~(Len(at.list) <= s)
  <2>1. /\ NextPass(by, at).list = Pass(by, at.list, s)
        /\ NextPass(by, at).insize = 2 * s
    BY <1>4 DEF NextPass
  <2>2. Len(list) # 0
    BY <1>1, <1>2, <1>4
  <2>3. \E q : Arranged(by, list, 2 * s, Pass(by, at.list, s), q)
    BY <1>1, <2>2, ArrangedPass, Zenon
  <2>4. 2 * s \in Nat \ {0} /\ n + 1 < 2 * s
    BY <1>1, <1>2, <1>4
  <2>5. QED
    BY <2>1, <2>3, <2>4 DEF SortedSoFar
<1>5. QED
  BY <1>3, <1>4

(* list_sort puts a list into the stable order of the compare function.    *)
LEMMA ListSortOrders ==
  \A by \in Orders : \A list \in Seq(Entries) :
    \E rho : OrderedBy(by, list, ListSort(by, list), rho)
<1> SUFFICES ASSUME NEW by \in Orders, NEW list \in Seq(Entries)
             PROVE  \E rho : OrderedBy(by, list, ListSort(by, list), rho)
  OBVIOUS
<1> DEFINE N == Len(list)
           job == [by |-> by, list |-> list]
           f == CHOOSE f : Sorting(job, N, f)
<1>1. N \in Nat
  BY LenProperties
<1>2. ListSort(by, list) = f[N].list
  <2>1. job.by = by /\ job.list = list
    OBVIOUS
  <2> HIDE DEF job
  <2>2. QED
    BY <2>1 DEF ListSort, Sorting
<1>3. /\ f[0] = [list |-> list, insize |-> 1]
      /\ \A m \in 1..N : f[m] = NextPass(by, f[m - 1])
  <2>1. Sorting(job, N, f)
    BY <1>1, SortingExists
  <2> HIDE DEF f
  <2>2. /\ f[0] = [list |-> job.list, insize |-> 1]
        /\ \A m \in 1..N : f[m] = NextPass(job.by, f[m - 1])
    BY <1>1, <2>1, SortingFacts
  <2>3. job.by = by /\ job.list = list
    OBVIOUS
  <2> HIDE DEF job
  <2>4. QED
    BY <2>2, <2>3
<1> HIDE DEF f, job
<1> DEFINE Bad == {n \in Nat : n <= N /\ ~SortedSoFar(by, list, n, f[n])}
<1>4. SortedSoFar(by, list, 0, f[0])
  <2>1. f[0].list = list /\ f[0].insize = 1 /\ 1 \in Nat \ {0} /\ 0 < 1
    BY <1>3
  <2>2. QED
    BY <2>1, ArrangedAtFirst DEF SortedSoFar
<1>5. ASSUME NEW n \in Nat, n < N, SortedSoFar(by, list, n, f[n])
      PROVE  SortedSoFar(by, list, n + 1, f[n + 1])
  <2>1. n + 1 \in 1..N /\ (n + 1) - 1 = n
    BY <1>1, <1>5
  <2>2. f[n + 1] = NextPass(by, f[n])
    BY <1>3, <2>1
  <2>3. QED
    BY <1>5, <2>2, SortedOneMore
<1>6. Bad = {}
  <2> SUFFICES ASSUME Bad # {} PROVE FALSE
    OBVIOUS
  <2>1. PICK m \in Bad : \A i \in Bad : m <= i
    <3>1. Bad \subseteq Nat
      OBVIOUS
    <3> HIDE DEF Bad
    <3>2. QED
      BY <3>1, LeastOf
  <2>2. m \in Nat /\ m <= N /\ ~SortedSoFar(by, list, m, f[m])
    OBVIOUS
  <2>3. m # 0
    BY <1>4, <2>2
  <2>4. /\ m - 1 \in Nat /\ m - 1 < N /\ (m - 1) + 1 = m
        /\ SortedSoFar(by, list, m - 1, f[m - 1])
    <3>1. m - 1 \in Nat /\ m - 1 < N /\ m - 1 <= N /\ (m - 1) + 1 = m /\ ~ (m <= m - 1)
      BY <1>1, <2>2, <2>3
    <3>2. QED
      BY <2>1, <3>1
  <2>5. SortedSoFar(by, list, (m - 1) + 1, f[(m - 1) + 1])
    BY <1>5, <2>4
  <2>6. QED
    BY <2>2, <2>4, <2>5
<1>7. SortedSoFar(by, list, N, f[N])
  <2>1. N <= N
    BY <1>1
  <2>2. QED
    BY <1>1, <1>6, <2>1
<1> DEFINE s == f[N].insize
           new == f[N].list
<1>8. s \in Nat \ {0} /\ N <= s
  BY <1>1, <1>7 DEF SortedSoFar
<1>9. PICK pi : Arranged(by, list, s, new, pi)
  BY <1>7 DEF SortedSoFar
<1> HIDE DEF s, new
<1>10. ASSUME NEW i \in 1..N PROVE InRun(0, s, i)
  <2>1. 0 * s = 0
    BY <1>8
  <2>2. QED
    BY <1>1, <1>8, <2>1 DEF InRun
<1>11. ASSUME NEW i \in 1..N, NEW j \in 1..N, i < j
       PROVE  pi[i] # pi[j] /\ Ahead(by, list, pi[i], pi[j])
  <2>1. InRun(0, s, i) /\ InRun(0, s, j) /\ 0 \in Nat
    BY <1>10
  <2>2. Ahead(by, list, pi[i], pi[j])
    BY <1>9, <1>11, <2>1 DEF Arranged
  <2>3. i # j
    BY <1>1, <1>11
  <2>4. pi[i] # pi[j]
    BY <1>9, <2>3 DEF Arranged
  <2>5. QED
    BY <2>2, <2>4
<1>12. OrderedBy(by, list, new, pi)
  BY <1>9, <1>11 DEF Arranged, OrderedBy
<1>13. QED
  BY <1>2, <1>12 DEF new

(* the entries that are placed before n                                    *)
PlacedBefore(by, list, n) ==
  {m \in DOMAIN list : \/ After(by, list[n], list[m])
                       \/ m < n /\ ~After(by, list[m], list[n])}

(* The place of the entry that the sort puts at x is x, and it puts every  *)
(* entry somewhere.                                                        *)
AllPlaced(by, list, rho) ==
  /\ \A x \in 1..Len(list) : Place(by, list, rho[x]) = x
  /\ \A n \in 1..Len(list) : \E x \in 1..Len(list) : rho[x] = n

LEMMA PlaceOf ==
  \A by \in Orders : \A list \in Seq(Entries) : \A new, rho :
    OrderedBy(by, list, new, rho) => AllPlaced(by, list, rho)
<1> SUFFICES ASSUME NEW by \in Orders, NEW list \in Seq(Entries), NEW new, NEW rho,
                    OrderedBy(by, list, new, rho)
             PROVE  AllPlaced(by, list, rho)
  OBVIOUS
<1> DEFINE N == Len(list)
<1>1. /\ N \in Nat /\ DOMAIN list = 1..N
      /\ \A x \in 1..N : list[x] \in Entries
  BY LenProperties, ElementOfSeq
<1>2. /\ rho \in [1..N -> 1..N]
      /\ \A i, j \in 1..N :
           i < j => rho[i] # rho[j] /\ Ahead(by, list, rho[i], rho[j])
  BY DEF OrderedBy
<1> HIDE DEF N
<1>3. \A i, j \in 1..N : rho[i] = rho[j] => i = j
  <2> SUFFICES ASSUME NEW i \in 1..N, NEW j \in 1..N, rho[i] = rho[j], i # j
               PROVE  FALSE
    OBVIOUS
  <2>1. i < j \/ j < i
    BY <1>1
  <2>2. QED
    BY <1>2, <2>1
<1>4. \A n \in 1..N : \E x \in 1..N : rho[x] = n
  <2>1. rho \in Injection(1..N, 1..N)
    BY <1>2, <1>3 DEF Injection, IsInjective
  <2>2. IsFiniteSet(1..N)
    BY <1>1, FS_Interval
  <2>3. rho \in Surjection(1..N, 1..N)
    BY <2>1, <2>2, FS_Injection
  <2>4. QED
    BY <2>3 DEF Surjection
<1>5. ASSUME NEW x \in 1..N
      PROVE  PlacedBefore(by, list, rho[x]) = {rho[y] : y \in 1..x - 1}
  <2> DEFINE n == rho[x]
             Is(m) == \/ After(by, list[n], list[m])
                      \/ m < n /\ ~After(by, list[m], list[n])
  <2>1. n \in 1..N /\ list[n] \in Entries
    BY <1>1, <1>2
  <2>2. ASSUME NEW y \in 1..x - 1
        PROVE  rho[y] \in 1..N /\ Is(rho[y])
    <3>1. y \in 1..N /\ y < x
      BY <1>1
    <3>2. rho[y] \in 1..N /\ Ahead(by, list, rho[y], rho[x])
      BY <1>2, <3>1
    <3>3. QED
      BY <3>2 DEF Ahead
  <2>3. ASSUME NEW m \in 1..N, Is(m)
        PROVE  \E y \in 1..x - 1 : rho[y] = m
    <3>1. PICK y \in 1..N : rho[y] = m
      BY <1>4
    <3>2. y # x
      <4>1. ~After(by, list[n], list[n])
        BY <2>1, AfterOrder
      <4>2. ~(n < n)
        BY <1>1, <2>1
      <4>3. m # n
        BY <2>3, <4>1, <4>2
      <4>4. QED
        BY <3>1, <4>3
    <3>3. ~(x < y)
      <4> SUFFICES ASSUME x < y PROVE FALSE
        OBVIOUS
      <4>1. Ahead(by, list, n, m) /\ n # m
        BY <1>2, <3>1
      <4>2. After(by, list[n], list[m]) => ~After(by, list[m], list[n])
        BY <1>1, <2>1, AfterOrder
      <4>3. n < m => ~(m < n)
        BY <1>1, <2>1
      <4>4. n < m \/ m < n
        BY <1>1, <2>1, <4>1
      <4> HIDE DEF n
      <4>5. QED
        BY <2>3, <4>1, <4>2, <4>3, <4>4 DEF Ahead
    <3>4. y \in 1..x - 1
      BY <1>1, <3>2, <3>3
    <3>5. QED
      BY <3>1, <3>4
  <2>4. PlacedBefore(by, list, n) = {m \in 1..N : Is(m)}
    BY <1>1 DEF PlacedBefore
  <2> HIDE DEF Is, n
  <2>5. {m \in 1..N : Is(m)} = {rho[y] : y \in 1..x - 1}
    BY <2>2, <2>3
  <2>6. QED
    BY <2>4, <2>5 DEF n
<1>6. ASSUME NEW x \in 1..N
      PROVE  Place(by, list, rho[x]) = x
  <2> DEFINE S == {rho[y] : y \in 1..x - 1}
             f == [y \in 1..x - 1 |-> rho[y]]
  <2>1. x - 1 \in Nat /\ \A y \in 1..x - 1 : y \in 1..N
    BY <1>1
  <2>2. f \in Injection(1..x - 1, S)
    BY <1>3, <2>1 DEF Injection, IsInjective
  <2>3. f \in Surjection(1..x - 1, S)
    BY DEF Surjection
  <2>4. ExistsBijection(1..x - 1, S)
    BY <2>2, <2>3 DEF ExistsBijection, Bijection
  <2> HIDE DEF S
  <2>5. Cardinality(S) = x - 1
    BY <2>1, <2>4, FS_CountingElements, Zenon
  <2>6. Place(by, list, rho[x]) = 1 + Cardinality(S)
    <3>1. Place(by, list, rho[x]) = 1 + Cardinality(PlacedBefore(by, list, rho[x]))
      BY DEF Place, PlacedBefore
    <3>2. QED
      BY <1>5, <3>1 DEF S
  <2>7. x \in Nat /\ 1 + (x - 1) = x
    BY <1>1
  <2>8. QED
    BY <2>5, <2>6, <2>7
<1>7. QED
  BY <1>4, <1>6 DEF N, AllPlaced

-----------------------------------------------------------------------------
(***************************************************************************)
(* The rows.  Which list a tick sorts, what it serves and what it prints   *)
(* follow from the head's start, the requests, the policy and the          *)
(* direction drawn.                                                        *)
(***************************************************************************)
EndsAround(st, list) ==
  <<Entry(LOWEST_LEVEL, st)>> \o list
  \o <<[Entry(HIGHEST_LEVEL, st) EXCEPT !.up = TRUE]>>

Requests(st, list, policy) ==
  IF policy \in {"SCAN", "CSCAN"} THEN EndsAround(st, list) ELSE list

Served(st, list, policy, up) ==
  IF policy = "FCFS" THEN list
  ELSE ListSort(By(policy, up), Requests(st, list, policy))

RowFor(st, list, policy, up) ==
  [policy |-> policy, up |-> up,
   total |-> Sum(Legs(policy, <<st>> \o CylindersOf(Served(st, list, policy, up)))),
   order |-> CylindersOf(Served(st, list, policy, up)),
   newline |-> Len(Requests(st, list, policy))]

Names == {"FCFS", "SSTF", "SCAN", "CSCAN", "LOOK", "CLOOK"}

RowsFor(st, list) ==
  {RowFor(st, list, policy, up) : policy \in Names, up \in BOOLEAN}

(* what read_config (disksim.c:329) leaves in srcrq                        *)
Config(st, list) ==
  /\ st \in Cylinders /\ list \in Seq(Entries)
  /\ \A n \in 1..Len(list) : \E c \in Cylinders : list[n] = Entry(c, st)

(* The inductive invariant: every row is the one its policy and direction  *)
(* determine, and the ticks go on until CLOOK's has written the sixth.     *)
IInv ==
  /\ Config(start, src)
  /\ processes = Len(src)
  /\ elevatorUp \in BOOLEAN
  /\ status \in {"running", "done", "crashed"}
  /\ rows \in Seq(RowsFor(start, src))
  /\ Len(rows) <= Len(Policies)
  /\ status = "running" => Len(rows) < Len(Policies)

LEMMA CylinderIsNat ==
  /\ Cylinders \subseteq Nat /\ HIGHEST_LEVEL \in Nat /\ LOWEST_LEVEL \in Nat
  /\ \A c \in Cylinders : LOWEST_LEVEL <= c /\ c <= HIGHEST_LEVEL
  /\ \A c, s \in Nat : /\ Entry(c, s) \in Entries /\ Distance(c, s) \in Nat
                       /\ [Entry(c, s) EXCEPT !.up = TRUE] \in Entries
<1>1. /\ Cylinders \subseteq Nat /\ HIGHEST_LEVEL \in Nat /\ LOWEST_LEVEL \in Nat
      /\ \A c \in Cylinders : LOWEST_LEVEL <= c /\ c <= HIGHEST_LEVEL
  BY DiskSchedAssumption DEF LOWEST_LEVEL
<1>2. ASSUME NEW c \in Nat, NEW s \in Nat
      PROVE  /\ Entry(c, s) \in Entries /\ Distance(c, s) \in Nat
             /\ [Entry(c, s) EXCEPT !.up = TRUE] \in Entries
  <2>1. Distance(c, s) \in Nat
    BY DEF Distance
  <2>2. (c > s) \in BOOLEAN
    OBVIOUS
  <2>3. Entry(c, s) \in Entries
    BY <2>1, <2>2 DEF Entry, Entries
  <2>4. [Entry(c, s) EXCEPT !.up = TRUE] \in Entries
    BY <2>3 DEF Entries
  <2>5. QED
    BY <2>1, <2>3, <2>4
<1>3. QED
  BY <1>1, <1>2

LEMMA SixPolicies ==
  /\ Len(Policies) = 6
  /\ \A policy : \A n \in 1..6 : Policies[n] = policy => policy \in Names
  /\ \A n \in 1..6 : Policies[n] # "CLOOK" => n < 6
BY DEF Policies, Names

(* the entries for the two ends stand around the requests                  *)
LEMMA EndsFacts ==
  \A st \in Nat : \A list \in Seq(Entries) :
    LET e == EndsAround(st, list)
    IN /\ e \in Seq(Entries) /\ Len(e) = Len(list) + 2
       /\ e[1] = Entry(LOWEST_LEVEL, st)
       /\ e[Len(list) + 2] = [Entry(HIGHEST_LEVEL, st) EXCEPT !.up = TRUE]
       /\ \A n \in 1..Len(list) : e[n + 1] = list[n]
<1> SUFFICES ASSUME NEW st \in Nat, NEW list \in Seq(Entries)
             PROVE  LET e == EndsAround(st, list)
                    IN /\ e \in Seq(Entries) /\ Len(e) = Len(list) + 2
                       /\ e[1] = Entry(LOWEST_LEVEL, st)
                       /\ e[Len(list) + 2] = [Entry(HIGHEST_LEVEL, st) EXCEPT !.up = TRUE]
                       /\ \A n \in 1..Len(list) : e[n + 1] = list[n]
  OBVIOUS
<1> DEFINE low == Entry(LOWEST_LEVEL, st)
           high == [Entry(HIGHEST_LEVEL, st) EXCEPT !.up = TRUE]
<1>1. low \in Entries /\ high \in Entries
  BY CylinderIsNat
<1>2. EndsAround(st, list) = <<low>> \o list \o <<high>>
  BY DEF EndsAround
<1> HIDE DEF low, high
<1>3. /\ <<low>> \o list \in Seq(Entries)
      /\ Len(<<low>> \o list) = Len(list) + 1
      /\ (<<low>> \o list)[1] = low
      /\ \A n \in 1..Len(list) : (<<low>> \o list)[n + 1] = list[n]
  BY <1>1
<1> DEFINE front == <<low>> \o list
<1> HIDE DEF front
<1>4. /\ front \o <<high>> \in Seq(Entries)
      /\ Len(front \o <<high>>) = Len(front) + 1
      /\ (front \o <<high>>)[Len(front) + 1] = high
      /\ \A n \in 1..Len(front) : (front \o <<high>>)[n] = front[n]
  <2>1. front \in Seq(Entries)
    BY <1>3 DEF front
  <2>2. QED
    BY <1>1, <2>1
<1>5. Len(list) \in Nat
  BY LenProperties
<1>6. Len(front) = Len(list) + 1
  BY <1>3 DEF front
<1> DEFINE e == front \o <<high>>
<1> HIDE DEF e
<1>7. /\ e \in Seq(Entries) /\ Len(e) = Len(list) + 2
      /\ e[Len(list) + 2] = high
  <2>1. Len(front) + 1 = Len(list) + 2
    BY <1>5, <1>6
  <2>2. QED
    BY <1>4, <2>1 DEF e
<1>8. e[1] = low
  <2>1. 1 \in 1..Len(front)
    BY <1>5, <1>6
  <2>2. QED
    BY <1>3, <1>4, <2>1 DEF e, front
<1>9. ASSUME NEW n \in 1..Len(list)
      PROVE  e[n + 1] = list[n]
  <2>1. n + 1 \in 1..Len(front)
    BY <1>5, <1>6
  <2>2. front[n + 1] = list[n]
    BY <1>3 DEF front
  <2>3. QED
    BY <1>4, <2>1, <2>2 DEF e
<1>10. QED
  BY <1>2, <1>7, <1>8, <1>9 DEF e, front, low, high

(* What a tick serves are its requests, each once, in the stable order of  *)
(* the compare function.                                                   *)
LEMMA ServedFacts ==
  \A st, list : \A policy \in Names : \A up \in BOOLEAN : Config(st, list) =>
    LET todo == Requests(st, list, policy)
        new  == Served(st, list, policy, up)
    IN /\ todo \in Seq(Entries) /\ new \in Seq(Entries) /\ Len(new) = Len(todo)
       /\ policy # "FCFS" => /\ By(policy, up) \in Orders
                             /\ \E rho : OrderedBy(By(policy, up), todo, new, rho)
<1> SUFFICES ASSUME NEW st, NEW list, NEW policy \in Names, NEW up \in BOOLEAN,
                    Config(st, list)
             PROVE  LET todo == Requests(st, list, policy)
                        new  == Served(st, list, policy, up)
                    IN /\ todo \in Seq(Entries) /\ new \in Seq(Entries)
                       /\ Len(new) = Len(todo)
                       /\ policy # "FCFS" =>
                            /\ By(policy, up) \in Orders
                            /\ \E rho : OrderedBy(By(policy, up), todo, new, rho)
  OBVIOUS
<1> DEFINE todo == Requests(st, list, policy)
           new  == Served(st, list, policy, up)
<1>1. st \in Nat /\ list \in Seq(Entries)
  BY CylinderIsNat DEF Config
<1>2. todo \in Seq(Entries)
  BY <1>1, EndsFacts DEF Requests
<1>3. CASE policy = "FCFS"
  BY <1>1, <1>3 DEF Served, Requests
<1>4. CASE policy # "FCFS"
  <2>1. new = ListSort(By(policy, up), todo)
    BY <1>4 DEF Served
  <2>2. By(policy, up) \in Orders
    BY <1>4 DEF By, Orders, Names
  <2> HIDE DEF todo, new
  <2>3. \E rho : OrderedBy(By(policy, up), todo, new, rho)
    BY <1>2, <2>1, <2>2, ListSortOrders
  <2>4. new \in Seq(Entries) /\ Len(new) = Len(todo)
    BY <2>3 DEF OrderedBy
  <2>5. QED
    BY <1>2, <2>2, <2>3, <2>4 DEF todo, new
<1>5. QED
  BY <1>3, <1>4

LEMMA InitConfig == Init => IInv
<1> SUFFICES ASSUME Init PROVE IInv
  OBVIOUS
<1>1. PICK n \in 0..MaxRequests : \E file \in [1..n -> Cylinders] :
        src = [m \in 1..n |-> Entry(file[m], start)] /\ processes = n
  BY DEF Init
<1>2. PICK file \in [1..n -> Cylinders] :
        src = [m \in 1..n |-> Entry(file[m], start)] /\ processes = n
  BY <1>1
<1>3. n \in Nat /\ start \in Cylinders /\ start \in Nat
  BY DiskSchedAssumption, CylinderIsNat DEF Init
<1>4. \A m \in 1..n : file[m] \in Cylinders /\ Entry(file[m], start) \in Entries
  BY <1>3, CylinderIsNat
<1>5. src \in Seq(Entries) /\ Len(src) = n
  BY <1>2, <1>3, <1>4
<1>6. \A m \in 1..n : src[m] = Entry(file[m], start)
  BY <1>2
<1>7. Config(start, src)
  BY <1>3, <1>4, <1>5, <1>6 DEF Config
<1>8. rows = << >> /\ elevatorUp = FALSE /\ status = "running"
  BY DEF Init
<1>9. rows \in Seq(RowsFor(start, src)) /\ Len(rows) = 0
  BY <1>8
<1>10. processes = Len(src)
  BY <1>2, <1>5
<1>11. Len(rows) <= Len(Policies) /\ Len(rows) < Len(Policies)
  BY <1>9, SixPolicies
<1>12. QED
  BY <1>7, <1>8, <1>9, <1>10, <1>11 DEF IInv

(* A tick adds the row of its policy.                                      *)
LEMMA TickKeeps ==
  \A policy : \A list : \A count :
    /\ IInv /\ IsNext(policy) /\ Write(policy, list, count)
    /\ elevatorUp' \in BOOLEAN /\ processes' = processes
    /\ list = Served(start, src, policy, elevatorUp')
    /\ count = Len(Requests(start, src, policy))
    => IInv'
<1> SUFFICES ASSUME NEW policy, NEW list, NEW count,
                    IInv, IsNext(policy), Write(policy, list, count),
                    elevatorUp' \in BOOLEAN, processes' = processes,
                    list = Served(start, src, policy, elevatorUp'),
                    count = Len(Requests(start, src, policy))
             PROVE  IInv'
  OBVIOUS
<1>1. /\ start' = start /\ src' = src
      /\ rows' = Append(rows, Row(policy, elevatorUp', list, count))
      /\ status' = IF policy = "CLOOK" THEN "done" ELSE status
      /\ status = "running" /\ Policies[Len(rows) + 1] = policy
  BY DEF Write, IsNext
<1>2. Row(policy, elevatorUp', list, count) = RowFor(start, src, policy, elevatorUp')
  BY DEF Row, RowFor
<1> DEFINE R == RowsFor(start, src)
           new == RowFor(start, src, policy, elevatorUp')
<1>3. rows \in Seq(R) /\ Len(rows) \in Nat /\ Len(rows) < 6
  BY <1>1, SixPolicies, LenProperties DEF IInv
<1>4. policy \in Names /\ (policy # "CLOOK" => Len(rows) + 1 < 6)
  <2>1. Len(rows) + 1 \in 1..6
    BY <1>3
  <2>2. QED
    BY <1>1, <2>1, SixPolicies
<1>5. new \in R
  BY <1>4 DEF RowsFor
<1> HIDE DEF R, new
<1>6. rows' \in Seq(R) /\ Len(rows') = Len(rows) + 1
  BY <1>1, <1>2, <1>3, <1>5 DEF new
<1>7. R = RowsFor(start, src)'
  BY <1>1 DEF R, RowsFor, RowFor, Served, Requests, EndsAround, Entry
<1>8. Config(start, src)' /\ (processes = Len(src))'
  BY <1>1 DEF IInv, Config, Entry
<1>9. (status \in {"running", "done", "crashed"})'
  BY <1>1
<1>10. Len(rows') <= 6 /\ (status' = "running" => Len(rows') < 6)
  BY <1>1, <1>3, <1>4, <1>6
<1>11. QED
  BY <1>6, <1>7, <1>8, <1>9, <1>10, SixPolicies DEF IInv

LEMMA NextKeeps == IInv /\ [Next]_vars => IInv'
<1> SUFFICES ASSUME IInv, [Next]_vars PROVE IInv'
  OBVIOUS
<1>1. /\ processes = Len(src) /\ elevatorUp \in BOOLEAN
      /\ start \in Nat /\ src \in Seq(Entries)
  BY CylinderIsNat DEF IInv, Config
<1>2. WithEnds = EndsAround(start, src)
  BY DEF WithEnds, EndsAround
<1>3. CASE Fcfs
  <2>1. /\ src = Served(start, src, "FCFS", elevatorUp')
        /\ processes = Len(Requests(start, src, "FCFS"))
    BY <1>1 DEF Served, Requests
  <2>2. QED
    BY <1>1, <1>3, <2>1, TickKeeps DEF Fcfs
<1>4. CASE Sstf
  <2>1. CASE src = << >>
    <3>1. /\ status' = "crashed" /\ UNCHANGED <<rows, start, src, processes, elevatorUp>>
      BY <1>4, <2>1 DEF Sstf
    <3>2. RowsFor(start, src)' = RowsFor(start, src)
      BY <3>1 DEF RowsFor, RowFor, Served, Requests, EndsAround, Entry
    <3>3. Config(start, src)'
      BY <3>1 DEF IInv, Config, Entry
    <3>4. QED
      BY <3>1, <3>2, <3>3 DEF IInv
  <2>2. CASE src # << >>
    <3>1. /\ ListSort(By("SSTF", elevatorUp), src) = Served(start, src, "SSTF", elevatorUp)
          /\ processes = Len(Requests(start, src, "SSTF"))
      BY <1>1 DEF Served, Requests
    <3>2. QED
      BY <1>1, <1>4, <2>2, <3>1, TickKeeps DEF Sstf
  <2>3. QED
    BY <2>1, <2>2
<1>5. ASSUME NEW policy \in {"SCAN", "CSCAN"}, Scan(policy)
      PROVE  IInv'
  <2>1. Requests(start, src, policy) = WithEnds
    BY <1>2 DEF Requests
  <2>2. ListSort(By(policy, elevatorUp'), WithEnds) = Served(start, src, policy, elevatorUp')
    BY <2>1 DEF Served
  <2>3. processes + 2 = Len(Requests(start, src, policy))
    BY <1>1, <1>2, <2>1, EndsFacts
  <2>4. QED
    BY <1>5, <2>2, <2>3, TickKeeps DEF Scan
<1>6. ASSUME NEW policy \in {"LOOK", "CLOOK"}, Look(policy)
      PROVE  IInv'
  <2>1. Requests(start, src, policy) = src
    BY DEF Requests
  <2>2. ListSort(By(policy, elevatorUp'), src) = Served(start, src, policy, elevatorUp')
    BY <2>1 DEF Served
  <2>3. QED
    BY <1>1, <1>6, <2>1, <2>2, TickKeeps DEF Look
<1>7. CASE UNCHANGED vars
  <2>1. UNCHANGED <<start, src, processes, elevatorUp, status, rows>>
    BY <1>7 DEF vars
  <2>2. RowsFor(start, src)' = RowsFor(start, src)
    BY <2>1 DEF RowsFor, RowFor, Served, Requests, EndsAround, Entry
  <2>3. Config(start, src)'
    BY <2>1 DEF IInv, Config, Entry
  <2>4. QED
    BY <2>1, <2>2, <2>3 DEF IInv
<1>8. QED
  BY <1>3, <1>4, <1>5, <1>6, <1>7 DEF Next

LEMMA InvariantHolds == Spec => []IInv
BY InitConfig, NextKeeps, PTL DEF Spec

(* Every row written is the one that its policy and direction determine.   *)
LEMMA RowWritten ==
  ASSUME IInv, NEW r \in ToSet(rows)
  PROVE  /\ Config(start, src) /\ r.policy \in Names /\ r.up \in BOOLEAN
         /\ r.order = CylindersOf(Served(start, src, r.policy, r.up))
         /\ r.total = Sum(Legs(r.policy, <<start>> \o r.order))
         /\ r.newline = Len(Requests(start, src, r.policy))
<1>1. r \in RowsFor(start, src) /\ Config(start, src)
  BY DEF IInv, ToSet
<1>2. PICK policy \in Names, up \in BOOLEAN : r = RowFor(start, src, policy, up)
  BY <1>1 DEF RowsFor
<1>3. /\ r.policy = policy /\ r.up = up
      /\ r.order = CylindersOf(Served(start, src, policy, up))
      /\ r.total = Sum(Legs(policy, <<start>> \o CylindersOf(Served(start, src, policy, up))))
      /\ r.newline = Len(Requests(start, src, policy))
  BY <1>2 DEF RowFor
<1>4. QED
  BY <1>1, <1>3

LEMMA OrderFacts ==
  \A list \in Seq(Entries) :
    /\ CylindersOf(list) \in Seq(Nat) /\ Len(CylindersOf(list)) = Len(list)
    /\ \A n \in 1..Len(list) : CylindersOf(list)[n] = list[n].cylinder
<1> SUFFICES ASSUME NEW list \in Seq(Entries)
             PROVE  /\ CylindersOf(list) \in Seq(Nat)
                    /\ Len(CylindersOf(list)) = Len(list)
                    /\ \A n \in 1..Len(list) : CylindersOf(list)[n] = list[n].cylinder
  OBVIOUS
<1>1. /\ Len(list) \in Nat /\ DOMAIN list = 1..Len(list)
      /\ \A n \in 1..Len(list) : list[n].cylinder \in Nat
  <2>1. Len(list) \in Nat /\ DOMAIN list = 1..Len(list)
    BY LenProperties
  <2>2. \A n \in 1..Len(list) : list[n] \in Entries
    BY ElementOfSeq
  <2>3. QED
    BY <2>1, <2>2 DEF Entries
<1>2. CylindersOf(list) = [n \in 1..Len(list) |-> list[n].cylinder]
  BY <1>1 DEF CylindersOf
<1>3. QED
  BY <1>1, <1>2

(* A row is printed by a count that is right while it is printed and       *)
(* afterwards (scan_tick, cscan_tick and print_rq, lines 99-125, 142-177   *)
(* and 315-330), for every input file.                                     *)
THEOREM RowsAlwaysOK == Spec => []RowsOK
<1>1. ASSUME IInv
      PROVE  RowsOK
  <2>1. TypeOK
    <3>1. /\ start \in Cylinders /\ src \in Seq(Entries)
          /\ \A n \in 1..Len(src) : \E c \in Cylinders : src[n] = Entry(c, start)
      BY <1>1 DEF IInv, Config
    <3>2. ASSUME NEW n \in DOMAIN src
          PROVE  src[n] \in [cylinder : Cylinders, dist : Nat, up : BOOLEAN]
      <4>1. n \in 1..Len(src)
        BY <3>1
      <4>2. PICK c \in Cylinders : src[n] = Entry(c, start)
        BY <3>1, <4>1
      <4>3. c \in Nat /\ start \in Nat
        BY <3>1, CylinderIsNat
      <4>4. Entry(c, start) \in Entries
        BY <4>3, CylinderIsNat
      <4>5. Entry(c, start).cylinder = c
        BY DEF Entry
      <4>6. QED
        BY <4>2, <4>4, <4>5 DEF Entries
    <3>3. QED
      BY <1>1, <3>1, <3>2 DEF IInv, TypeOK
  <2>2. RowsAreLines
    <3> SUFFICES ASSUME NEW r \in ToSet(rows)
                 PROVE  r.newline = Len(r.order)
      BY DEF RowsAreLines
    <3> DEFINE new == Served(start, src, r.policy, r.up)
    <3>1. /\ Config(start, src) /\ r.policy \in Names /\ r.up \in BOOLEAN
          /\ r.newline = Len(Requests(start, src, r.policy)) /\ r.order = CylindersOf(new)
      BY <1>1, RowWritten
    <3>2. new \in Seq(Entries) /\ Len(new) = Len(Requests(start, src, r.policy))
      BY <3>1, ServedFacts
    <3> HIDE DEF new
    <3>3. QED
      BY <3>1, <3>2, OrderFacts
  <2>3. QED
    BY <2>1, <2>2 DEF RowsOK
<1>2. QED
  BY <1>1, InvariantHolds, PTL

(* Whatever the length of the list, the merge sort of list.h:363 serves    *)
(* every request exactly once, in the order of the compare function and,   *)
(* where that finds no difference, in the order of the file.               *)
THEOREM AlwaysInStableOrder == Spec => []InStableOrder
<1>1. ASSUME IInv
      PROVE  InStableOrder
  <2> SUFFICES ASSUME NEW r \in ToSet(rows), r.policy # "FCFS"
               PROVE  LET list == IF r.policy \in {"SCAN", "CSCAN"} THEN WithEnds ELSE src
                      IN /\ Len(r.order) = Len(list)
                         /\ \A n \in DOMAIN list :
                              r.order[Place(By(r.policy, r.up), list, n)] = list[n].cylinder
    BY DEF InStableOrder
  <2> DEFINE list == IF r.policy \in {"SCAN", "CSCAN"} THEN WithEnds ELSE src
             new  == Served(start, src, r.policy, r.up)
             by   == By(r.policy, r.up)
  <2>1. /\ Config(start, src) /\ r.policy \in Names /\ r.up \in BOOLEAN
        /\ r.order = CylindersOf(new)
    BY <1>1, RowWritten
  <2>2. list = Requests(start, src, r.policy)
    BY DEF Requests, WithEnds, EndsAround
  <2>4. /\ list \in Seq(Entries) /\ new \in Seq(Entries) /\ Len(new) = Len(list)
        /\ by \in Orders /\ \E rho : OrderedBy(by, list, new, rho)
    <3> HIDE DEF list
    <3>1. QED
      BY <2>1, <2>2, ServedFacts
  <2> HIDE DEF list, new, by
  <2>5. PICK rho : OrderedBy(by, list, new, rho)
    BY <2>4
  <2>6. Len(r.order) = Len(list)
    BY <2>1, <2>4, OrderFacts
  <2>7. ASSUME NEW n \in DOMAIN list
        PROVE  r.order[Place(by, list, n)] = list[n].cylinder
    <3>1. n \in 1..Len(list)
      BY <2>4
    <3> DEFINE all == 1..Len(list)
    <3>2. AllPlaced(by, list, rho)
      BY <2>4, <2>5, PlaceOf
    <3> HIDE DEF all
    <3>3. PICK x \in all : rho[x] = n
      BY <3>1, <3>2, Zenon DEF all, AllPlaced
    <3>4. Place(by, list, n) = x
      BY <3>2, <3>3, Zenon DEF all, AllPlaced
    <3>5. new[x] = list[n] /\ x \in 1..Len(new)
      BY <2>4, <2>5, <3>3 DEF OrderedBy, all
    <3>6. CylindersOf(new)[x] = new[x].cylinder
      BY <2>4, <3>5, OrderFacts
    <3>7. QED
      BY <2>1, <3>4, <3>5, <3>6
  <2>8. QED
    BY <2>6, <2>7 DEF list, by
<1>2. QED
  BY <1>1, InvariantHolds, PTL

-----------------------------------------------------------------------------
(***************************************************************************)
(* The totals.                                                             *)
(***************************************************************************)
(* A leg adds the distance (lines 53, 79, 119, 200, 228-240): where        *)
(* CLOOK adds a sum one of its terms is zero.                              *)
LEMMA LegFacts ==
  \A prev, c \in Nat : \A policy :
    policy # "CSCAN" => Leg(policy, prev, c) = Distance(prev, c)
<1> SUFFICES ASSUME NEW prev \in Nat, NEW c \in Nat,
                    NEW policy, policy # "CSCAN"
             PROVE  Leg(policy, prev, c) = Distance(prev, c)
  OBVIOUS
<1>1. Distance(prev, c) \in Nat /\ (c = 0 => Distance(prev, c) = prev)
  BY DEF Distance
<1>2. Leg(policy, prev, c) \in {Distance(prev, c), LegCircular(policy, prev, c)}
  BY DEF Leg
<1>3. LegCircular(policy, prev, c) = IF c = 0 THEN prev + c ELSE Distance(prev, c) + 0
  BY DEF LegCircular, LOWEST_LEVEL
<1>4. QED
  BY <1>1, <1>2, <1>3

LEMMA PathTotals ==
  \A path \in Seq(Nat) : \A policy :
    policy # "CSCAN" => Sum(Legs(policy, path)) = Movement(path)
<1> SUFFICES ASSUME NEW path \in Seq(Nat), NEW policy, policy # "CSCAN"
             PROVE  Sum(Legs(policy, path)) = Movement(path)
  OBVIOUS
<1> DEFINE N == Len(path) - 1
<1>1. \A n \in 1..N : path[n] \in Nat /\ path[n + 1] \in Nat
  <2>1. \A n \in 1..N : n \in 1..Len(path) /\ n + 1 \in 1..Len(path)
    BY LenProperties
  <2>2. QED
    BY <2>1, ElementOfSeq
<1>2. \A n \in 1..N : Leg(policy, path[n], path[n + 1]) = Distance(path[n], path[n + 1])
  BY <1>1, LegFacts
<1>3. Legs(policy, path) = [n \in 1..N |-> Distance(path[n], path[n + 1])]
  BY <1>2 DEF Legs
<1>4. QED
  BY <1>3 DEF Movement

(* The totals the program prints for the five policies other than CSCAN    *)
(* are the way of the head (lines 41-125, 180-244), for every input file.  *)
THEOREM AlwaysTotalsAreMovement == Spec => []TotalsAreMovement
<1>1. ASSUME IInv
      PROVE  TotalsAreMovement
  <2>1. ASSUME NEW r \in ToSet(rows), r.policy # "CSCAN"
        PROVE  r.total = Movement(Path(r))
    <3> DEFINE new == Served(start, src, r.policy, r.up)
               path == Path(r)
    <3>1. /\ Config(start, src) /\ r.policy \in Names /\ r.up \in BOOLEAN
          /\ r.order = CylindersOf(new)
          /\ r.total = Sum(Legs(r.policy, path))
      BY <1>1, RowWritten DEF Path
    <3>2. new \in Seq(Entries)
      BY <3>1, ServedFacts
    <3>3. r.order \in Seq(Nat)
      BY <3>1, <3>2, OrderFacts
    <3>4. path \in Seq(Nat)
      <4>1. start \in Nat
        BY <3>1, CylinderIsNat DEF Config
      <4>2. QED
        BY <3>3, <4>1 DEF Path
    <3> HIDE DEF path
    <3>5. Sum(Legs(r.policy, path)) = Movement(path)
      BY <2>1, <3>4, PathTotals
    <3>6. QED
      BY <3>1, <3>5 DEF path
  <2>2. QED
    BY <2>1 DEF TotalsAreMovement
<1>2. QED
  BY <1>1, InvariantHolds, PTL

-----------------------------------------------------------------------------
(***************************************************************************)
(* The sweeps.                                                             *)
(***************************************************************************)
(* an entry and the side of the start that it is on                        *)
OnASide(st, e) ==
  /\ e \in Entries
  /\ e.up => e.cylinder >= st /\ e.dist = e.cylinder - st
  /\ ~e.up => e.cylinder <= st /\ e.dist = st - e.cylinder

Sweep(st, by, list) ==
  /\ list \in Seq(Entries) /\ InOrder(by, list)
  /\ \A n \in 1..Len(list) : OnASide(st, list[n])

LEMMA RequestsOnASide ==
  \A st, list, policy : Config(st, list) =>
    \A n \in 1..Len(Requests(st, list, policy)) :
      OnASide(st, Requests(st, list, policy)[n])
<1> SUFFICES ASSUME NEW st, NEW list, NEW policy, Config(st, list),
                    NEW n \in 1..Len(Requests(st, list, policy))
             PROVE  OnASide(st, Requests(st, list, policy)[n])
  OBVIOUS
<1>1. /\ st \in Nat /\ st <= HIGHEST_LEVEL /\ HIGHEST_LEVEL \in Nat /\ LOWEST_LEVEL \in Nat
      /\ list \in Seq(Entries) /\ Len(list) \in Nat
  BY CylinderIsNat, LenProperties DEF Config
<1>2. ASSUME NEW c \in Nat
      PROVE  OnASide(st, Entry(c, st))
  <2>1. Entry(c, st) \in Entries
    BY <1>1, CylinderIsNat
  <2>2. /\ Entry(c, st).up = (c > st) /\ Entry(c, st).cylinder = c
        /\ Entry(c, st).dist = IF c > st THEN c - st ELSE st - c
    BY DEF Entry, Distance
  <2> DEFINE e == Entry(c, st)
  <2> HIDE DEF e
  <2>3. /\ e \in Entries /\ e.up = (c > st) /\ e.cylinder = c
        /\ e.dist = IF c > st THEN c - st ELSE st - c
    BY <2>1, <2>2 DEF e
  <2>4. CASE c > st
    <3>1. e.up = TRUE /\ e.dist = c - st
      BY <2>3, <2>4
    <3>2. OnASide(st, e)
      BY <1>1, <2>3, <2>4, <3>1 DEF OnASide
    <3>3. QED
      BY <3>2 DEF e
  <2>5. CASE ~(c > st)
    <3>1. e.up = FALSE /\ e.dist = st - c
      <4>1. e.up \in {TRUE, FALSE}
        BY <2>3 DEF Entries
      <4>2. QED
        BY <2>3, <2>5, <4>1
    <3>2. OnASide(st, e)
      BY <1>1, <2>3, <2>5, <3>1 DEF OnASide
    <3>3. QED
      BY <3>2 DEF e
  <2>6. QED
    BY <2>4, <2>5
<1>3. OnASide(st, [Entry(HIGHEST_LEVEL, st) EXCEPT !.up = TRUE])
  <2> DEFINE e == [Entry(HIGHEST_LEVEL, st) EXCEPT !.up = TRUE]
  <2>1. e \in Entries
    BY <1>1, CylinderIsNat
  <2>2. /\ e.up = TRUE /\ e.cylinder = HIGHEST_LEVEL
        /\ e.dist = Distance(HIGHEST_LEVEL, st)
    BY DEF Entry
  <2> HIDE DEF e
  <2>3. Distance(HIGHEST_LEVEL, st) = HIGHEST_LEVEL - st
    BY <1>1 DEF Distance
  <2>4. OnASide(st, e)
    BY <1>1, <2>1, <2>2, <2>3 DEF OnASide
  <2>5. QED
    BY <2>4 DEF e
<1>4. ASSUME NEW m \in 1..Len(list)
      PROVE  OnASide(st, list[m])
  <2>1. PICK c \in Cylinders : list[m] = Entry(c, st)
    BY DEF Config
  <2>2. QED
    BY <1>2, <2>1, CylinderIsNat
<1>5. CASE policy \in {"SCAN", "CSCAN"}
  <2> DEFINE e == EndsAround(st, list)
  <2>1. Requests(st, list, policy) = e
    BY <1>5 DEF Requests
  <2>2. /\ Len(e) = Len(list) + 2
        /\ e[1] = Entry(LOWEST_LEVEL, st)
        /\ e[Len(list) + 2] = [Entry(HIGHEST_LEVEL, st) EXCEPT !.up = TRUE]
        /\ \A m \in 1..Len(list) : e[m + 1] = list[m]
    BY <1>1, EndsFacts
  <2> HIDE DEF e
  <2>3. \/ n = 1 \/ n = Len(list) + 2
        \/ n - 1 \in 1..Len(list) /\ (n - 1) + 1 = n
    BY <1>1, <2>1, <2>2
  <2>4. CASE n - 1 \in 1..Len(list) /\ (n - 1) + 1 = n
    <3>1. e[n] = list[n - 1]
      BY <2>2, <2>4
    <3>2. QED
      BY <1>4, <2>1, <2>4, <3>1
  <2>5. QED
    BY <1>1, <1>2, <1>3, <2>1, <2>2, <2>3, <2>4
<1>6. CASE policy \notin {"SCAN", "CSCAN"}
  BY <1>4, <1>6 DEF Requests
<1>7. QED
  BY <1>5, <1>6

LEMMA OrderedSweeps ==
  \A by \in Orders : \A st, list, new, rho :
    /\ list \in Seq(Entries) /\ OrderedBy(by, list, new, rho)
    /\ \A n \in 1..Len(list) : OnASide(st, list[n])
    => Sweep(st, by, new)
<1> SUFFICES ASSUME NEW by \in Orders, NEW st, NEW list, NEW new, NEW rho,
                    list \in Seq(Entries), OrderedBy(by, list, new, rho),
                    \A n \in 1..Len(list) : OnASide(st, list[n])
             PROVE  Sweep(st, by, new)
  OBVIOUS
<1>1. /\ new \in Seq(Entries) /\ Len(new) = Len(list) /\ Len(list) \in Nat
      /\ \A i \in 1..Len(list) : rho[i] \in 1..Len(list) /\ new[i] = list[rho[i]]
  BY LenProperties DEF OrderedBy
<1>2. \A n \in 1..Len(new) : OnASide(st, new[n])
  BY <1>1
<1>3. ASSUME NEW x \in 1..Len(new), NEW y \in 1..Len(new), x < y
      PROVE  ~After(by, new[x], new[y])
  <2>1. Ahead(by, list, rho[x], rho[y]) /\ new[x] = list[rho[x]] /\ new[y] = list[rho[y]]
    BY <1>1, <1>3 DEF OrderedBy
  <2>2. new[x] \in Entries /\ new[y] \in Entries
    BY <1>1
  <2>3. ~After(by, new[x], new[y]) \/ After(by, new[y], new[x])
    BY <2>1 DEF Ahead
  <2>4. QED
    BY <2>2, <2>3, AfterOrder
<1>4. QED
  BY <1>1, <1>2, <1>3 DEF Sweep, InOrder

(* against and along the direction drawn                                   *)
Against(up, path, n) == IF up THEN Down(path, n) ELSE Up(path, n)
Along(up, path, n) == IF up THEN Up(path, n) ELSE Down(path, n)

(* move n of the path ends at entry n of the list, and starts at entry     *)
(* n - 1 or at the start                                                   *)
LEMMA MovesOf ==
  \A st \in Nat : \A list \in Seq(Entries) :
    LET path == <<st>> \o CylindersOf(list)
    IN /\ Len(path) - 1 = Len(list)
       /\ \A n \in 1..Len(list) :
            /\ path[n + 1] = list[n].cylinder
            /\ n = 1 => path[n] = st
            /\ n # 1 => n - 1 \in 1..Len(list) /\ path[n] = list[n - 1].cylinder
<1> SUFFICES ASSUME NEW st \in Nat, NEW list \in Seq(Entries)
             PROVE  LET path == <<st>> \o CylindersOf(list)
                    IN /\ Len(path) - 1 = Len(list)
                       /\ \A n \in 1..Len(list) :
                            /\ path[n + 1] = list[n].cylinder
                            /\ n = 1 => path[n] = st
                            /\ n # 1 => /\ n - 1 \in 1..Len(list)
                                        /\ path[n] = list[n - 1].cylinder
  OBVIOUS
<1> DEFINE order == CylindersOf(list)
           path == <<st>> \o order
<1>1. /\ order \in Seq(Nat) /\ Len(order) = Len(list) /\ Len(list) \in Nat
      /\ \A n \in 1..Len(list) : order[n] = list[n].cylinder
  BY OrderFacts, LenProperties
<1> HIDE DEF order
<1>2. /\ Len(path) = Len(order) + 1 /\ path[1] = st
      /\ \A n \in 1..Len(order) : path[n + 1] = order[n]
  BY <1>1
<1> HIDE DEF path
<1>3. ASSUME NEW n \in 1..Len(list), n # 1
      PROVE  n - 1 \in 1..Len(list) /\ path[n] = list[n - 1].cylinder
  <2>1. n - 1 \in 1..Len(list) /\ (n - 1) + 1 = n
    BY <1>1, <1>3
  <2>2. path[(n - 1) + 1] = order[n - 1]
    BY <1>1, <1>2, <2>1
  <2>3. QED
    BY <1>1, <2>1, <2>2
<1>4. Len(path) - 1 = Len(list)
  BY <1>1, <1>2
<1>5. \A n \in 1..Len(list) : path[n + 1] = list[n].cylinder
  BY <1>1, <1>2, Zenon
<1>6. \A n \in 1..Len(list) :
        /\ path[n + 1] = list[n].cylinder
        /\ n = 1 => path[n] = st
        /\ n # 1 => n - 1 \in 1..Len(list) /\ path[n] = list[n - 1].cylinder
  BY <1>2, <1>3, <1>5, Zenon
<1>7. QED
  BY <1>4, <1>6, Zenon DEF path, order

(* In a sorted list the entries on the side of the direction drawn are     *)
(* ahead of those on the other; they are passed on the way out, and so are *)
(* the others under SCAN and LOOK, while under CSCAN and CLOOK these are   *)
(* passed on the way back.                                                 *)
LEMMA SideOrder ==
  \A by \in Orders : \A st, list :
    Sweep(st, by, list) /\ by.policy # "SSTF" =>
      \A x, y \in 1..Len(list) : x < y =>
        /\ list[y].up = by.up => list[x].up = by.up
        /\ list[y].up = by.up => list[x].dist <= list[y].dist
        /\ list[x].up # by.up =>
             IF by.policy \in {"SCAN", "LOOK"} THEN list[x].dist <= list[y].dist
                                               ELSE list[y].dist <= list[x].dist
<1> SUFFICES ASSUME NEW by \in Orders, NEW st, NEW list,
                    Sweep(st, by, list), by.policy # "SSTF",
                    NEW x \in 1..Len(list), NEW y \in 1..Len(list), x < y
             PROVE  /\ list[y].up = by.up => list[x].up = by.up
                    /\ list[y].up = by.up => list[x].dist <= list[y].dist
                    /\ list[x].up # by.up =>
                         IF by.policy \in {"SCAN", "LOOK"}
                         THEN list[x].dist <= list[y].dist
                         ELSE list[y].dist <= list[x].dist
  OBVIOUS
<1> DEFINE a == list[x]
           b == list[y]
<1>1. a \in Entries /\ b \in Entries /\ ~After(by, a, b)
  BY DEF Sweep, OnASide, InOrder
<1> HIDE DEF a, b
<1>2. /\ a.dist \in Nat /\ b.dist \in Nat
      /\ a.up \in {TRUE, FALSE} /\ b.up \in {TRUE, FALSE} /\ by.up \in {TRUE, FALSE}
      /\ by.policy \in {"SCAN", "CSCAN", "LOOK", "CLOOK"}
  BY <1>1 DEF Entries, Orders
<1>3. CASE by.policy \in {"SCAN", "LOOK"}
  <2>1. ~(IF a.up = b.up THEN a.dist > b.dist ELSE b.up = by.up)
    BY <1>1, <1>3 DEF After
  <2>2. /\ b.up = by.up => a.up = by.up
        /\ b.up = by.up => a.dist <= b.dist
        /\ a.up # by.up => a.dist <= b.dist
    <3>1. CASE a.up = b.up
      BY <1>2, <2>1, <3>1
    <3>2. CASE a.up # b.up
      <4>1. b.up # by.up /\ a.up = by.up
        BY <1>2, <2>1, <3>2
      <4>2. QED
        BY <4>1
    <3>3. QED
      BY <3>1, <3>2
  <2>3. QED
    BY <1>3, <2>2 DEF a, b
<1>4. CASE by.policy \in {"CSCAN", "CLOOK"}
  <2>1. ~(IF a.up # b.up THEN b.up = by.up
          ELSE IF a.up = by.up THEN a.dist > b.dist ELSE a.dist < b.dist)
    BY <1>1, <1>4 DEF After
  <2>2. CASE a.up = b.up
    BY <1>2, <1>4, <2>1, <2>2 DEF a, b
  <2>3. CASE a.up # b.up
    <3>1. b.up # by.up /\ a.up = by.up
      BY <1>2, <2>1, <2>3
    <3>2. QED
      BY <3>1 DEF a, b
  <2>4. QED
    BY <2>2, <2>3
<1>5. QED
  BY <1>2, <1>3, <1>4

(* which way a move goes                                                   *)
LEMMA MoveFacts ==
  \A by \in Orders : \A st \in Nat : \A list :
    Sweep(st, by, list) /\ by.policy # "SSTF" =>
      \A n \in 1..Len(list) :
        LET path == <<st>> \o CylindersOf(list)
        IN /\ list[n].up = by.up => ~Against(by.up, path, n)
           /\ /\ by.policy \in {"SCAN", "LOOK"}
              /\ n # 1 /\ list[n - 1].up # by.up
              => ~Along(by.up, path, n)
           /\ /\ by.policy \in {"CSCAN", "CLOOK"}
              /\ n # 1 /\ list[n - 1].up # by.up
              => ~Against(by.up, path, n)
<1> SUFFICES ASSUME NEW by \in Orders, NEW st \in Nat, NEW list,
                    Sweep(st, by, list), by.policy # "SSTF",
                    NEW n \in 1..Len(list)
             PROVE  LET path == <<st>> \o CylindersOf(list)
                    IN /\ list[n].up = by.up => ~Against(by.up, path, n)
                       /\ /\ by.policy \in {"SCAN", "LOOK"}
                          /\ n # 1 /\ list[n - 1].up # by.up
                          => ~Along(by.up, path, n)
                       /\ /\ by.policy \in {"CSCAN", "CLOOK"}
                          /\ n # 1 /\ list[n - 1].up # by.up
                          => ~Against(by.up, path, n)
  OBVIOUS
<1> DEFINE path == <<st>> \o CylindersOf(list)
           b == list[n]
<1>1. list \in Seq(Entries) /\ Len(list) \in Nat /\ n \in Nat
  BY LenProperties DEF Sweep
<1>2. /\ path[n + 1] = b.cylinder
      /\ n = 1 => path[n] = st
      /\ n # 1 => n - 1 \in 1..Len(list) /\ path[n] = list[n - 1].cylinder
  BY <1>1, MovesOf
<1>3. OnASide(st, b)
  BY DEF Sweep
<1> HIDE DEF path, b
<1>4. b.cylinder \in Nat /\ b.dist \in Nat /\ b.up \in {TRUE, FALSE} /\ by.up \in {TRUE, FALSE}
  BY <1>3 DEF OnASide, Entries, Orders
<1>5. CASE n = 1
  <2>1. b.up = by.up => ~Against(by.up, path, n)
    <3>1. CASE by.up = TRUE
      BY <1>2, <1>3, <1>4, <1>5, <3>1 DEF Against, Down, OnASide
    <3>2. CASE by.up = FALSE
      BY <1>2, <1>3, <1>4, <1>5, <3>2 DEF Against, Up, OnASide
    <3>3. QED
      BY <1>4, <3>1, <3>2
  <2>2. QED
    BY <1>5, <2>1 DEF path, b
<1>6. CASE n # 1
  <2> DEFINE a == list[n - 1]
  <2>1. n - 1 \in 1..Len(list) /\ n - 1 < n /\ path[n] = a.cylinder
    BY <1>1, <1>2, <1>6
  <2>2. OnASide(st, a)
    BY <2>1 DEF Sweep
  <2>3. /\ b.up = by.up => a.up = by.up
        /\ b.up = by.up => a.dist <= b.dist
        /\ a.up # by.up =>
             IF by.policy \in {"SCAN", "LOOK"} THEN a.dist <= b.dist ELSE b.dist <= a.dist
    BY <2>1, SideOrder DEF b
  <2> HIDE DEF a
  <2>4. a.cylinder \in Nat /\ a.dist \in Nat /\ a.up \in {TRUE, FALSE}
    BY <2>2 DEF OnASide, Entries
  <2>5. /\ Down(path, n) <=> a.cylinder > b.cylinder
        /\ Up(path, n) <=> a.cylinder < b.cylinder
    BY <1>2, <2>1 DEF Down, Up
  <2>6. /\ a.up = TRUE => a.cylinder = st + a.dist
        /\ a.up = FALSE => a.cylinder = st - a.dist
        /\ b.up = TRUE => b.cylinder = st + b.dist
        /\ b.up = FALSE => b.cylinder = st - b.dist
    BY <1>3, <1>4, <2>2, <2>4 DEF OnASide
  <2>7. a.up # by.up => b.up = a.up
    BY <1>4, <2>3, <2>4
  <2>8. b.up = by.up => ~Against(by.up, path, n)
    <3>1. CASE by.up = TRUE
      BY <1>4, <2>3, <2>4, <2>5, <2>6, <3>1 DEF Against
    <3>2. CASE by.up = FALSE
      BY <1>4, <2>3, <2>4, <2>5, <2>6, <3>2 DEF Against
    <3>3. QED
      BY <1>4, <3>1, <3>2
  <2>9. ASSUME by.policy \in {"SCAN", "LOOK"}, a.up # by.up
        PROVE  ~Along(by.up, path, n)
    <3>1. a.dist <= b.dist
      BY <2>3, <2>9
    <3>2. CASE by.up = TRUE
      <4>1. a.up = FALSE /\ b.up = FALSE
        BY <1>4, <2>4, <2>7, <2>9, <3>2
      <4>2. a.cylinder = st - a.dist /\ b.cylinder = st - b.dist
        BY <2>6, <4>1
      <4>3. ~Up(path, n)
        BY <1>4, <2>4, <2>5, <3>1, <4>2
      <4>4. QED
        BY <3>2, <4>3 DEF Along
    <3>3. CASE by.up = FALSE
      <4>1. a.up = TRUE /\ b.up = TRUE
        BY <1>4, <2>4, <2>7, <2>9, <3>3
      <4>2. a.cylinder = st + a.dist /\ b.cylinder = st + b.dist
        BY <2>6, <4>1
      <4>3. ~Down(path, n)
        BY <1>4, <2>4, <2>5, <3>1, <4>2
      <4>4. QED
        BY <3>3, <4>3 DEF Along
    <3>4. QED
      BY <1>4, <3>2, <3>3
  <2>10. ASSUME by.policy \in {"CSCAN", "CLOOK"}, a.up # by.up
         PROVE  ~Against(by.up, path, n)
    <3>1. b.dist <= a.dist
      BY <2>3, <2>10
    <3>2. CASE by.up = TRUE
      <4>1. a.up = FALSE /\ b.up = FALSE
        BY <1>4, <2>4, <2>7, <2>10, <3>2
      <4>2. a.cylinder = st - a.dist /\ b.cylinder = st - b.dist
        BY <2>6, <4>1
      <4>3. ~Down(path, n)
        BY <1>4, <2>4, <2>5, <3>1, <4>2
      <4>4. QED
        BY <3>2, <4>3 DEF Against
    <3>3. CASE by.up = FALSE
      <4>1. a.up = TRUE /\ b.up = TRUE
        BY <1>4, <2>4, <2>7, <2>10, <3>3
      <4>2. a.cylinder = st + a.dist /\ b.cylinder = st + b.dist
        BY <2>6, <4>1
      <4>3. ~Up(path, n)
        BY <1>4, <2>4, <2>5, <3>1, <4>2
      <4>4. QED
        BY <3>3, <4>3 DEF Against
    <3>4. QED
      BY <1>4, <3>2, <3>3
  <2>11. QED
    BY <2>8, <2>9, <2>10 DEF path, a, b
<1>7. QED
  BY <1>5, <1>6

(* SCAN and LOOK turn around at most once.                                 *)
LEMMA TurnsOnce ==
  \A by \in Orders : \A st \in Nat : \A list :
    Sweep(st, by, list) /\ by.policy \in {"SCAN", "LOOK"} =>
      \A m, n \in 1..Len(list) :
        m < n /\ Against(by.up, <<st>> \o CylindersOf(list), m)
        => ~Along(by.up, <<st>> \o CylindersOf(list), n)
<1> SUFFICES ASSUME NEW by \in Orders, NEW st \in Nat, NEW list,
                    Sweep(st, by, list), by.policy \in {"SCAN", "LOOK"},
                    NEW m \in 1..Len(list), NEW n \in 1..Len(list), m < n,
                    Against(by.up, <<st>> \o CylindersOf(list), m)
             PROVE  ~Along(by.up, <<st>> \o CylindersOf(list), n)
  OBVIOUS
<1> DEFINE path == <<st>> \o CylindersOf(list)
<1>1. list[m].up # by.up
  BY MoveFacts
<1>2. /\ m \in Nat /\ n \in Nat /\ n # 1 /\ n - 1 \in 1..Len(list)
      /\ (m = n - 1 \/ m < n - 1)
  BY LenProperties DEF Sweep
<1>3. list[n - 1].up # by.up
  <2>1. CASE m = n - 1
    BY <1>1, <2>1
  <2>2. CASE m < n - 1
    BY <1>1, <1>2, <2>2, SideOrder
  <2>3. QED
    BY <1>2, <2>1, <2>2
<1>4. QED
  BY <1>2, <1>3, MoveFacts

(* CSCAN and CLOOK jump back at most once.                                 *)
LEMMA JumpsOnce ==
  \A by \in Orders : \A st \in Nat : \A list :
    Sweep(st, by, list) /\ by.policy \in {"CSCAN", "CLOOK"} =>
      Cardinality({n \in 1..Len(list) :
                     Against(by.up, <<st>> \o CylindersOf(list), n)}) <= 1
<1> SUFFICES ASSUME NEW by \in Orders, NEW st \in Nat, NEW list,
                    Sweep(st, by, list), by.policy \in {"CSCAN", "CLOOK"}
             PROVE  Cardinality({n \in 1..Len(list) :
                       Against(by.up, <<st>> \o CylindersOf(list), n)}) <= 1
  OBVIOUS
<1> DEFINE path == <<st>> \o CylindersOf(list)
           S == {n \in 1..Len(list) : Against(by.up, path, n)}
<1>1. ASSUME NEW n \in S, NEW m \in S, m < n
      PROVE  FALSE
  <2>1. list[m].up # by.up
    BY MoveFacts
  <2>2. /\ m \in Nat /\ n \in Nat /\ n # 1 /\ n - 1 \in 1..Len(list)
        /\ (m = n - 1 \/ m < n - 1)
    BY <1>1, LenProperties DEF Sweep
  <2>3. list[n - 1].up # by.up
    <3>1. CASE m = n - 1
      BY <2>1, <3>1
    <3>2. CASE m < n - 1
      BY <2>1, <2>2, <3>2, SideOrder
    <3>3. QED
      BY <2>2, <3>1, <3>2
  <2>4. QED
    BY <2>2, <2>3, MoveFacts
<1>2. S \subseteq Nat
  OBVIOUS
<1> HIDE DEF S
<1>3. \A n, m \in S : n = m
  BY <1>1, <1>2
<1>4. CASE S = {}
  <2>1. Cardinality(S) = 0
    BY <1>4, FS_EmptySet
  <2>2. QED
    BY <2>1 DEF S
<1>5. CASE S # {}
  <2>1. PICK n \in S : TRUE
    BY <1>5
  <2>2. S = {n}
    BY <1>3, <2>1
  <2>3. Cardinality(S) = 1
    BY <2>2, FS_Singleton
  <2>4. QED
    BY <2>3 DEF S
<1>6. QED
  BY <1>4, <1>5

(* There is one stable order.                                              *)
LEMMA OneOrder ==
  \A by \in Orders : \A list \in Seq(Entries) : \A one, rho, other, tau :
    OrderedBy(by, list, one, rho) /\ OrderedBy(by, list, other, tau) => one = other
<1> SUFFICES ASSUME NEW by \in Orders, NEW list \in Seq(Entries),
                    NEW one, NEW rho, NEW other, NEW tau,
                    OrderedBy(by, list, one, rho), OrderedBy(by, list, other, tau)
             PROVE  one = other
  OBVIOUS
<1>1. AllPlaced(by, list, rho) /\ AllPlaced(by, list, tau)
  BY PlaceOf
<1>2. /\ one \in Seq(Entries) /\ other \in Seq(Entries)
      /\ Len(one) = Len(list) /\ Len(other) = Len(list)
      /\ \A i \in 1..Len(list) :
           /\ one[i] = list[rho[i]] /\ other[i] = list[tau[i]]
           /\ tau[i] \in 1..Len(list)
  BY DEF OrderedBy
<1>3. ASSUME NEW x \in 1..Len(list)
      PROVE  one[x] = other[x]
  <2>1. PICK y \in 1..Len(list) : rho[y] = tau[x]
    BY <1>1, <1>2 DEF AllPlaced
  <2>2. Place(by, list, rho[y]) = y /\ Place(by, list, tau[x]) = x
    BY <1>1 DEF AllPlaced
  <2>3. y = x
    BY <2>1, <2>2
  <2>4. QED
    BY <1>2, <2>1, <2>3
<1>4. QED
  BY <1>2, <1>3

(* SCAN sorts as LOOK does, and CSCAN as CLOOK.                            *)
Same(p, q) == <<p, q>> \in {<<"SCAN", "LOOK">>, <<"CSCAN", "CLOOK">>}

LEMMA SameOrder ==
  \A p, q : Same(p, q) =>
    \A up, list, new, rho :
      OrderedBy(By(p, up), list, new, rho) => OrderedBy(By(q, up), list, new, rho)
<1> SUFFICES ASSUME NEW p, NEW q, Same(p, q), NEW up, NEW list, NEW new, NEW rho,
                    OrderedBy(By(p, up), list, new, rho)
             PROVE  OrderedBy(By(q, up), list, new, rho)
  OBVIOUS
<1>1. \A a, b : After(By(p, up), a, b) <=> After(By(q, up), a, b)
  BY DEF Same, By, After
<1>2. \A x, y : Ahead(By(p, up), list, x, y) <=> Ahead(By(q, up), list, x, y)
  BY <1>1 DEF Ahead
<1>3. QED
  BY <1>2 DEF OrderedBy

(* Without the entries of the two ends the order is one of the requests.   *)
LEMMA WithoutEnds ==
  ASSUME NEW by \in Orders, NEW st \in Nat, NEW list \in Seq(Entries),
         NEW new, NEW sig, NEW ends,
         OrderedBy(by, EndsAround(st, list), new, sig),
         ends.lo \in 1..Len(list) + 2, ends.hi \in 1..Len(list) + 2,
         ends.lo < ends.hi,
         {sig[ends.lo], sig[ends.hi]} = {1, Len(list) + 2}
  PROVE  \E tau : OrderedBy(by, list,
                            RemoveAt(RemoveAt(new, ends.hi), ends.lo), tau)
<1> DEFINE N == Len(list)
           e == EndsAround(st, list)
           lo == ends.lo
           hi == ends.hi
           once == RemoveAt(new, hi)
           twice == RemoveAt(once, lo)
           t(j) == IF j < lo THEN j ELSE IF j + 1 < hi THEN j + 1 ELSE j + 2
           tau == [j \in 1..N |-> sig[t(j)] - 1]
<1>1. /\ N \in Nat /\ lo \in 1..N + 2 /\ hi \in 1..N + 2 /\ lo < hi
      /\ {sig[lo], sig[hi]} = {1, N + 2}
  BY LenProperties
<1>2. Len(e) = N + 2 /\ \A n \in 1..N : e[n + 1] = list[n]
  BY EndsFacts
<1> HIDE DEF e
<1>3. /\ new \in Seq(Entries) /\ Len(new) = N + 2
      /\ sig \in [1..N + 2 -> 1..N + 2]
      /\ \A i \in 1..N + 2 : new[i] = e[sig[i]]
      /\ \A i, j \in 1..N + 2 :
           i < j => sig[i] # sig[j] /\ Ahead(by, e, sig[i], sig[j])
  BY <1>2 DEF OrderedBy, e
<1> HIDE DEF N, lo, hi
<1>4. /\ once \in Seq(Entries) /\ Len(once) = N + 1
      /\ \A j \in 1..N + 1 : once[j] = IF j < hi THEN new[j] ELSE new[j + 1]
  <2>1. hi \in 1..Len(new) /\ Len(new) - 1 = N + 1
    BY <1>1, <1>3
  <2>2. /\ RemoveAt(new, hi) \in Seq(Entries)
        /\ Len(RemoveAt(new, hi)) = Len(new) - 1
        /\ \A j \in 1..Len(new) - 1 :
             RemoveAt(new, hi)[j] = IF j < hi THEN new[j] ELSE new[j + 1]
    <3>1. new \in Seq(Entries) /\ hi \in 1..Len(new)
      BY <1>3, <2>1
    <3>2. QED
      BY <3>1, RemoveAtFacts
  <2>3. QED
    BY <2>1, <2>2, Zenon DEF once
<1> HIDE DEF once
<1>5. /\ twice \in Seq(Entries) /\ Len(twice) = N
      /\ \A j \in 1..N : twice[j] = IF j < lo THEN once[j] ELSE once[j + 1]
  <2>1. lo \in 1..Len(once) /\ Len(once) - 1 = N
    BY <1>1, <1>4
  <2>2. QED
    BY <1>4, <2>1, RemoveAtFacts
<1> HIDE DEF twice
<1>6. ASSUME NEW j \in 1..N
      PROVE  t(j) \in 1..N + 2 /\ t(j) # lo /\ t(j) # hi /\ twice[j] = new[t(j)]
  <2>1. t(j) \in 1..N + 2 /\ t(j) # lo /\ t(j) # hi
    BY <1>1
  <2>2. twice[j] = new[t(j)]
    <3>1. CASE j < lo
      <4>1. j \in 1..N + 1 /\ j < hi
        BY <1>1, <3>1
      <4>2. QED
        BY <1>4, <1>5, <3>1, <4>1
    <3>2. CASE ~(j < lo)
      <4>1. j + 1 \in 1..N + 1 /\ (j + 1) + 1 = j + 2
        BY <1>1
      <4>2. QED
        BY <1>4, <1>5, <3>2, <4>1
    <3>3. QED
      BY <3>1, <3>2
  <2>3. QED
    BY <2>1, <2>2
<1>7. \A i, j \in 1..N : i < j => t(i) < t(j)
  BY <1>1
<1> HIDE DEF t
<1>8. ASSUME NEW i \in 1..N + 2, NEW j \in 1..N + 2, sig[i] = sig[j]
      PROVE  i = j
  <2>1. ~(i < j) /\ ~(j < i)
    BY <1>3, <1>8
  <2>2. QED
    BY <1>1, <2>1
<1>9. ASSUME NEW j \in 1..N
      PROVE  /\ tau[j] \in 1..N /\ tau[j] + 1 = sig[t(j)]
             /\ twice[j] = list[tau[j]]
  <2>1. t(j) \in 1..N + 2 /\ t(j) # lo /\ t(j) # hi /\ twice[j] = new[t(j)]
    BY <1>6
  <2> DEFINE x == sig[t(j)]
  <2>2. x \in 1..N + 2
    BY <1>3, <2>1
  <2>3. x # sig[lo] /\ x # sig[hi]
    BY <1>1, <1>8, <2>1
  <2>4. x # 1 /\ x # N + 2
    BY <1>1, <2>3
  <2>5. tau[j] = x - 1
    OBVIOUS
  <2> HIDE DEF x, tau
  <2>6. tau[j] \in 1..N /\ tau[j] + 1 = x
    BY <1>1, <2>2, <2>4, <2>5
  <2>7. e[x] = list[tau[j]]
    <3>1. e[tau[j] + 1] = list[tau[j]]
      BY <1>2, <2>6
    <3>2. QED
      BY <2>6, <3>1
  <2>8. new[t(j)] = e[x]
    BY <1>3, <2>1 DEF x
  <2>9. QED
    BY <2>1, <2>6, <2>7, <2>8 DEF x
<1>10. tau \in [1..N -> 1..N]
  BY <1>9
<1> HIDE DEF tau
<1>11. ASSUME NEW i \in 1..N, NEW j \in 1..N, i < j
       PROVE  tau[i] # tau[j] /\ Ahead(by, list, tau[i], tau[j])
  <2>1. t(i) < t(j) /\ t(i) \in 1..N + 2 /\ t(j) \in 1..N + 2
    BY <1>6, <1>7, <1>11
  <2>2. sig[t(i)] # sig[t(j)] /\ Ahead(by, e, sig[t(i)], sig[t(j)])
    BY <1>3, <2>1
  <2> DEFINE a == tau[i]
             b == tau[j]
  <2>3. /\ a \in 1..N /\ b \in 1..N /\ a + 1 # b + 1 /\ Ahead(by, e, a + 1, b + 1)
    BY <1>9, <2>2
  <2> HIDE DEF a, b
  <2>4. /\ e[a + 1] = list[a] /\ e[b + 1] = list[b]
        /\ a + 1 < b + 1 <=> a < b
    <3>1. e[a + 1] = list[a] /\ e[b + 1] = list[b]
      BY <1>2, <2>3, Zenon
    <3>2. a + 1 < b + 1 <=> a < b
      BY <1>1, <2>3
    <3>3. QED
      BY <3>1, <3>2
  <2>5. a # b /\ Ahead(by, list, a, b)
    BY <2>3, <2>4 DEF Ahead
  <2>6. QED
    BY <2>5 DEF a, b
<1>12. OrderedBy(by, list, twice, tau)
  BY <1>5, <1>9, <1>10, <1>11 DEF OrderedBy, N
<1>13. QED
  BY <1>12 DEF twice, once, lo, hi

LEMMA RemoveFromOrder ==
  \A list \in Seq(Entries) : \A i \in 1..Len(list) :
    /\ RemoveAt(list, i) \in Seq(Entries)
    /\ Len(RemoveAt(list, i)) = Len(list) - 1
    /\ CylindersOf(RemoveAt(list, i)) = RemoveAt(CylindersOf(list), i)
<1> SUFFICES ASSUME NEW list \in Seq(Entries), NEW i \in 1..Len(list)
             PROVE  /\ RemoveAt(list, i) \in Seq(Entries)
                    /\ Len(RemoveAt(list, i)) = Len(list) - 1
                    /\ CylindersOf(RemoveAt(list, i)) = RemoveAt(CylindersOf(list), i)
  OBVIOUS
<1> DEFINE N == Len(list)
           l == RemoveAt(list, i)
           o == CylindersOf(list)
           c == RemoveAt(o, i)
<1>1. N \in Nat /\ N - 1 \in Nat
  BY LenProperties
<1>2. /\ l \in Seq(Entries) /\ Len(l) = N - 1
      /\ \A j \in 1..N - 1 : l[j] = IF j < i THEN list[j] ELSE list[j + 1]
  BY RemoveAtFacts
<1>3. o \in Seq(Nat) /\ Len(o) = N /\ \A j \in 1..N : o[j] = list[j].cylinder
  BY OrderFacts
<1> HIDE DEF o
<1>4. /\ c \in Seq(Nat) /\ Len(c) = N - 1
      /\ \A j \in 1..N - 1 : c[j] = IF j < i THEN o[j] ELSE o[j + 1]
  <2>1. i \in 1..Len(o)
    BY <1>3
  <2> HIDE DEF N
  <2>2. QED
    BY <1>3, <2>1, RemoveAtFacts
<1> HIDE DEF l, c
<1>5. /\ CylindersOf(l) \in Seq(Nat) /\ Len(CylindersOf(l)) = N - 1
      /\ \A j \in 1..N - 1 : CylindersOf(l)[j] = l[j].cylinder
  BY <1>2, OrderFacts
<1>6. ASSUME NEW j \in 1..N - 1
      PROVE  CylindersOf(l)[j] = c[j]
  <2>1. j \in 1..N /\ j + 1 \in 1..N
    BY <1>1
  <2>2. CASE j < i
    BY <1>2, <1>3, <1>4, <1>5, <2>1, <2>2
  <2>3. CASE ~(j < i)
    BY <1>2, <1>3, <1>4, <1>5, <2>1, <2>3
  <2>4. QED
    BY <2>2, <2>3
<1>7. CylindersOf(l) = c
  <2> DEFINE cylinders == CylindersOf(l)
             n == N - 1
  <2> HIDE DEF cylinders, n
  <2>1. /\ cylinders \in Seq(Nat) /\ c \in Seq(Nat) /\ Len(cylinders) = n /\ Len(c) = n
        /\ \A j \in 1..n : cylinders[j] = c[j]
    BY <1>4, <1>5, <1>6 DEF cylinders, n
  <2>2. cylinders = c
    BY <2>1, SeqEqual
  <2>3. QED
    BY <2>2 DEF cylinders
<1>8. QED
  BY <1>2, <1>7 DEF l, c, o

(* the list behind a row of the four policies that sweep                   *)
LEMMA RowSweeps ==
  ASSUME IInv, NEW r \in ToSet(rows), r.policy \in {"SCAN", "CSCAN", "LOOK", "CLOOK"}
  PROVE  LET by   == By(r.policy, r.up)
             todo == Requests(start, src, r.policy)
         IN /\ by \in Orders /\ by.policy = r.policy /\ by.up = r.up
            /\ todo \in Seq(Entries)
            /\ \E new : /\ Sweep(start, by, new) /\ r.order = CylindersOf(new)
                        /\ \E rho : OrderedBy(by, todo, new, rho)
<1> DEFINE by   == By(r.policy, r.up)
           todo == Requests(start, src, r.policy)
           new  == Served(start, src, r.policy, r.up)
<1>1. /\ Config(start, src) /\ r.policy \in Names /\ r.up \in BOOLEAN
      /\ r.order = CylindersOf(new)
  BY RowWritten
<1>2. r.policy # "FCFS"
  OBVIOUS
<1>3. /\ by \in Orders /\ todo \in Seq(Entries)
      /\ \E rho : OrderedBy(by, todo, new, rho)
  BY <1>1, <1>2, ServedFacts
<1>4. \A n \in 1..Len(todo) : OnASide(start, todo[n])
  BY <1>1, RequestsOnASide
<1>5. by.policy = r.policy /\ by.up = r.up
  BY DEF By
<1> HIDE DEF by, todo, new
<1>6. Sweep(start, by, new)
  BY <1>3, <1>4, OrderedSweeps
<1>7. QED
  BY <1>1, <1>3, <1>5, <1>6 DEF by, todo

LEMMA SweepsOnce ==
  ASSUME IInv
  PROVE  OneSweep
<1> SUFFICES ASSUME NEW r \in ToSet(rows),
                    r.policy \in {"SCAN", "CSCAN", "LOOK", "CLOOK"}
             PROVE  LET path  == Path(r)
                        moves == 1..Len(path) - 1
                    IN IF r.policy \in {"SCAN", "LOOK"}
                       THEN \A m, n \in moves : m < n =>
                              IF r.up THEN Down(path, m) => ~Up(path, n)
                                      ELSE Up(path, m) => ~Down(path, n)
                       ELSE Cardinality({n \in moves : IF r.up THEN Down(path, n)
                                                               ELSE Up(path, n)}) <= 1
  BY DEF OneSweep
<1> DEFINE by == By(r.policy, r.up)
           path == Path(r)
           N == Len(path) - 1
<1>1. by \in Orders /\ by.policy = r.policy /\ by.up = r.up
  BY RowSweeps
<1>2. PICK new : Sweep(start, by, new) /\ r.order = CylindersOf(new)
  BY RowSweeps
<1>3. start \in Nat
  BY CylinderIsNat DEF IInv, Config
<1>4. path = <<start>> \o CylindersOf(new)
  BY <1>2 DEF Path
<1>5. new \in Seq(Entries) /\ N = Len(new)
  <2>1. new \in Seq(Entries)
    BY <1>2 DEF Sweep
  <2>2. QED
    BY <1>3, <1>4, <2>1, MovesOf
<1> HIDE DEF by, path, N
<1>6. CASE r.policy \in {"SCAN", "LOOK"}
  <2>1. \A m, n \in 1..N : m < n /\ Against(r.up, path, m) => ~Along(r.up, path, n)
    BY <1>1, <1>2, <1>3, <1>4, <1>5, <1>6, TurnsOnce
  <2>2. \A m, n \in 1..N : m < n =>
          IF r.up THEN Down(path, m) => ~Up(path, n)
                  ELSE Up(path, m) => ~Down(path, n)
    BY <2>1 DEF Against, Along
  <2>3. QED
    BY <1>6, <2>2 DEF path, N
<1>7. CASE r.policy \in {"CSCAN", "CLOOK"}
  <2>1. Cardinality({n \in 1..N : Against(r.up, path, n)}) <= 1
    BY <1>1, <1>2, <1>3, <1>4, <1>5, <1>7, JumpsOnce
  <2>2. {n \in 1..N : Against(r.up, path, n)}
        = {n \in 1..N : IF r.up THEN Down(path, n) ELSE Up(path, n)}
    BY DEF Against
  <2>3. QED
    BY <1>7, <2>1, <2>2 DEF path, N
<1>8. QED
  BY <1>6, <1>7

LEMMA StopsBeforeTheEnds ==
  ASSUME IInv
  PROVE  StopsEarly
<1> SUFFICES ASSUME NEW s \in ToSet(rows), NEW l \in ToSet(rows),
                    Same(s.policy, l.policy), s.up = l.up
             PROVE  \E low, high \in DOMAIN s.order :
                      /\ s.order[low] = LOWEST_LEVEL /\ s.order[high] = HIGHEST_LEVEL
                      /\ IF low < high
                         THEN l.order = RemoveAt(RemoveAt(s.order, high), low)
                         ELSE l.order = RemoveAt(RemoveAt(s.order, low), high)
  BY DEF StopsEarly, Same
<1> DEFINE N == Len(src)
           e == EndsAround(start, src)
           p == By(s.policy, s.up)
           q == By(l.policy, l.up)
<1>1. /\ s.policy \in {"SCAN", "CSCAN"} /\ l.policy \in {"LOOK", "CLOOK"}
      /\ Requests(start, src, s.policy) = e /\ Requests(start, src, l.policy) = src
  BY DEF Same, Requests
<1>2. start \in Nat /\ src \in Seq(Entries) /\ N \in Nat
  BY CylinderIsNat, LenProperties DEF IInv, Config
<1>3. /\ e \in Seq(Entries) /\ Len(e) = N + 2
      /\ e[1] = Entry(LOWEST_LEVEL, start)
      /\ e[N + 2] = [Entry(HIGHEST_LEVEL, start) EXCEPT !.up = TRUE]
  BY <1>2, EndsFacts
<1> HIDE DEF e, p, q, N
<1>4. p \in Orders /\ q \in Orders
  BY <1>1, RowSweeps DEF p, q
<1>5. PICK new, sig : OrderedBy(p, e, new, sig) /\ s.order = CylindersOf(new)
  BY <1>1, RowSweeps DEF p
<1>6. PICK short, tau : OrderedBy(q, src, short, tau) /\ l.order = CylindersOf(short)
  BY <1>1, RowSweeps DEF q
<1>7. OrderedBy(q, e, new, sig)
  BY <1>5, SameOrder DEF p, q
<1>8. /\ new \in Seq(Entries) /\ Len(new) = N + 2
      /\ \A i \in 1..N + 2 : new[i] = e[sig[i]]
  BY <1>3, <1>5 DEF OrderedBy
<1>9. \A n \in 1..N + 2 : \E x \in 1..N + 2 : sig[x] = n
  BY <1>3, <1>4, <1>5, PlaceOf DEF AllPlaced
<1>10. PICK low \in 1..N + 2 : sig[low] = 1
  BY <1>2, <1>9
<1>11. PICK high \in 1..N + 2 : sig[high] = N + 2
  BY <1>2, <1>9
<1>12. low # high
  BY <1>2, <1>10, <1>11
<1>13. /\ s.order \in Seq(Nat) /\ Len(s.order) = N + 2 /\ DOMAIN s.order = 1..N + 2
       /\ s.order[low] = LOWEST_LEVEL /\ s.order[high] = HIGHEST_LEVEL
  <2>1. /\ s.order \in Seq(Nat) /\ Len(s.order) = N + 2
        /\ \A i \in 1..N + 2 : s.order[i] = new[i].cylinder
    <3>1. /\ CylindersOf(new) \in Seq(Nat) /\ Len(CylindersOf(new)) = Len(new)
          /\ \A i \in 1..Len(new) : CylindersOf(new)[i] = new[i].cylinder
      BY <1>8, OrderFacts, Zenon
    <3>2. QED
      BY <1>5, <1>8, <3>1, Zenon
  <2>2. DOMAIN s.order = 1..N + 2
    BY <2>1, LenProperties, Zenon
  <2>3. e[1].cylinder = LOWEST_LEVEL /\ e[N + 2].cylinder = HIGHEST_LEVEL
    BY <1>3 DEF Entry
  <2>4. s.order[low] = e[1].cylinder /\ s.order[high] = e[N + 2].cylinder
    <3>1. s.order[low] = new[low].cylinder /\ s.order[high] = new[high].cylinder
      BY <2>1, Zenon
    <3>2. new[low] = e[sig[low]] /\ new[high] = e[sig[high]]
      BY <1>8, Zenon
    <3>3. QED
      BY <1>10, <1>11, <3>1, <3>2, Zenon
  <2>5. QED
    BY <2>1, <2>2, <2>3, <2>4, Zenon
<1>14. ASSUME NEW lo \in 1..N + 2, NEW hi \in 1..N + 2, lo < hi,
              {sig[lo], sig[hi]} = {1, N + 2}
       PROVE  l.order = RemoveAt(RemoveAt(s.order, hi), lo)
  <2> DEFINE ends == [lo |-> lo, hi |-> hi]
  <2>1. ends.lo = lo /\ ends.hi = hi
    OBVIOUS
  <2> HIDE DEF ends
  <2>2. \E rho : OrderedBy(q, src, RemoveAt(RemoveAt(new, hi), lo), rho)
    BY <1>2, <1>4, <1>7, <1>14, <2>1, WithoutEnds DEF e, N
  <2>3. short = RemoveAt(RemoveAt(new, hi), lo)
    BY <1>2, <1>4, <1>6, <2>2, OneOrder
  <2>4. /\ RemoveAt(new, hi) \in Seq(Entries) /\ lo \in 1..Len(RemoveAt(new, hi))
        /\ CylindersOf(RemoveAt(new, hi)) = RemoveAt(s.order, hi)
    <3>1. hi \in 1..Len(new)
      BY <1>8
    <3>2. /\ RemoveAt(new, hi) \in Seq(Entries)
          /\ Len(RemoveAt(new, hi)) = Len(new) - 1
          /\ CylindersOf(RemoveAt(new, hi)) = RemoveAt(CylindersOf(new), hi)
      BY <1>8, <3>1, RemoveFromOrder
    <3>3. lo \in 1..N + 1 /\ Len(new) - 1 = N + 1
      BY <1>2, <1>8, <1>14
    <3>4. QED
      BY <1>5, <3>2, <3>3
  <2>5. CylindersOf(RemoveAt(RemoveAt(new, hi), lo))
        = RemoveAt(CylindersOf(RemoveAt(new, hi)), lo)
    BY <2>4, RemoveFromOrder
  <2>6. QED
    BY <1>6, <2>3, <2>4, <2>5
<1>15. CASE low < high
  <2>1. {sig[low], sig[high]} = {1, N + 2}
    BY <1>10, <1>11
  <2>2. l.order = RemoveAt(RemoveAt(s.order, high), low)
    BY <1>14, <1>15, <2>1
  <2>3. QED
    BY <1>13, <1>15, <2>2
<1>16. CASE ~(low < high)
  <2>1. high < low /\ {sig[high], sig[low]} = {1, N + 2}
    BY <1>2, <1>10, <1>11, <1>12, <1>16
  <2>2. l.order = RemoveAt(RemoveAt(s.order, low), high)
    BY <1>14, <2>1
  <2>3. QED
    BY <1>13, <1>16, <2>2
<1>17. QED
  BY <1>15, <1>16

(* The four policies that sweep do so, and differ as the README says       *)
(* (lines 92-155 and 256-298): SCAN and LOOK turn around at most once,     *)
(* CSCAN and CLOOK jump back at most once, and LOOK and CLOOK are SCAN and *)
(* CSCAN without the ends of the disk, for every input file.               *)
THEOREM AlwaysSweepsAsNamed == Spec => []SweepsAsNamed
<1>1. IInv => SweepsAsNamed
  BY SweepsOnce, StopsBeforeTheEnds DEF SweepsAsNamed
<1>2. QED
  BY <1>1, InvariantHolds, PTL
=============================================================================
