---------------------------- MODULE ListLemmas -----------------------------
(***************************************************************************)
(* Facts the proofs share; nothing here depends on the code.  The first    *)
(* part is about sequences without repetition that list a set: what        *)
(* removing one member and inserting another at the head do to them.  The  *)
(* free list of the allocator and the range list of the driver are such    *)
(* sequences.  The second part is about least numbers and FlattenSeq.      *)
(***************************************************************************)
EXTENDS Integers, SequencesExt, SequenceTheorems, WellFoundedInduction, TLAPS

(* The sequence l lists the members of F, each once. *)
Lists(l, F) ==
  /\ \A b \in F : \E i \in DOMAIN l : l[i] = b
  /\ \A i \in DOMAIN l : l[i] \in F
  /\ \A i, j \in DOMAIN l : l[i] = l[j] => i = j

Without(l, b) == RemoveAt(l, CHOOSE i \in DOMAIN l : l[i] = b)

-----------------------------------------------------------------------------
(* RemoveAt shifts everything behind position i one place forward. *)
LEMMA RemoveAtFacts ==
  ASSUME NEW S, NEW s \in Seq(S), NEW i \in 1..Len(s)
  PROVE  /\ RemoveAt(s, i) \in Seq(S)
         /\ Len(RemoveAt(s, i)) = Len(s) - 1
         /\ \A j \in 1..Len(s) - 1 :
              RemoveAt(s, i)[j] = IF j < i THEN s[j] ELSE s[j + 1]
<1> DEFINE a == SubSeq(s, 1, i - 1)
           c == SubSeq(s, i + 1, Len(s))
<1>1. /\ a \in Seq(S) /\ Len(a) = i - 1
      /\ \A j \in 1..i-1 : a[j] = s[j]
  OBVIOUS
<1>2. /\ c \in Seq(S) /\ Len(c) = Len(s) - i
      /\ \A j \in 1..Len(s)-i : c[j] = s[i + j]
  OBVIOUS
<1>3. RemoveAt(s, i) = a \o c
  BY DEF RemoveAt
<1> HIDE DEF a, c
<1>4. a \o c \in Seq(S) /\ Len(a \o c) = Len(s) - 1
  <2>. a \in Seq(S) /\ c \in Seq(S)
    BY <1>1, <1>2
  <2>1. a \o c \in Seq(S) /\ Len(a \o c) = Len(a) + Len(c)
    OBVIOUS
  <2>2. (i - 1) + (Len(s) - i) = Len(s) - 1
    OBVIOUS
  <2>3. QED
    BY <2>1, <2>2, <1>1, <1>2
<1>5. ASSUME NEW j \in 1..Len(s) - 1
      PROVE  (a \o c)[j] = IF j < i THEN s[j] ELSE s[j + 1]
  <2>1. (a \o c)[j] = IF j <= Len(a) THEN a[j] ELSE c[j - Len(a)]
    BY <1>1, <1>2
  <2>2. CASE j < i
    BY <2>1, <2>2, <1>1
  <2>3. CASE ~(j < i)
    <3>1. j - (i - 1) \in 1..Len(s)-i
      BY <2>3
    <3>2. c[j - (i - 1)] = s[i + (j - (i - 1))]
      BY <3>1, <1>2
    <3>3. QED
      BY <2>1, <2>3, <1>1, <3>2
  <2>4. QED
    BY <2>2, <2>3
<1>6. QED
  BY <1>3, <1>4, <1>5

(* removeBlock (mm_freeList.c:338-349) as a fact about lists: taking a     *)
(* listed member out leaves exactly the others.                            *)
LEMMA WithoutFacts ==
  ASSUME NEW S, NEW l \in Seq(S), NEW F, Lists(l, F), NEW b \in F
  PROVE  /\ Without(l, b) \in Seq(S)
         /\ Lists(Without(l, b), F \ {b})
<1> DEFINE k == CHOOSE i \in DOMAIN l : l[i] = b
           t == Without(l, b)
<1>1. k \in DOMAIN l /\ l[k] = b
  BY DEF Lists
<1>2. k \in 1..Len(l) /\ DOMAIN l = 1..Len(l) /\ Len(l) \in Nat
  BY <1>1
<1>3. /\ t \in Seq(S)
      /\ Len(t) = Len(l) - 1
      /\ \A j \in 1..Len(l) - 1 : t[j] = IF j < k THEN l[j] ELSE l[j + 1]
  BY <1>2, RemoveAtFacts DEF Without
<1>4. DOMAIN t = 1..Len(l) - 1
  BY <1>3
<1> HIDE DEF k, t
<1>5. ASSUME NEW c \in F \ {b}
      PROVE  \E i \in DOMAIN t : t[i] = c
  <2>1. PICK i \in DOMAIN l : l[i] = c
    BY DEF Lists
  <2>2. i # k
    BY <2>1, <1>1
  <2>3. CASE i < k
    BY <2>1, <2>3, <1>2, <1>3, <1>4
  <2>4. CASE i > k
    <3>1. i - 1 \in 1..Len(l) - 1 /\ ~(i - 1 < k) /\ (i - 1) + 1 = i
      BY <2>4, <1>2
    <3>2. t[i - 1] = l[i]
      BY <3>1, <1>3
    <3>3. QED
      BY <3>1, <3>2, <2>1, <1>4
  <2>5. QED
    BY <2>2, <2>3, <2>4, <1>2
<1>6. ASSUME NEW i \in DOMAIN t
      PROVE  t[i] \in F \ {b}
  <2>1. \/ i < k /\ t[i] = l[i] /\ i \in DOMAIN l
        \/ ~(i < k) /\ t[i] = l[i + 1] /\ i + 1 \in DOMAIN l
    BY <1>2, <1>3, <1>4
  <2>2. QED
    BY <2>1, <1>1, <1>2, <1>4 DEF Lists
<1>7. ASSUME NEW i \in DOMAIN t, NEW j \in DOMAIN t, t[i] = t[j]
      PROVE  i = j
  <2> DEFINE up(m) == IF m < k THEN m ELSE m + 1
  <2>1. \A m \in DOMAIN t : up(m) \in DOMAIN l /\ t[m] = l[up(m)]
    BY <1>2, <1>3, <1>4
  <2>2. up(i) = up(j)
    BY <1>7, <2>1 DEF Lists
  <2>3. QED
    BY <2>2, <1>2, <1>4
<1>8. QED
  BY <1>3, <1>5, <1>6, <1>7 DEF Lists, t

(* insertBlock (mm_freeList.c:322-328) as a fact about lists: a new member *)
(* becomes the head and nothing else changes.                              *)
LEMMA ConsFacts ==
  ASSUME NEW S, NEW l \in Seq(S), NEW F, Lists(l, F), NEW b \in S, b \notin F
  PROVE  /\ <<b>> \o l \in Seq(S)
         /\ Lists(<<b>> \o l, F \cup {b})
         /\ (<<b>> \o l)[1] = b
<1> DEFINE t == <<b>> \o l
<1>1. /\ t \in Seq(S) /\ Len(t) = Len(l) + 1 /\ Len(l) \in Nat
      /\ t[1] = b
      /\ \A j \in 1..Len(l) : t[j + 1] = l[j]
  OBVIOUS
<1>2. DOMAIN t = 1..Len(l) + 1 /\ DOMAIN l = 1..Len(l)
  BY <1>1
<1> HIDE DEF t
<1>3. ASSUME NEW c \in F \cup {b}
      PROVE  \E i \in DOMAIN t : t[i] = c
  <2>1. CASE c = b
    BY <2>1, <1>1, <1>2
  <2>2. CASE c \in F
    <3>1. PICK i \in DOMAIN l : l[i] = c
      BY <2>2 DEF Lists
    <3>2. QED
      BY <3>1, <1>1, <1>2
  <2>3. QED
    BY <2>1, <2>2
<1>4. \A i \in DOMAIN t : i = 1 \/ (i - 1 \in DOMAIN l /\ t[i] = l[i - 1])
  <2>1. SUFFICES ASSUME NEW i \in DOMAIN t, i # 1
                 PROVE  i - 1 \in DOMAIN l /\ t[i] = l[i - 1]
    OBVIOUS
  <2>2. i - 1 \in 1..Len(l) /\ (i - 1) + 1 = i
    BY <2>1, <1>1, <1>2
  <2>3. QED
    BY <2>2, <1>1, <1>2
<1>5. \A i \in DOMAIN t : t[i] \in F \cup {b}
  BY <1>1, <1>4 DEF Lists
<1>6. ASSUME NEW i \in DOMAIN t, NEW j \in DOMAIN t, t[i] = t[j]
      PROVE  i = j
  <2>1. CASE i = 1
    BY <2>1, <1>6, <1>1, <1>4 DEF Lists
  <2>2. CASE j = 1
    BY <2>2, <1>6, <1>1, <1>4 DEF Lists
  <2>3. CASE i # 1 /\ j # 1
    <3>1. i - 1 = j - 1
      BY <2>3, <1>6, <1>4 DEF Lists
    <3>2. QED
      BY <3>1, <1>2, <1>1
  <2>4. QED
    BY <2>1, <2>2, <2>3
<1>7. QED
  BY <1>1, <1>3, <1>5, <1>6 DEF Lists, t

(* A sequence is over any set that holds its elements. *)
LEMMA SeqRetype ==
  ASSUME NEW S, NEW T, NEW l \in Seq(S), \A i \in DOMAIN l : l[i] \in T
  PROVE  l \in Seq(T)
  OBVIOUS

-----------------------------------------------------------------------------
(* A set of numbers has a least one.                                       *)
LEMMA LeastOf ==
  ASSUME NEW S, S \subseteq Nat, S # {}
  PROVE  \E n \in S : \A m \in S : n <= m
<1>1. \A x, y \in Nat : x < y => <<x, y>> \in OpToRel(<, Nat)
  BY Zenon DEF OpToRel
<1>2. PICK n \in S : \A m \in S : ~ (<<m, n>> \in OpToRel(<, Nat))
  BY WFMin, NatLessThanWellFounded, Zenon
<1>3. ASSUME NEW m \in S
      PROVE  n <= m
  <2>1. m \in Nat /\ n \in Nat
    OBVIOUS
  <2>2. ~ (m < n)
    BY <1>1, <1>2, <2>1, Zenon
  <2>3. QED
    BY <2>1, <2>2
<1>4. QED
  BY <1>3

(***************************************************************************)
(* FlattenSeq.  The recursive function behind it exists: there is no least *)
(* length without one.                                                     *)
(***************************************************************************)
Flattens(p, n, f) ==
  f = [i \in 1..n |-> IF i = 1 THEN p[i] ELSE f[i - 1] \o p[i]]

LEMMA FlattensFacts ==
  \A p, f : \A n \in Nat \ {0} :
    Flattens(p, n, f) =>
      /\ DOMAIN f = 1..n /\ f[1] = p[1]
      /\ \A m \in 2..n : f[m] = f[m - 1] \o p[m]
<1> SUFFICES ASSUME NEW p, NEW f, NEW n \in Nat \ {0}, Flattens(p, n, f)
             PROVE  /\ DOMAIN f = 1..n /\ f[1] = p[1]
                    /\ \A m \in 2..n : f[m] = f[m - 1] \o p[m]
  OBVIOUS
<1> DEFINE g == [i \in 1..n |-> IF i = 1 THEN p[i] ELSE f[i - 1] \o p[i]]
<1>1. f = g
  BY Zenon DEF Flattens
<1>2. DOMAIN g = 1..n /\ g[1] = p[1]
  OBVIOUS
<1>3. ASSUME NEW m \in 2..n
      PROVE  g[m] = f[m - 1] \o p[m]
  <2>1. m \in 1..n /\ m # 1
    OBVIOUS
  <2>2. QED
    BY <2>1, Zenon
<1> HIDE DEF g
<1>4. QED
  BY <1>1, <1>2, <1>3

LEMMA FlattensExists ==
  ASSUME NEW p, NEW n \in Nat \ {0}
  PROVE  \E f : Flattens(p, n, f)
<1> DEFINE Missing == {m \in Nat : m # 0 /\ ~ \E f : Flattens(p, m, f)}
<1> SUFFICES ASSUME Missing # {} PROVE FALSE
  OBVIOUS
<1>1. PICK m \in Missing : \A k1 \in Missing : m <= k1
  <2>1. Missing \subseteq Nat
    OBVIOUS
  <2> HIDE DEF Missing
  <2>2. QED
    BY <2>1, LeastOf
<1>2. m \in Nat \ {0} /\ ~ \E f : Flattens(p, m, f)
  OBVIOUS
<1>3. m # 1
  <2> DEFINE f == [i \in 1..1 |-> p[i]]
  <2>1. [i \in 1..1 |-> IF i = 1 THEN p[i] ELSE f[i - 1] \o p[i]] = f
    OBVIOUS
  <2>2. Flattens(p, 1, f)
    BY <2>1, Zenon DEF Flattens
  <2>3. QED
    BY <1>2, <2>2
<1>4. m - 1 \in Nat \ {0} /\ m - 1 \notin Missing
  BY <1>1, <1>2, <1>3
<1>5. PICK g : Flattens(p, m - 1, g)
  BY <1>4
<1>6. /\ DOMAIN g = 1..m - 1 /\ g[1] = p[1]
      /\ \A i \in 2..m - 1 : g[i] = g[i - 1] \o p[i]
  <2> DEFINE k == m - 1
  <2>1. k \in Nat \ {0} /\ Flattens(p, k, g)
    BY <1>4, <1>5
  <2> HIDE DEF k
  <2>2. /\ DOMAIN g = 1..k /\ g[1] = p[1]
        /\ \A i \in 2..k : g[i] = g[i - 1] \o p[i]
    BY <2>1, FlattensFacts, Zenon
  <2>3. QED
    BY <2>2, Zenon DEF k
<1> DEFINE f == [i \in 1..m |-> IF i = m THEN g[m - 1] \o p[m] ELSE g[i]]
           h == [i \in 1..m |-> IF i = 1 THEN p[i] ELSE f[i - 1] \o p[i]]
<1>7. ASSUME NEW i \in 1..m PROVE f[i] = h[i]
  <2>1. CASE i = 1
    BY <1>2, <1>3, <1>6, <2>1
  <2>2. CASE i = m
    <3>1. h[m] = f[m - 1] \o p[m] /\ m - 1 \in 1..m /\ m - 1 # m
      <4>1. m \in 1..m /\ m - 1 \in 1..m /\ m - 1 # m
        BY <1>2, <1>3
      <4>2. QED
        BY <1>3, <4>1, Zenon
    <3>2. f[m - 1] = g[m - 1]
      BY <3>1, Zenon
    <3>3. QED
      BY <2>2, <3>1, <3>2, Zenon
  <2>3. CASE i # 1 /\ i # m
    <3>1. /\ h[i] = f[i - 1] \o p[i] /\ i - 1 \in 1..m /\ i - 1 # m
          /\ i \in 2..m - 1 /\ f[i] = g[i]
      <4>1. i - 1 \in 1..m /\ i - 1 # m /\ i \in 2..m - 1
        BY <1>2, <2>3
      <4>2. QED
        BY <2>3, <4>1, Zenon
    <3>2. f[i - 1] = g[i - 1]
      BY <3>1, Zenon
    <3>3. QED
      BY <1>6, <3>1, <3>2, Zenon
  <2>4. QED
    BY <2>1, <2>2, <2>3
<1>8. f = h
  BY <1>7
<1>9. Flattens(p, m, f)
  BY <1>8, Zenon DEF Flattens
<1>10. QED
  BY <1>2, <1>9

(* What FlattenSeq has put together after each of its parts.               *)
Flattening(S, p, n, g) ==
  /\ g \in [0..n -> Seq(S)]
  /\ g[0] = << >>
  /\ \A i \in 1..n : g[i] = g[i - 1] \o p[i]
  /\ FlattenSeq(p) = g[n]

LEMMA FlattenSeqFacts ==
  ASSUME NEW S, NEW n \in Nat \ {0}, NEW p \in [1..n -> Seq(S)]
  PROVE  \E g : Flattening(S, p, n, g)
<1> DEFINE f == CHOOSE f : Flattens(p, n, f)
<1>1. Len(p) = n
  OBVIOUS
<1>2. FlattenSeq(p) = f[n]
  <2>1. ~ (Len(p) = 0)
    BY <1>1
  <2>2. FlattenSeq(p) = f[Len(p)]
    BY <1>1, <2>1 DEF FlattenSeq, Flattens
  <2> HIDE DEF f
  <2>3. QED
    BY <1>1, <2>2
<1>3. Flattens(p, n, f)
  BY FlattensExists
<1>4. /\ DOMAIN f = 1..n /\ f[1] = p[1]
      /\ \A m \in 2..n : f[m] = f[m - 1] \o p[m]
  BY <1>3, FlattensFacts
<1> HIDE DEF f
<1> DEFINE Bad == {m \in Nat : m \in 1..n /\ f[m] \notin Seq(S)}
<1>5. Bad = {}
  <2> SUFFICES ASSUME Bad # {} PROVE FALSE
    OBVIOUS
  <2>1. PICK m \in Bad : \A i \in Bad : m <= i
    <3>1. Bad \subseteq Nat
      OBVIOUS
    <3> HIDE DEF Bad
    <3>2. QED
      BY <3>1, LeastOf
  <2>2. m \in 1..n /\ f[m] \notin Seq(S)
    OBVIOUS
  <2>3. m # 1
    BY <1>4, <2>2
  <2>4. m - 1 \in 1..n /\ m - 1 \notin Bad /\ m \in 2..n
    BY <2>1, <2>2, <2>3
  <2>5. f[m - 1] \in Seq(S) /\ f[m] = f[m - 1] \o p[m] /\ p[m] \in Seq(S)
    <3>1. f[m - 1] \in Seq(S)
      <4>1. m - 1 \in Nat
        BY <2>2, <2>4
      <4>2. QED
        BY <2>4, <4>1, Zenon
    <3>2. p[m] \in Seq(S)
      BY <2>4
    <3>3. QED
      BY <1>4, <2>4, <3>1, <3>2, Zenon
  <2>6. QED
    BY <2>2, <2>5, ConcatProperties
<1> DEFINE g == [i \in 0..n |-> IF i = 0 THEN << >> ELSE f[i]]
<1>6. g \in [0..n -> Seq(S)]
  <2>1. \A i \in 0..n : i # 0 => f[i] \in Seq(S)
    <3>1. \A i \in 0..n : i # 0 => i \in Nat /\ i \in 1..n
      OBVIOUS
    <3>2. QED
      BY <1>5, <3>1, Zenon
  <2> HIDE DEF Bad
  <2>2. QED
    BY <2>1
<1>7. ASSUME NEW i \in 1..n
      PROVE  g[i] = g[i - 1] \o p[i]
  <2>1. CASE i = 1
    <3>1. g[i] = p[i] /\ g[i - 1] = << >> /\ p[i] \in Seq(S)
      BY <1>4, <2>1
    <3>2. QED
      BY <3>1, ConcatEmptySeq
  <2>2. CASE i # 1
    <3>1. g[i] = f[i] /\ g[i - 1] = f[i - 1] /\ i \in 2..n
      BY <2>2
    <3>2. QED
      BY <1>4, <3>1
  <2>3. QED
    BY <2>1, <2>2
<1>8. g[0] = << >> /\ g[n] = f[n]
  OBVIOUS
<1> HIDE DEF g
<1>9. Flattening(S, p, n, g)
  BY <1>2, <1>6, <1>7, <1>8 DEF Flattening
<1>10. QED
  BY <1>9
=============================================================================
