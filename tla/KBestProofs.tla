---------------------------- MODULE KBestProofs -----------------------------
(***************************************************************************)
(* The sampler with any parameters, any times and a counter of two words   *)
(* of any width.                                                           *)
(***************************************************************************)
EXTENDS KBest, ListLemmas, FiniteSetTheorems, SequenceTheorems, WellFoundedInduction,
        TLAPS

-----------------------------------------------------------------------------
(***************************************************************************)
(* Words.                                                                  *)
(***************************************************************************)
(* Quotient and remainder by a word.                                       *)
LEMMA DivMod ==
  ASSUME NEW w \in Nat \ {0}, NEW a \in Int
  PROVE  /\ a \div w \in Int /\ a % w \in 0..w - 1
         /\ a = w * (a \div w) + (a % w)
OBVIOUS

LEMMA MulMono ==
  ASSUME NEW w \in Nat, NEW a \in Int, NEW b \in Int, a <= b
  PROVE  w * a <= w * b
OBVIOUS

(* There is one quotient and one remainder.                                *)
LEMMA ModUnique ==
  ASSUME NEW w \in Nat \ {0}, NEW a \in Int,
         NEW q \in Int, NEW r \in 0..w - 1, a = w * q + r
  PROVE  a % w = r /\ a \div w = q
<1> DEFINE p == a \div w
           s == a % w
<1>1. w * q \in Int
  OBVIOUS
<1>2. p \in Int /\ s \in 0..w - 1 /\ w * q + r = w * p + s
  BY DivMod
<1>3. ASSUME q < p PROVE FALSE
  <2>1. w * (q + 1) <= w * p
    BY <1>2, <1>3, MulMono
  <2>2. w * (q + 1) = w * q + w
    OBVIOUS
  <2>3. w * q \in Int /\ w * p \in Int
    BY <1>2
  <2>4. QED
    BY <2>1, <2>2, <2>3, <1>2
<1>4. ASSUME p < q PROVE FALSE
  <2>1. w * (p + 1) <= w * q
    BY <1>2, <1>4, MulMono
  <2>2. w * (p + 1) = w * p + w
    BY <1>2
  <2>3. w * q \in Int /\ w * p \in Int
    BY <1>2
  <2>4. QED
    BY <2>1, <2>2, <2>3, <1>2
<1>5. p = q
  BY <1>2, <1>3, <1>4
<1>6. s = r
  BY <1>2, <1>5
<1>7. QED
  BY <1>5, <1>6

LEMMA WordFacts ==
  /\ WordMod \in Nat \ {0} /\ WordMod * WordMod \in Nat \ {0}
  /\ 0 \in 0..WordMod - 1 /\ 0 \in 0..WordMod * WordMod - 1
<1>1. WordMod \in Nat /\ WordMod > 1
  BY ClockAssumption
<1>2. WordMod * 1 <= WordMod * WordMod
  BY <1>1, MulMono
<1>3. WordMod * WordMod \in Nat
  BY <1>1
<1>4. QED
  BY <1>1, <1>2, <1>3

(* A counter of two words is its high and its low word.                    *)
LEMMA AccessCounterFacts ==
  ASSUME NEW n \in 0..WordMod * WordMod - 1
  PROVE  /\ AccessCounter(n) \in [hi : 0..WordMod - 1, lo : 0..WordMod - 1]
         /\ n = WordMod * AccessCounter(n).hi + AccessCounter(n).lo
<1> DEFINE h == n \div WordMod
           l == n % WordMod
<1>1. WordMod \in Nat \ {0} /\ WordMod * WordMod \in Nat /\ n \in Int
  BY WordFacts
<1>2. h \in Int /\ l \in 0..WordMod - 1 /\ n = WordMod * h + l
  BY <1>1, DivMod
<1>3. ASSUME h < 0 PROVE FALSE
  <2>1. WordMod * h <= WordMod * (0 - 1)
    BY <1>1, <1>2, <1>3, MulMono
  <2>2. WordMod * (0 - 1) = 0 - WordMod /\ WordMod * h \in Int
    BY <1>1, <1>2
  <2>3. QED
    BY <2>1, <2>2, <1>1, <1>2
<1>4. ASSUME h >= WordMod PROVE FALSE
  <2>1. WordMod * WordMod <= WordMod * h
    BY <1>1, <1>2, <1>4, MulMono
  <2>2. WordMod * h \in Int
    BY <1>1, <1>2
  <2>3. QED
    BY <2>1, <2>2, <1>1, <1>2
<1>5. h \in 0..WordMod - 1
  BY <1>1, <1>2, <1>3, <1>4
<1>6. QED
  BY <1>2, <1>5 DEF AccessCounter

LEMMA AfterType ==
  ASSUME NEW d \in Nat, now \in Nat
  PROVE  After(d) \in 0..WordMod * WordMod - 1
<1> DEFINE W2 == WordMod * WordMod
<1>1. W2 \in Nat \ {0} /\ now + d \in Int
  BY WordFacts
<1> HIDE DEF W2
<1>2. (now + d) % W2 \in 0..W2 - 1
  BY <1>1, DivMod
<1>3. QED
  BY <1>2 DEF After, W2

(* Whatever the counter holds, the difference is a number.                 *)
LEMMA GetCounterType ==
  ASSUME NEW n \in 0..WordMod * WordMod - 1,
         cyc \in [hi : 0..WordMod - 1, lo : 0..WordMod - 1]
  PROVE  GetCounter(n) \in Int
<1> DEFINE new    == AccessCounter(n)
           lo     == (new.lo - cyc.lo) % WordMod
           borrow == IF lo > new.lo THEN 1 ELSE 0
           hi     == (new.hi - cyc.hi - borrow) % WordMod
<1>1. WordMod \in Nat \ {0} /\ new.hi \in Int /\ new.lo \in Int
      /\ cyc.hi \in Int /\ cyc.lo \in Int
  BY AccessCounterFacts, WordFacts
<1> HIDE DEF new
<1>2. new.lo - cyc.lo \in Int /\ borrow \in Int
  BY <1>1
<1> HIDE DEF borrow
<1>3. new.hi - cyc.hi - borrow \in Int
  BY <1>1, <1>2
<1>4. lo \in Int /\ hi \in Int
  BY <1>1, <1>2, <1>3, DivMod
<1> HIDE DEF hi
<1>5. hi * WordMod + lo \in Int
  BY <1>1, <1>4
<1>6. QED
  BY <1>5 DEF GetCounter, new, borrow, hi

(* The two words hold what really passed, over the end of a word and of    *)
(* the whole counter (clock.c:60-66).                                      *)
LEMMA GetCounterElapsed ==
  ASSUME NEW m \in 0..WordMod * WordMod - 1,
         NEW d \in 0..WordMod * WordMod - 1, cyc = AccessCounter(m)
  PROVE  GetCounter((m + d) % (WordMod * WordMod)) = d
<1> DEFINE W2 == WordMod * WordMod
           n  == (m + d) % W2
           e  == IF m + d < W2 THEN 0 ELSE 1
           new == AccessCounter(n)
<1>1. /\ WordMod \in Nat \ {0} /\ W2 \in Nat \ {0}
      /\ m \in 0..W2 - 1 /\ d \in 0..W2 - 1
  BY WordFacts
<1> HIDE DEF W2
<1>2. n \in 0..W2 - 1 /\ n = m + d - e * W2 /\ e \in {0, 1}
  <2>1. CASE m + d < W2
    <3>1. /\ m + d \in 0..W2 - 1 /\ m + d = W2 * 0 + (m + d)
          /\ m + d \in Int /\ 0 \in Int
      BY <1>1, <2>1
    <3>2. n = m + d
      BY Zenon, <3>1, <1>1, ModUnique
    <3>3. QED
      BY <3>1, <3>2, <2>1, <1>1
  <2>2. CASE m + d >= W2
    <3>1. /\ m + d - W2 \in 0..W2 - 1 /\ m + d = W2 * 1 + (m + d - W2)
          /\ m + d \in Int /\ 1 \in Int
      BY <1>1, <2>2
    <3>2. n = m + d - W2
      BY Zenon, <3>1, <1>1, ModUnique
    <3>3. QED
      BY <3>1, <3>2, <2>2, <1>1
  <2>3. QED
    BY <2>1, <2>2, <1>1
<1>3. /\ new.hi \in 0..WordMod - 1 /\ new.lo \in 0..WordMod - 1
      /\ cyc.hi \in 0..WordMod - 1 /\ cyc.lo \in 0..WordMod - 1
      /\ n = WordMod * new.hi + new.lo
      /\ m = WordMod * cyc.hi + cyc.lo
  BY <1>2, AccessCounterFacts DEF W2
<1> DEFINE h0 == cyc.hi
           l0 == cyc.lo
           h1 == new.hi
           l1 == new.lo
           lo == (l1 - l0) % WordMod
           b  == IF l1 >= l0 THEN 0 ELSE 1
<1> HIDE DEF n, new, e
<1>4. lo = l1 - l0 + b * WordMod /\ lo \in 0..WordMod - 1 /\ b \in {0, 1}
  <2>1. CASE l1 >= l0
    <3>1. /\ l1 - l0 \in 0..WordMod - 1 /\ l1 - l0 = WordMod * 0 + (l1 - l0)
          /\ l1 - l0 \in Int /\ 0 \in Int
      BY <1>1, <1>3, <2>1
    <3>2. lo = l1 - l0
      BY Zenon, <3>1, <1>1, ModUnique
    <3>3. QED
      BY <3>1, <3>2, <2>1, <1>1
  <2>2. CASE l1 < l0
    <3>1. /\ l1 - l0 + WordMod \in 0..WordMod - 1
          /\ l1 - l0 = WordMod * (0 - 1) + (l1 - l0 + WordMod)
          /\ l1 - l0 \in Int /\ 0 - 1 \in Int
      BY <1>1, <1>3, <2>2
    <3>2. lo = l1 - l0 + WordMod
      BY Zenon, <3>1, <1>1, ModUnique
    <3>3. QED
      BY <3>1, <3>2, <2>2, <1>1, <1>3
  <2>3. QED
    BY <2>1, <2>2, <1>3
<1>5. (IF lo > l1 THEN 1 ELSE 0) = b
  BY <1>1, <1>3, <1>4
<1> HIDE DEF b, lo, h0, h1, l0, l1
<1> DEFINE q == h1 - h0 - b + e * WordMod
<1>6. h0 \in Int /\ h1 \in Int /\ l0 \in Int /\ l1 \in Int /\ q \in Int
  BY <1>1, <1>2, <1>3, <1>4 DEF h0, h1, l0, l1
<1>7. d = WordMod * q + lo
  <2>1. WordMod * q = WordMod * h1 - WordMod * h0 - WordMod * b + e * W2
    BY <1>1, <1>2, <1>4, <1>6 DEF W2
  <2>2. /\ n = WordMod * h1 + l1 /\ m = WordMod * h0 + l0
        /\ n = m + d - e * W2 /\ lo = l1 - l0 + b * WordMod
    BY Zenon, <1>2, <1>3, <1>4 DEF h0, h1, l0, l1
  <2>3. /\ WordMod * h1 \in Int /\ WordMod * h0 \in Int
        /\ WordMod * b \in Int /\ e * W2 \in Int /\ WordMod * q \in Int
    BY <1>1, <1>2, <1>4, <1>6
  <2>4. QED
    BY <2>1, <2>2, <2>3, <1>1, <1>2, <1>4, <1>6
<1> HIDE DEF q
<1>8. q \in 0..WordMod - 1
  <2>1. d \div WordMod = q
    <3>1. d \in Int
      BY <1>1
    <3>2. QED
      BY Zenon, <3>1, <1>1, <1>4, <1>6, <1>7, ModUnique
  <2>2. AccessCounter(d).hi = q /\ d \in 0..WordMod * WordMod - 1
    BY <2>1 DEF AccessCounter
  <2>3. AccessCounter(d).hi \in 0..WordMod - 1
    BY <2>2, AccessCounterFacts
  <2>4. QED
    BY <2>2, <2>3
<1>9. (h1 - h0 - b) % WordMod = q
  <2>1. /\ h1 - h0 - b = WordMod * (0 - e) + q
        /\ 0 - e \in Int /\ h1 - h0 - b \in Int
    BY <1>1, <1>2, <1>4, <1>6 DEF q
  <2>2. QED
    BY Zenon, <2>1, <1>1, <1>6, <1>8, ModUnique
<1>10. GetCounter(n) = q * WordMod + lo
  BY <1>5, <1>9 DEF GetCounter, new, h0, h1, l0, l1, lo
<1>11. QED
  BY <1>1, <1>4, <1>6, <1>7, <1>10 DEF n, W2
-----------------------------------------------------------------------------
(***************************************************************************)
(* The array of the k best.                                                *)
(***************************************************************************)
(* the first n of vs are the shortest of s, in order: f says which         *)
Shortest(vs, s, n, f) ==
  /\ f \in [1..n -> 1..Len(s)]
  /\ \A a, b \in 1..n : f[a] = f[b] => a = b
  /\ \A a \in 1..n : vs[a] = s[f[a]]
  /\ \A a, b \in 1..n : a <= b => vs[a] <= vs[b]
  /\ \A i \in 1..Len(s) :
       (\A a \in 1..n : f[a] # i) => \A a \in 1..n : vs[a] <= s[i]

(* f leaves none of s out *)
Covers(f, s, n) == \A i \in 1..Len(s) : \E a \in 1..n : f[a] = i

(* The element at pos goes down to the place where it belongs, and the     *)
(* ones above it move up (lines 82-87).                                    *)
LEMMA SinkFacts ==
  ASSUME NEW k \in Nat, NEW vs \in [1..k -> Int], NEW pos \in 1..k
  PROVE  /\ Sink(vs, pos) \in [1..k -> Int]
         /\ \E i \in 1..pos :
              /\ SinksTo(vs, pos, i)
              /\ \A j \in 1..i - 1 : Sink(vs, pos)[j] = vs[j]
              /\ Sink(vs, pos)[i] = vs[pos]
              /\ \A j \in i + 1..pos : Sink(vs, pos)[j] = vs[j - 1]
<1> DEFINE i == CHOOSE j \in 1..pos : SinksTo(vs, pos, j)
           S == {j \in 1..pos : \A h \in j..pos - 1 : vs[h] > vs[pos]}
<1>1. i \in 1..pos /\ SinksTo(vs, pos, i)
  <2>1. pos \in S /\ S \subseteq Nat
    OBVIOUS
  <2>2. PICK n \in S : \A m \in S : n <= m
    BY <2>1, LeastOf
  <2>3. ASSUME n > 1, vs[n - 1] > vs[pos]
        PROVE  FALSE
    <3>1. n - 1 \in S
      BY <2>2, <2>3
    <3>2. QED
      BY <3>1, <2>2
  <2>4. n > 1 => vs[n - 1] <= vs[pos]
    <3>1. n > 1 => vs[n - 1] \in Int /\ vs[pos] \in Int
      OBVIOUS
    <3>2. QED
      BY <2>3, <3>1
  <2>5. SinksTo(vs, pos, n)
    BY <2>4 DEF SinksTo
  <2>6. QED
    BY <2>5
<1> HIDE DEF i
<1>2. Sink(vs, pos) = [j \in 1..k |-> CASE j < i             -> vs[j]
                                        [] j = i             -> vs[pos]
                                        [] i < j /\ j <= pos -> vs[j - 1]
                                        [] j > pos           -> vs[j]]
  BY DEF Sink, i
<1>3. \A j \in 1..k : Sink(vs, pos)[j] = IF j < i THEN vs[j]
                                   ELSE IF j = i THEN vs[pos]
                                   ELSE IF j <= pos THEN vs[j - 1]
                                   ELSE vs[j]
  BY <1>1, <1>2
<1>4. \A j \in 1..k : Sink(vs, pos)[j] \in Int
  BY <1>1, <1>3
<1>5. Sink(vs, pos) \in [1..k -> Int]
  BY <1>2, <1>4
<1>6. /\ \A j \in 1..i - 1 : Sink(vs, pos)[j] = vs[j]
      /\ Sink(vs, pos)[i] = vs[pos]
      /\ \A j \in i + 1..pos : Sink(vs, pos)[j] = vs[j - 1]
  <2>1. ASSUME NEW j \in 1..i - 1
        PROVE  Sink(vs, pos)[j] = vs[j]
    BY <1>1, <1>3
  <2>2. Sink(vs, pos)[i] = vs[pos]
    BY <1>1, <1>3
  <2>3. ASSUME NEW j \in i + 1..pos
        PROVE  Sink(vs, pos)[j] = vs[j - 1]
    BY <1>1, <1>3
  <2>4. QED
    BY <2>1, <2>2, <2>3
<1>7. QED
  BY <1>1, <1>5, <1>6, Zenon

(* A sample that goes where it belongs among the pos - 1 shortest of the   *)
(* rest, when it is itself no longer than the ones left out.               *)
LEMMA InsertKeeps ==
  ASSUME NEW k \in Nat, NEW pos \in 1..k, NEW vs \in [1..k -> Int],
         NEW s \in Seq(Int), NEW val \in Int, vs[pos] = val,
         NEW f, Shortest(vs, s, pos - 1, f),
         \A i \in 1..Len(s) :
           (\A a \in 1..pos - 1 : f[a] # i) => val <= s[i]
  PROVE  \E g : /\ Shortest(Sink(vs, pos), Append(s, val), pos, g)
                /\ Covers(f, s, pos - 1) => Covers(g, Append(s, val), pos)
<1> DEFINE ws == Sink(vs, pos)
           t  == Append(s, val)
           m  == Len(s)
<1>1. PICK p \in 1..pos :
        /\ SinksTo(vs, pos, p)
        /\ \A j \in 1..p - 1 : ws[j] = vs[j]
        /\ ws[p] = vs[pos]
        /\ \A j \in p + 1..pos : ws[j] = vs[j - 1]
  BY SinkFacts
<1>2. m \in Nat /\ Len(t) = m + 1 /\ t[m + 1] = val
      /\ \A j \in 1..m : t[j] = s[j] /\ s[j] \in Int
  BY AppendProperties, LenProperties, ElementOfSeq
<1> DEFINE g == [j \in 1..pos |-> IF j < p THEN f[j]
                                  ELSE IF j = p THEN m + 1 ELSE f[j - 1]]
<1>3. /\ \A a \in 1..pos - 1 : f[a] \in 1..m /\ vs[a] = s[f[a]]
                               /\ vs[a] \in Int
      /\ \A a, b \in 1..pos - 1 : f[a] = f[b] => a = b
      /\ \A a, b \in 1..pos - 1 : a <= b => vs[a] <= vs[b]
      /\ \A i \in 1..m : (\A a \in 1..pos - 1 : f[a] # i) =>
           \A a \in 1..pos - 1 : vs[a] <= s[i]
  BY DEF Shortest
<1>4. /\ pos \in Nat /\ k \in Nat /\ pos <= k
      /\ \A j \in p..pos - 1 : vs[j] > val
      /\ p > 1 => vs[p - 1] <= val
  BY <1>1 DEF SinksTo
<1> HIDE DEF ws, t, m
<1>5. g \in [1..pos -> 1..Len(t)]
  <2>1. ASSUME NEW j \in 1..pos
        PROVE  g[j] \in 1..Len(t)
    <3>1. m + 1 \in 1..Len(t) /\ \A x \in 1..m : x \in 1..Len(t)
      BY <1>2
    <3>2. CASE j < p
      <4>1. j \in 1..pos - 1 /\ g[j] = f[j]
        BY <1>1, <1>4, <3>2
      <4>2. QED
        BY <1>3, <3>1, <4>1, Zenon
    <3>3. CASE j = p
      BY <3>1, <3>3
    <3>4. CASE j > p
      <4>1. j - 1 \in 1..pos - 1 /\ g[j] = f[j - 1]
        BY <1>1, <1>4, <3>4
      <4>2. QED
        BY <1>3, <3>1, <4>1, Zenon
    <3>5. QED
      BY <1>1, <3>2, <3>3, <3>4
  <2>2. QED
    BY <2>1
<1>6. \A a \in 1..pos : ws[a] = t[g[a]]
  <2> SUFFICES ASSUME NEW a \in 1..pos PROVE ws[a] = t[g[a]]
    OBVIOUS
  <2>1. CASE a < p
    <3>1. a \in 1..p - 1 /\ a \in 1..pos - 1
      BY <2>1, <1>1, <1>4
    <3>2. ws[a] = vs[a] /\ vs[a] = s[f[a]] /\ t[f[a]] = s[f[a]]
      BY <3>1, <1>1, <1>2, <1>3
    <3>3. g[a] = f[a]
      BY <2>1
    <3>4. QED
      BY <3>2, <3>3
  <2>2. CASE a = p
    <3>1. g[a] = m + 1
      BY <2>2, <1>1, <1>4
    <3>2. QED
      BY <3>1, <2>2, <1>1, <1>2
  <2>3. CASE a > p
    <3>1. a \in p + 1..pos /\ a - 1 \in 1..pos - 1
      BY <2>3, <1>1, <1>4
    <3>2. /\ ws[a] = vs[a - 1] /\ vs[a - 1] = s[f[a - 1]]
          /\ t[f[a - 1]] = s[f[a - 1]]
      BY <3>1, <1>1, <1>2, <1>3
    <3>3. g[a] = f[a - 1]
      BY <2>3, <1>1, <1>4
    <3>4. QED
      BY <3>2, <3>3
  <2>4. QED
    BY <2>1, <2>2, <2>3, <1>1, <1>4
<1>7. \A a, b \in 1..pos : g[a] = g[b] => a = b
  <2> HIDE DEF g
  <2> SUFFICES ASSUME NEW a \in 1..pos, NEW b \in 1..pos, g[a] = g[b], a < b
               PROVE  FALSE
    BY <1>4
  <2> USE DEF g
  <2>1. CASE b < p
    BY <2>1, <1>1, <1>3, <1>4
  <2>2. CASE b = p
    BY <2>2, <1>1, <1>2, <1>3, <1>4
  <2>3. CASE b > p
    BY <2>3, <1>1, <1>2, <1>3, <1>4
  <2>4. QED
    BY <2>1, <2>2, <2>3, <1>1
<1> HIDE DEF g
<1>8. \A a \in 1..pos : ws[a] \in Int /\ (a < p => ws[a] <= val)
                        /\ (a = p => ws[a] = val) /\ (a > p => ws[a] > val)
  <2> SUFFICES ASSUME NEW a \in 1..pos
               PROVE  ws[a] \in Int /\ (a < p => ws[a] <= val)
                      /\ (a = p => ws[a] = val) /\ (a > p => ws[a] > val)
    OBVIOUS
  <2>1. CASE a < p
    <3>1. ws[a] = vs[a] /\ a \in 1..pos - 1 /\ p - 1 \in 1..pos - 1
          /\ a <= p - 1 /\ p > 1
      BY <2>1, <1>1, <1>4
    <3>2. vs[a] <= vs[p - 1] /\ vs[p - 1] <= val
          /\ vs[a] \in Int /\ vs[p - 1] \in Int
      BY <3>1, <1>3, <1>4
    <3>3. QED
      BY <3>1, <3>2, <2>1, <1>1
  <2>2. CASE a = p
    BY <2>2, <1>1, <1>4
  <2>3. CASE a > p
    <3>1. ws[a] = vs[a - 1] /\ a - 1 \in p..pos - 1 /\ a - 1 \in 1..pos - 1
      BY <2>3, <1>1, <1>4
    <3>2. QED
      BY <3>1, <2>3, <1>1, <1>3, <1>4
  <2>4. QED
    BY <2>1, <2>2, <2>3, <1>1
<1>9. \A a, b \in 1..pos : a <= b => ws[a] <= ws[b]
  <2> SUFFICES ASSUME NEW a \in 1..pos, NEW b \in 1..pos, a < b
               PROVE  ws[a] <= ws[b]
    BY <1>8, <1>4
  <2>1. CASE b < p
    <3>1. ws[a] = vs[a] /\ ws[b] = vs[b]
          /\ a \in 1..pos - 1 /\ b \in 1..pos - 1
      BY <2>1, <1>1, <1>4
    <3>2. QED
      BY <3>1, <1>3
  <2>2. CASE a > p
    <3>1. /\ a \in p + 1..pos /\ b \in p + 1..pos
          /\ a - 1 \in 1..pos - 1 /\ b - 1 \in 1..pos - 1 /\ a - 1 <= b - 1
      BY <2>2, <1>1, <1>4
    <3>2. ws[a] = vs[a - 1] /\ ws[b] = vs[b - 1]
      BY <3>1, <1>1
    <3>3. vs[a - 1] <= vs[b - 1]
      BY <3>1, <1>3
    <3>4. QED
      BY <3>2, <3>3
  <2>3. CASE a <= p /\ b >= p
    <3>1. ws[a] \in Int /\ ws[a] <= val
      BY <2>3, <1>8, <1>1
    <3>2. ws[b] \in Int /\ ws[b] >= val
      <4>1. ws[b] \in Int /\ (b = p => ws[b] = val) /\ (b > p => ws[b] > val)
        BY <1>8
      <4>2. b = p \/ b > p
        BY <2>3, <1>1
      <4>3. QED
        BY <4>1, <4>2
    <3>3. QED
      BY <3>1, <3>2
  <2>4. QED
    BY <2>1, <2>2, <2>3, <1>1
<1>10. \A i \in 1..m : (\A a \in 1..pos : g[a] # i) =>
                       \A a \in 1..pos - 1 : f[a] # i
  <2> SUFFICES ASSUME NEW i \in 1..m, NEW a \in 1..pos - 1, f[a] = i
               PROVE  \E b \in 1..pos : g[b] = i
    OBVIOUS
  <2>1. CASE a < p
    <3>1. a \in 1..pos /\ g[a] = i
      BY <2>1, <1>1, <1>4 DEF g
    <3>2. QED
      BY <3>1
  <2>2. CASE a >= p
    <3>1. a + 1 \in 1..pos /\ g[a + 1] = i
      BY <2>2, <1>1, <1>4 DEF g
    <3>2. QED
      BY <3>1
  <2>3. QED
    BY <2>1, <2>2, <1>1
<1>11. g[p] = m + 1
  BY <1>1 DEF g
<1>12. ASSUME NEW i \in 1..Len(t), \A a \in 1..pos : g[a] # i,
              NEW a \in 1..pos
       PROVE  ws[a] <= t[i]
  <2>1. i \in 1..m /\ t[i] = s[i] /\ s[i] \in Int
    BY <1>2, <1>11, <1>12, <1>1
  <2>2. val <= s[i] /\ \A b \in 1..pos - 1 : vs[b] <= s[i]
    <3>1. \A b \in 1..pos - 1 : f[b] # i
      BY <2>1, <1>10, <1>12
    <3>2. QED
      BY <3>1, <2>1, <1>3 DEF m
  <2>3. CASE a <= p
    <3>1. ws[p] = val
      BY <1>1, Zenon
    <3>2. ws[a] <= val
      BY <1>8, <1>1, <2>3, <3>1
    <3>3. ws[a] \in Int
      <4>1. Sink(vs, pos) \in [1..k -> Int]
        BY SinkFacts, Zenon
      <4>2. a \in 1..k
        BY <1>4
      <4>3. QED
        BY <4>1, <4>2, Zenon DEF ws
    <3>4. QED
      BY <2>1, <2>2, <3>2, <3>3
  <2>4. CASE a > p
    <3>1. ws[a] = vs[a - 1] /\ a - 1 \in 1..pos - 1
      BY <2>4, <1>1, <1>4
    <3>2. QED
      BY <3>1, <2>1, <2>2
  <2>5. QED
    BY <2>3, <2>4, <1>1
<1>13. Shortest(ws, t, pos, g)
  BY <1>5, <1>6, <1>7, <1>9, <1>12 DEF Shortest
<1>14. Covers(f, s, pos - 1) => Covers(g, t, pos)
  <2> SUFFICES ASSUME Covers(f, s, pos - 1), NEW i \in 1..Len(t)
               PROVE  \E a \in 1..pos : g[a] = i
    BY DEF Covers
  <2>1. CASE i = m + 1
    BY <2>1, <1>11, <1>1
  <2>2. CASE i \in 1..m
    <3>1. \E a \in 1..pos - 1 : f[a] = i
      BY <2>2 DEF Covers, m
    <3>2. QED
      BY <3>1, <2>2, <1>10
  <2>3. QED
    BY <2>1, <2>2, <1>2
<1>15. QED
  BY <1>13, <1>14 DEF ws, t

(* how many are kept of the samples s *)
Fewer(s, k) == IF Len(s) < k THEN Len(s) ELSE k

Kept(vs, s, k) ==
  /\ vs \in [1..k -> Int]
  /\ \E f : /\ Shortest(vs, s, Fewer(s, k), f)
            /\ Len(s) <= k => Covers(f, s, Fewer(s, k))

(* A sample is put among the shortest, in the place of the longest when    *)
(* there are k already, or left out (lines 67-88).                         *)
LEMMA AddSampleKeeps ==
  ASSUME param.k \in Nat \ {0}, samples \in Seq(Int), NEW val \in Int,
         Kept(values, samples, param.k)
  PROVE  Kept(AddSample(values, val), Append(samples, val), param.k)
<1> DEFINE k  == param.k
           m  == Len(samples)
           t  == Append(samples, val)
           ws == AddSample(values, val)
<1>1. /\ k \in Nat \ {0} /\ m \in Nat /\ Len(t) = m + 1
      /\ t \in Seq(Int) /\ \A i \in 1..m : samples[i] \in Int /\ t[i] = samples[i]
      /\ t[m + 1] = val
  BY AppendProperties, LenProperties, ElementOfSeq
<1>2. PICK f : /\ Shortest(values, samples, Fewer(samples, k), f)
               /\ m <= k => Covers(f, samples, Fewer(samples, k))
  BY DEF Kept
<1>3. values \in [1..k -> Int]
  BY DEF Kept
<1> HIDE DEF k, m, t
<1>4. CASE m < k
  <2> DEFINE pos == m + 1
             vs  == [values EXCEPT ![pos] = val]
  <2>1. pos \in 1..k /\ vs \in [1..k -> Int] /\ vs[pos] = val /\ k \in Nat
        /\ \A a \in 1..pos - 1 : vs[a] = values[a]
    BY <1>1, <1>3, <1>4
  <2>2. Fewer(samples, k) = m /\ pos - 1 = m
    BY <1>1, <1>4 DEF Fewer, m
  <2>3. Shortest(values, samples, pos - 1, f) /\ Covers(f, samples, pos - 1)
    BY <1>1, <1>2, <1>4, <2>2
  <2> HIDE DEF vs, pos
  <2>4. Shortest(vs, samples, pos - 1, f)
    BY <2>1, <2>3, Zenon DEF Shortest
  <2>5. \A i \in 1..m : (\A a \in 1..pos - 1 : f[a] # i) => val <= samples[i]
    BY <2>3 DEF Covers, m
  <2>6. PICK g : Shortest(Sink(vs, pos), t, pos, g) /\ Covers(g, t, pos)
    BY <1>1, <2>1, <2>3, <2>4, <2>5, InsertKeeps, Zenon DEF t, m
  <2>7. ws = Sink(vs, pos)
    BY <1>4 DEF AddSample, samplecount, m, k, vs, pos
  <2>8. Fewer(t, k) = pos
    BY <1>1, <1>4 DEF Fewer, pos
  <2>9. Sink(vs, pos) \in [1..k -> Int]
    BY <2>1, SinkFacts
  <2>10. QED
    BY <2>6, <2>7, <2>8, <2>9, Zenon DEF Kept, t, k
<1>5. CASE m >= k /\ val < values[k]
  <2> DEFINE vs == [values EXCEPT ![k] = val]
             h  == [a \in 1..k - 1 |-> f[a]]
  <2>1. k \in 1..k /\ vs \in [1..k -> Int] /\ vs[k] = val /\ k \in Nat
        /\ \A a \in 1..k - 1 : vs[a] = values[a]
    BY <1>1, <1>3
  <2>2. Fewer(samples, k) = k /\ Fewer(t, k) = k /\ ~ (Len(t) <= k)
    BY <1>1, <1>5 DEF Fewer, m
  <2>3. /\ \A a \in 1..k : f[a] \in 1..m /\ values[a] = samples[f[a]]
                           /\ values[a] \in Int
        /\ \A a, b \in 1..k : f[a] = f[b] => a = b
        /\ \A a, b \in 1..k : a <= b => values[a] <= values[b]
        /\ \A i \in 1..m : (\A a \in 1..k : f[a] # i) =>
             \A a \in 1..k : values[a] <= samples[i]
    BY <1>2, <1>3, <2>2 DEF Shortest, m
  <2>4. \A i \in 1..m : (\A a \in 1..k - 1 : h[a] # i) =>
          \A a \in 1..k : values[a] <= samples[i]
    <3> SUFFICES ASSUME NEW i \in 1..m, \A a \in 1..k - 1 : h[a] # i,
                        NEW a \in 1..k
                 PROVE  values[a] <= samples[i]
      OBVIOUS
    <3>1. CASE f[k] = i
      BY <3>1, <2>1, <2>3
    <3>2. CASE f[k] # i
      <4>1. \A b \in 1..k : f[b] # i
        BY <3>2, <2>1
      <4>2. QED
        BY <4>1, <2>3
    <3>3. QED
      BY <3>1, <3>2
  <2> HIDE DEF vs
  <2>5. Shortest(vs, samples, k - 1, h)
    <3>1. h \in [1..k - 1 -> 1..m]
      BY <2>3, <1>1
    <3>2. \A a, b \in 1..k - 1 : h[a] = h[b] => a = b
      BY <2>3, <1>1
    <3>3. \A a \in 1..k - 1 : vs[a] = samples[h[a]]
      BY <2>1, <2>3
    <3>4. \A a, b \in 1..k - 1 : a <= b => vs[a] <= vs[b]
      BY <2>1, <2>3
    <3>5. ASSUME NEW i \in 1..m, \A a \in 1..k - 1 : h[a] # i,
                 NEW a \in 1..k - 1
          PROVE  vs[a] <= samples[i]
      <4>1. a \in 1..k /\ vs[a] = values[a]
        BY <2>1
      <4>2. QED
        BY <2>4, <3>5, <4>1, Zenon
    <3>6. QED
      BY <3>1, <3>2, <3>3, <3>4, <3>5, Zenon DEF Shortest, m
  <2>6. ASSUME NEW i \in 1..m, \A a \in 1..k - 1 : h[a] # i
        PROVE  val <= samples[i]
    <3>1. values[k] <= samples[i]
      BY <2>1, <2>4, <2>6, Zenon
    <3>2. values[k] \in Int /\ samples[i] \in Int
      BY <2>1, <2>3, <1>1, Zenon
    <3>3. QED
      BY <3>1, <3>2, <1>5
  <2> HIDE DEF h
  <2>7. PICK g : Shortest(Sink(vs, k), t, k, g)
    BY <2>1, <2>5, <2>6, InsertKeeps, Zenon DEF t, m
  <2>8. ws = Sink(vs, k)
    BY <1>1, <1>5 DEF AddSample, samplecount, m, k, vs
  <2>9. Sink(vs, k) \in [1..k -> Int]
    BY <2>1, SinkFacts
  <2>10. QED
    BY <2>2, <2>7, <2>8, <2>9, Zenon DEF Kept, t, k
<1>6. CASE m >= k /\ ~ (val < values[k])
  <2>1. ws = values /\ k \in 1..k /\ values[k] \in Int
    BY <1>1, <1>3, <1>6 DEF AddSample, samplecount, m, k
  <2>2. Fewer(samples, k) = k /\ Fewer(t, k) = k /\ ~ (Len(t) <= k)
    BY <1>1, <1>6 DEF Fewer, m
  <2>3. /\ f \in [1..k -> 1..m]
        /\ \A a \in 1..k : f[a] \in 1..m /\ values[a] = samples[f[a]]
                           /\ values[a] \in Int
        /\ \A a, b \in 1..k : f[a] = f[b] => a = b
        /\ \A a, b \in 1..k : a <= b => values[a] <= values[b]
        /\ \A i \in 1..m : (\A a \in 1..k : f[a] # i) =>
             \A a \in 1..k : values[a] <= samples[i]
    BY <1>2, <1>3, <2>2 DEF Shortest, m
  <2>4. ASSUME NEW i \in 1..Len(t), \A a \in 1..k : f[a] # i, NEW a \in 1..k
        PROVE  values[a] <= t[i]
    <3>1. CASE i = m + 1
      <4>1. values[a] <= values[k] /\ values[a] \in Int
        BY <2>1, <2>3, <1>1
      <4>2. QED
        BY <4>1, <3>1, <2>1, <1>1, <1>6
    <3>2. CASE i \in 1..m
      BY <3>2, <2>3, <2>4, <1>1
    <3>3. QED
      BY <3>1, <3>2, <1>1
  <2>5. f \in [1..k -> 1..Len(t)]
    BY <2>3, <1>1
  <2>6. \A a \in 1..k : values[a] = t[f[a]]
    BY <2>3, <1>1
  <2>7. Shortest(values, t, k, f)
    BY <2>3, <2>4, <2>5, <2>6, Zenon DEF Shortest
  <2>8. QED
    BY <2>1, <2>2, <2>7, <1>3, Zenon DEF Kept, t, k
<1>7. QED
  BY <1>1, <1>3, <1>4, <1>5, <1>6

-----------------------------------------------------------------------------
(***************************************************************************)
(* The clock.                                                              *)
(***************************************************************************)
(* the gap since the last look at the tick count is less than what one     *)
(* kind of interrupt, met ticks times, leaves                              *)
GapExplained ==
  phase = "callibrate" =>
    /\ ticks = 0 => gap < Threshold
    /\ ticks > 0 => \E c \in TickCosts : gap < Threshold + ticks * c

ClockInv == ClockType /\ GapExplained /\ CyclesPerTickPlausible

LEMMA StartCounterType ==
  ASSUME ClockType, StartCounter
  PROVE  cyc' \in [hi : 0..WordMod - 1, lo : 0..WordMod - 1]
BY AccessCounterFacts DEF ClockType, StartCounter

(* The steps that leave the clock alone.                                   *)
LEMMA ClockRests ==
  ASSUME SetOption \/ SetCacheSize \/ Call \/ Report \/ Clear \/ NoClear
         \/ Sample \/ Return \/ UNCHANGED vars
  PROVE  UNCHANGED clock /\ (phase' = "callibrate" => phase = "callibrate")
<1>1. CASE SetOption
  BY <1>1 DEF SetOption, Set, Idle
<1>2. CASE SetCacheSize
  BY <1>2 DEF SetCacheSize, Set, Idle
<1>3. CASE Call \/ Report
  BY <1>3 DEF Call, Report
<1>4. CASE Clear \/ NoClear
  BY <1>4 DEF Clear, NoClear
<1>5. CASE Sample \/ Return
  BY <1>5 DEF Sample, Return
<1>6. CASE UNCHANGED vars
  BY <1>6 DEF vars, fcycvars
<1>7. QED
  BY <1>1, <1>2, <1>3, <1>4, <1>5, <1>6

(* A turn of the loop of callibrate: a gap that is counted is divided by   *)
(* the interrupts in it (lines 224-245).                                   *)
LEMMA CallibrateReadKeeps ==
  ASSUME ClockInv, phase = "callibrate", CallibrateRead
  PROVE  ClockInv'
<1> DEFINE g == gap + ReadCost
<1>1. /\ ClockType /\ GapExplained /\ CyclesPerTickPlausible
      /\ Threshold \in Nat \ {0} /\ RecordThresh \in Nat
      /\ ReadCost \in Nat \ {0} /\ TickCosts \subseteq Nat
      /\ NEvent \in Nat /\ MaxTicks \in Nat
      /\ now \in Nat /\ gap \in Nat /\ ticks \in 0..MaxTicks
      /\ cycPerTick \in Nat /\ events \in 0..NEvent /\ g \in Nat
      /\ now \in 0..WordMod * WordMod - 1
  BY WordFacts, ClockAssumption DEF ClockInv, ClockType
<1>2. /\ events < NEvent /\ now' = After(ReadCost) /\ UNCHANGED cyc
      /\ now' \in 0..WordMod * WordMod - 1
  BY <1>1, AfterType DEF CallibrateRead
<1>3. CASE g < Threshold
  <2>1. gap' = g /\ UNCHANGED <<ticks, events, cycPerTick>>
    BY <1>3 DEF CallibrateRead
  <2>2. ClockType'
    BY <2>1, <1>1, <1>2 DEF ClockType
  <2>3. CyclesPerTickPlausible'
    BY <2>1, <1>1 DEF CyclesPerTickPlausible
  <2>4. ASSUME ticks > 0
        PROVE  \E c \in TickCosts : g < Threshold + ticks * c
    <3>1. PICK c \in TickCosts : gap < Threshold + ticks * c
      BY <2>4, <1>1 DEF GapExplained
    <3>2. ticks * c \in Nat
      BY <1>1
    <3>3. g < Threshold + ticks * c
      BY <3>2, <1>1, <1>3
    <3>4. QED
      BY <3>3
  <2>5. GapExplained'
    BY <2>1, <2>4, <1>3 DEF GapExplained
  <2>6. QED
    BY <2>2, <2>3, <2>5 DEF ClockInv
<1>4. CASE g >= Threshold /\ ticks = 0
  <2>1. gap' = 0 /\ UNCHANGED <<ticks, events, cycPerTick>>
    BY <1>4, <1>1 DEF CallibrateRead
  <2>2. QED
    BY <2>1, <1>1, <1>2, <1>4
       DEF ClockInv, ClockType, CyclesPerTickPlausible, GapExplained
<1>5. CASE g >= Threshold /\ ticks > 0
  <2> DEFINE cpt == g \div ticks
  <2>1. /\ gap' = 0 /\ ticks' = 0 /\ events' = events + 1
        /\ Observe(g, ticks)
    BY <1>5, <1>1 DEF CallibrateRead
  <2>2. PICK c \in TickCosts : gap < Threshold + ticks * c
    BY <1>1, <1>5 DEF GapExplained
  <2> DEFINE most == c + Threshold + ReadCost
  <2>3. /\ c \in Nat /\ ticks \in Nat \ {0} /\ cpt \in Int
        /\ g % ticks \in 0..ticks - 1 /\ g = ticks * cpt + (g % ticks)
    <3>1. c \in Nat /\ ticks \in Nat \ {0} /\ g \in Int
      BY <1>1, <1>5
    <3>2. QED
      BY <3>1, DivMod
  <2> HIDE DEF cpt
  <2>4. cpt < most
    <3>1. SUFFICES ASSUME most <= cpt PROVE FALSE
      BY <2>3, <1>1
    <3>2. ticks * most <= ticks * cpt
      BY <3>1, <2>3, <1>1, MulMono
    <3>3. ticks * most = ticks * c + ticks * Threshold + ticks * ReadCost
      BY <2>3, <1>1
    <3>4. ticks * Threshold >= Threshold /\ ticks * ReadCost >= ReadCost
      <4>1. 1 <= ticks
        BY <2>3
      <4>2. Threshold * 1 <= Threshold * ticks /\ ReadCost * 1 <= ReadCost * ticks
        BY <4>1, <2>3, <1>1, MulMono
      <4>3. QED
        BY <4>2, <2>3, <1>1
    <3>5. /\ ticks * c \in Int /\ ticks * Threshold \in Int
          /\ ticks * ReadCost \in Int /\ ticks * cpt \in Int
      BY <2>3, <1>1
    <3>6. QED
      BY <3>2, <3>3, <3>4, <3>5, <2>2, <2>3, <1>1
  <2>5. cycPerTick' = cycPerTick \/ (cycPerTick' = cpt /\ cpt > RecordThresh)
    BY <2>1 DEF Observe, cpt
  <2>6. CyclesPerTickPlausible'
    <3>1. CASE cycPerTick' = cycPerTick
      BY <3>1, <1>1 DEF CyclesPerTickPlausible
    <3>2. CASE cycPerTick' = cpt /\ cpt > RecordThresh
      BY <3>2, <2>4, <2>3 DEF CyclesPerTickPlausible
    <3>3. QED
      BY <3>1, <3>2, <2>5
  <2>7. cycPerTick' \in Nat
    BY <2>5, <2>3, <1>1
  <2>8. ClockType'
    BY <2>1, <2>7, <1>1, <1>2 DEF ClockType
  <2>9. GapExplained'
    BY <2>1, <1>1 DEF GapExplained
  <2>10. QED
    BY <2>6, <2>8, <2>9 DEF ClockInv
<1>6. QED
  BY <1>1, <1>3, <1>4, <1>5

(* An interrupt lengthens the gap and is counted.                          *)
LEMMA TimerTickKeeps ==
  ASSUME ClockInv, phase = "callibrate", TimerTick
  PROVE  ClockInv'
<1>1. /\ ClockType /\ GapExplained /\ CyclesPerTickPlausible
      /\ Threshold \in Nat \ {0} /\ TickCosts \subseteq Nat
      /\ MaxTicks \in Nat /\ now \in Nat /\ gap \in Nat
      /\ ticks \in 0..MaxTicks /\ ticks < MaxTicks
      /\ UNCHANGED <<cyc, events, cycPerTick>> /\ ticks' = ticks + 1
  BY WordFacts, ClockAssumption DEF ClockInv, ClockType, TimerTick
<1>2. PICK c \in TickCosts : now' = After(c) /\ gap' = gap + c
  BY DEF TimerTick
<1>3. ClockType'
  <2>1. now' \in 0..WordMod * WordMod - 1
    BY <1>1, <1>2, AfterType
  <2>2. QED
    BY <2>1, <1>1, <1>2 DEF ClockType
<1>4. \E d \in TickCosts : gap' < Threshold + ticks' * d
  <2>1. CASE ticks = 0
    <3>1. gap' < Threshold + ticks' * c
      BY <2>1, <1>1, <1>2 DEF GapExplained
    <3>2. QED
      BY <3>1
  <2>2. CASE ticks > 0
    <3>1. PICK d \in TickCosts : gap < Threshold + ticks * d
      BY <2>2, <1>1 DEF GapExplained
    <3>2. c \in Nat /\ d \in Nat /\ ticks \in Nat
      BY <1>1
    <3>3. CASE d >= c
      <4>1. ticks' * d = ticks * d + d /\ ticks * d \in Int
        BY <3>2, <1>1
      <4>2. gap' < Threshold + ticks' * d
        BY <4>1, <3>1, <3>2, <3>3, <1>1, <1>2
      <4>3. QED
        BY <4>2
    <3>4. CASE d < c
      <4>1. ticks' * c = ticks * c + c /\ ticks * c \in Int /\ ticks * d \in Int
        BY <3>2, <1>1
      <4>2. ticks * d <= ticks * c
        BY <3>2, <3>4, MulMono
      <4>3. gap' < Threshold + ticks' * c
        BY <4>1, <4>2, <3>1, <3>2, <1>1, <1>2
      <4>4. QED
        BY <4>3
    <3>5. QED
      BY <3>2, <3>3, <3>4
  <2>3. QED
    BY <2>1, <2>2, <1>1
<1>5. GapExplained'
  BY <1>1, <1>4 DEF GapExplained
<1>6. CyclesPerTickPlausible'
  BY <1>1 DEF CyclesPerTickPlausible
<1>7. QED
  BY <1>3, <1>5, <1>6 DEF ClockInv

LEMMA ClockStep ==
  ASSUME ClockInv, [Next]_vars
  PROVE  ClockInv'
<1>1. /\ ClockType /\ GapExplained /\ CyclesPerTickPlausible
      /\ Threshold \in Nat \ {0} /\ MaxTicks \in Nat \ {0}
      /\ now \in Nat /\ NEvent \in Nat
  BY WordFacts, ClockAssumption DEF ClockInv, ClockType
<1>2. CASE SetOption \/ SetCacheSize \/ Call \/ Report \/ Clear \/ NoClear
           \/ Sample \/ Return \/ UNCHANGED vars
  <2>1. UNCHANGED clock /\ (phase' = "callibrate" => phase = "callibrate")
    BY <1>2, ClockRests
  <2>2. QED
    BY <2>1, <1>1 DEF clock, ClockInv, ClockType, GapExplained,
                      CyclesPerTickPlausible
<1>3. CASE InitFsecs
  <2>1. Sleep \in Nat
    BY ClockAssumption, WordFacts
  <2>2. now' \in 0..WordMod * WordMod - 1
    BY <2>1, <1>1, <1>3, AfterType DEF InitFsecs, MhzFull
  <2>3. cyc' \in [hi : 0..WordMod - 1, lo : 0..WordMod - 1]
    BY <1>1, <1>3, StartCounterType DEF InitFsecs, MhzFull
  <2>4. UNCHANGED <<ticks, gap, events, cycPerTick>> /\ phase' # "callibrate"
    BY <1>3 DEF InitFsecs, MhzFull, Idle
  <2>5. QED
    BY <2>2, <2>3, <2>4, <1>1
       DEF ClockInv, ClockType, GapExplained, CyclesPerTickPlausible
<1>4. CASE Start
  <2>1. StartCounter /\ UNCHANGED <<now, cycPerTick>>
    BY <1>4 DEF Start, BeginCallibrate, StartComp
  <2>2. cyc' \in [hi : 0..WordMod - 1, lo : 0..WordMod - 1]
    BY <1>1, <2>1, StartCounterType
  <2>3. /\ ticks' \in {0, ticks} /\ gap' \in {0, gap} /\ events' \in {0, events}
        /\ phase' = "callibrate" => ticks' = 0 /\ gap' = 0
    BY <1>4 DEF Start, Goto, BeginCallibrate, StartComp
  <2>4. QED
    BY <2>1, <2>2, <2>3, <1>1
       DEF ClockInv, ClockType, GapExplained, CyclesPerTickPlausible
<1>5. CASE Callibrate
  <2>1. CASE CallibrateRead
    BY <2>1, <1>5, CallibrateReadKeeps DEF Callibrate
  <2>2. CASE StartComp /\ Goto("running")
    <3>1. cyc' \in [hi : 0..WordMod - 1, lo : 0..WordMod - 1]
      BY <1>1, <2>2, StartCounterType DEF StartComp
    <3>2. QED
      BY <3>1, <2>2, <1>1 DEF StartComp, Goto, ClockInv, ClockType,
                              GapExplained, CyclesPerTickPlausible
  <2>3. QED
    BY <2>1, <2>2, <1>5 DEF Callibrate
<1>6. CASE Timer
  BY <1>6, TimerTickKeeps DEF Timer
<1>7. CASE RunFunction
  <2>1. PICK d \in Durations : now' = After(d)
    BY <1>7 DEF RunFunction
  <2>2. now' \in 0..WordMod * WordMod - 1
    <3>1. d \in Nat
      BY KBestAssumption, WordFacts
    <3>2. QED
      BY <3>1, <2>1, <1>1, AfterType
  <2>3. ticks' \in 0..MaxTicks
    BY <1>7, <1>1 DEF RunFunction
  <2>4. UNCHANGED <<cyc, gap, events, cycPerTick>> /\ phase' = "sample"
    BY <1>7 DEF RunFunction
  <2>5. QED
    BY <2>2, <2>3, <2>4, <1>1
       DEF ClockInv, ClockType, GapExplained, CyclesPerTickPlausible
<1>8. QED
  BY <1>2, <1>3, <1>4, <1>5, <1>6, <1>7 DEF Next, Fcyc

-----------------------------------------------------------------------------
(***************************************************************************)
(* The parameters and the times of a call.                                 *)
(***************************************************************************)
Phases == {"idle", "loop", "stuck", "exited", "start", "callibrate",
           "running", "sample", "done", "returned"}

ParamInv == param \in Params /\ CacheBufFits /\ phase \in Phases

(* every sample has the time that really passed beside it *)
TimesInv ==
  /\ samples \in Seq(Int) /\ spent \in Seq(Nat)
  /\ Len(spent) = IF phase = "sample" THEN Len(samples) + 1 ELSE Len(samples)
  /\ phase = "idle" => Len(samples) = 0
  /\ SamplesAreElapsed
  /\ ~param.compensate =>
       /\ phase = "running" => cyc = AccessCounter(now)
       /\ phase = "sample" => GetCounter(now) = spent[Len(spent)]

LEMMA ParamStep ==
  ASSUME ParamInv, [Next]_vars
  PROVE  ParamInv'
<1>1. param \in Params /\ cache \in {0, param.bytes} /\ phase \in Phases
  BY DEF ParamInv, CacheBufFits
<1>2. CASE SetOption
  <2>1. /\ Ks \subseteq Nat \ {0} /\ Maxes \subseteq Nat /\ Blocks \subseteq Nat
        /\ Epsilons \subseteq Fractions
    BY KBestAssumption
  <2>2. param' \in Params /\ param'.bytes = param.bytes
    <3>1. CASE \E k \in Ks : Set("k", k)
      BY <3>1, <2>1, <1>1 DEF Set, Params
    <3>2. CASE \E m \in Maxes : Set("max", m)
      BY <3>2, <2>1, <1>1 DEF Set, Params
    <3>3. CASE \E e \in Epsilons : Set("eps", e)
      BY <3>3, <2>1, <1>1 DEF Set, Params
    <3>4. CASE \E b \in BOOLEAN : Set("compensate", b) \/ Set("clear", b)
      BY <3>4, <2>1, <1>1 DEF Set, Params
    <3>5. CASE \E n \in Blocks : Set("block", n)
      BY <3>5, <2>1, <1>1 DEF Set, Params
    <3>6. QED
      BY <3>1, <3>2, <3>3, <3>4, <3>5, <1>2 DEF SetOption
  <2>3. cache' = cache /\ phase' = phase
    BY <1>2 DEF SetOption, Set
  <2>4. QED
    BY <2>2, <2>3, <1>1 DEF ParamInv, CacheBufFits
<1>3. CASE SetCacheSize
  <2>1. PICK n \in Bytes :
          /\ Set("bytes", n)
          /\ cache' = IF n # param.bytes THEN 0 ELSE cache
    BY <1>3 DEF SetCacheSize
  <2>2. n \in Nat
    BY KBestAssumption
  <2>3. param' \in Params /\ param'.bytes = n /\ phase' = phase
    BY <2>1, <2>2, <1>1 DEF Set, Params
  <2>4. QED
    BY <2>1, <2>3, <1>1 DEF ParamInv, CacheBufFits
<1>4. CASE InitFsecs
  <2>1. param' \in Params /\ param'.bytes = param.bytes
    BY <1>4, <1>1, KBestAssumption DEF InitFsecs, Params
  <2>2. cache' = cache /\ phase' = phase
    BY <1>4 DEF InitFsecs
  <2>3. QED
    BY <2>1, <2>2, <1>1 DEF ParamInv, CacheBufFits
<1>5. CASE Clear
  <2>1. /\ param' = param /\ cache' \in {cache, param.bytes}
        /\ phase' \in {"exited", "stuck", "start"}
    BY <1>5 DEF Clear
  <2>2. QED
    BY <2>1, <1>1 DEF ParamInv, CacheBufFits, Phases
<1>6. CASE UNCHANGED vars
  BY <1>6, <1>1 DEF vars, fcycvars, ParamInv, CacheBufFits
<1>7. CASE Call \/ Report \/ NoClear \/ Start \/ Callibrate \/ RunFunction
           \/ Sample \/ Return \/ Timer
  <2>1. UNCHANGED <<param, cache>>
    BY <1>7 DEF Call, Report, NoClear, Start, Callibrate, RunFunction,
                Sample, Return, Timer, Goto, fcycvars
  <2>2. phase' \in Phases
    BY <1>7, <1>1 DEF Call, Report, NoClear, Start, Callibrate, RunFunction,
                      Sample, Return, Timer, Goto, fcycvars, Phases
  <2>3. QED
    BY <2>1, <2>2, <1>1 DEF ParamInv, CacheBufFits
<1>8. QED
  BY <1>2, <1>3, <1>4, <1>5, <1>6, <1>7 DEF Next, Fcyc

(* The sample taken is the time that passed, or that time corrected.       *)
LEMMA SampleFacts ==
  ASSUME ClockInv, ParamInv, TimesInv, Sample
  PROVE  \E val \in Int :
           /\ samples' = Append(samples, val)
           /\ values' = AddSample(values, val)
           /\ ~param.compensate => val = spent[Len(spent)]
<1> DEFINE val == IF param.compensate THEN GetCompCounter(now, ticks)
                                      ELSE GetCounter(now)
<1>1. /\ samples' = Append(samples, val) /\ values' = AddSample(values, val)
      /\ phase = "sample"
  BY DEF Sample
<1>2. GetCounter(now) \in Int
  BY GetCounterType DEF ClockInv, ClockType
<1>3. ticks * cycPerTick \in Int
  BY ClockAssumption DEF ClockInv, ClockType
<1>4. val \in Int
  BY <1>2, <1>3 DEF GetCompCounter
<1>5. ~param.compensate => val = spent[Len(spent)]
  BY <1>1 DEF TimesInv
<1>6. QED
  BY <1>1, <1>4, <1>5

LEMMA TimesStep ==
  ASSUME ClockInv, ParamInv, TimesInv, [Next]_vars
  PROVE  TimesInv'
<1>1. /\ samples \in Seq(Int) /\ spent \in Seq(Nat)
      /\ Len(samples) \in Nat /\ Len(spent) \in Nat
      /\ DOMAIN samples = 1..Len(samples)
      /\ Len(spent) = IF phase = "sample" THEN Len(samples) + 1 ELSE Len(samples)
      /\ phase = "idle" => Len(samples) = 0
      /\ SamplesAreElapsed
      /\ ~param.compensate =>
           /\ phase = "running" => cyc = AccessCounter(now)
           /\ phase = "sample" => GetCounter(now) = spent[Len(spent)]
  BY LenProperties DEF TimesInv
<1>2. CASE SetOption \/ SetCacheSize \/ InitFsecs
  <2>1. phase = "idle" /\ phase' = "idle" /\ UNCHANGED <<samples, spent>>
    BY <1>2 DEF SetOption, SetCacheSize, InitFsecs, Set, Idle
  <2>2. QED
    BY <2>1, <1>1 DEF TimesInv, SamplesAreElapsed
<1>3. CASE Call \/ Report
  <2>1. samples' = << >> /\ spent' = << >> /\ phase' \in {"loop", "idle"}
    BY <1>3 DEF Call, Report
  <2>2. QED
    BY <2>1 DEF TimesInv, SamplesAreElapsed
<1>4. CASE Clear \/ NoClear \/ Return
  <2>1. /\ phase' \in {"exited", "stuck", "start", "returned"}
        /\ phase \in {"loop", "done"} /\ UNCHANGED <<samples, spent, param>>
    BY <1>4 DEF Clear, NoClear, Return
  <2>2. QED
    BY <2>1, <1>1 DEF TimesInv, SamplesAreElapsed
<1>5. CASE Start
  <2>1. /\ phase' \in {"running", "callibrate"} /\ phase = "start"
        /\ UNCHANGED <<samples, spent, param>>
    BY <1>5 DEF Start, Goto
  <2>2. ~param.compensate => cyc' = AccessCounter(now) /\ now' = now
    BY <1>5 DEF Start, StartCounter
  <2>3. QED
    BY <2>1, <2>2, <1>1 DEF TimesInv, SamplesAreElapsed, AccessCounter
<1>6. CASE Callibrate \/ Timer
  <2>1. /\ phase' \in {"running", "callibrate"} /\ phase = "callibrate"
        /\ UNCHANGED <<samples, spent, param>>
    BY <1>6 DEF Callibrate, Timer, Goto, fcycvars
  <2>2. phase' = "running" => cyc' = AccessCounter(now) /\ now' = now
    BY <1>6 DEF Callibrate, Timer, Goto, fcycvars, StartComp, StartCounter
  <2>3. QED
    BY <2>1, <2>2, <1>1 DEF TimesInv, SamplesAreElapsed, AccessCounter
<1>7. CASE RunFunction
  <2>1. PICK d \in Durations : now' = After(d) /\ spent' = Append(spent, d)
    BY <1>7 DEF RunFunction
  <2>2. /\ phase = "running" /\ phase' = "sample" /\ UNCHANGED <<cyc, samples, param>>
        /\ d \in Nat /\ d \in 0..WordMod * WordMod - 1
    BY <1>7, KBestAssumption, WordFacts DEF RunFunction
  <2>3. /\ spent' \in Seq(Nat) /\ Len(spent') = Len(spent) + 1
        /\ spent'[Len(spent) + 1] = d
        /\ \A j \in 1..Len(spent) : spent'[j] = spent[j]
    BY <2>1, <2>2, <1>1, AppendProperties
  <2>4. ~param.compensate => GetCounter(now') = d
    BY <2>1, <2>2, <1>1, GetCounterElapsed DEF After, ClockInv, ClockType
  <2>5. GetCounter(now)' = GetCounter(now')
    BY <2>2 DEF GetCounter, AccessCounter
  <2>6. SamplesAreElapsed'
    BY <2>2, <2>3, <1>1 DEF SamplesAreElapsed
  <2>7. QED
    BY <2>2, <2>3, <2>4, <2>5, <2>6, <1>1 DEF TimesInv
<1>8. CASE Sample
  <2>1. PICK val \in Int : /\ samples' = Append(samples, val)
                           /\ ~param.compensate => val = spent[Len(spent)]
    BY <1>8, SampleFacts
  <2>2. /\ phase = "sample" /\ phase' \in {"loop", "done"}
        /\ UNCHANGED <<param, spent>>
    BY <1>8 DEF Sample
  <2>3. /\ samples' \in Seq(Int) /\ Len(samples') = Len(samples) + 1
        /\ samples'[Len(samples) + 1] = val
        /\ \A j \in 1..Len(samples) : samples'[j] = samples[j]
        /\ DOMAIN samples' = 1..Len(samples')
    BY <2>1, <1>1, AppendProperties, LenProperties
  <2>4. SamplesAreElapsed'
    BY <2>1, <2>2, <2>3, <1>1 DEF SamplesAreElapsed
  <2>5. QED
    BY <2>2, <2>3, <2>4, <1>1 DEF TimesInv
<1>9. CASE UNCHANGED vars
  <2>1. GetCounter(now)' = GetCounter(now) /\ AccessCounter(now)' = AccessCounter(now)
    BY <1>9 DEF vars, clock, GetCounter, AccessCounter
  <2>2. UNCHANGED <<phase, samples, spent, param, cyc>>
    BY <1>9 DEF vars, clock, fcycvars
  <2>3. QED
    BY <2>1, <2>2, <1>1 DEF TimesInv, SamplesAreElapsed
<1>10. QED
  BY <1>2, <1>3, <1>4, <1>5, <1>6, <1>7, <1>8, <1>9 DEF Next, Fcyc

-----------------------------------------------------------------------------
(***************************************************************************)
(* What a call has found when it ends.                                     *)
(***************************************************************************)
BestInv ==
  /\ ~InCall => values = << >>
  /\ InCall => Kept(values, samples, param.k)
  /\ phase = "done" => /\ Len(samples) > 0
                       /\ \/ Len(samples) >= param.max
                          \/ HasConverged(values, Len(samples))
  /\ ResultIsMin /\ EndsAsTested

(* The first of the shortest is the shortest.                              *)
LEMMA FirstIsMin ==
  ASSUME NEW k \in Nat \ {0}, NEW s \in Seq(Int), Len(s) > 0, NEW vs,
         Kept(vs, s, k)
  PROVE  /\ vs[1] \in Int
         /\ \E i \in 1..Len(s) : s[i] = vs[1]
         /\ \A i \in 1..Len(s) : vs[1] <= s[i]
<1> DEFINE n == Fewer(s, k)
<1>1. PICK f : Shortest(vs, s, n, f)
  BY DEF Kept
<1>2. Len(s) \in Nat /\ n \in Nat \ {0} /\ 1 \in 1..n /\ 1 \in 1..k
  BY LenProperties DEF Fewer
<1> HIDE DEF n
<1>3. /\ \A a \in 1..n : f[a] \in 1..Len(s) /\ vs[a] = s[f[a]]
      /\ \A a, b \in 1..n : a <= b => vs[a] <= vs[b]
      /\ \A i \in 1..Len(s) :
           (\A a \in 1..n : f[a] # i) => \A a \in 1..n : vs[a] <= s[i]
  BY <1>1, Zenon DEF Shortest
<1>4. vs[1] \in Int
  BY <1>2 DEF Kept
<1>5. f[1] \in 1..Len(s) /\ s[f[1]] = vs[1]
  BY <1>2, <1>3
<1>6. ASSUME NEW i \in 1..Len(s)
      PROVE  vs[1] <= s[i]
  <2>1. CASE \E a \in 1..n : f[a] = i
    <3>1. PICK a \in 1..n : f[a] = i
      BY <2>1
    <3>2. vs[1] <= vs[a] /\ vs[a] = s[i]
      BY <3>1, <1>2, <1>3
    <3>3. QED
      BY <3>2
  <2>2. CASE \A a \in 1..n : f[a] # i
    BY <2>2, <1>2, <1>3
  <2>3. QED
    BY <2>1, <2>2
<1>7. QED
  BY <1>4, <1>5, <1>6

(* When the test of line 97 has passed, k samples are close to the         *)
(* shortest, and it is not negative unless epsilon is 0.                   *)
LEMMA ConvergedFacts ==
  ASSUME param \in Params, samples \in Seq(Int), Len(samples) > 0,
         Kept(values, samples, param.k), HasConverged(values, Len(samples))
  PROVE  /\ \E S \in SUBSET (1..Len(samples)) :
              /\ Cardinality(S) = param.k
              /\ \A i \in S : Close(values[1], samples[i])
         /\ param.eps.num > 0 => ~ (values[1] < 0)
<1> DEFINE k == param.k
           m == Len(samples)
           num == param.eps.num
           den == param.eps.den
<1>1. k \in Nat \ {0} /\ num \in Nat /\ den \in Nat \ {0} /\ m \in Nat
      /\ 1 \in 1..k /\ k \in 1..k /\ k >= 1
  BY LenProperties DEF Params, Fractions
<1>2. m >= k /\ Close(values[1], values[k])
  BY DEF HasConverged
<1>3. PICK f : Shortest(values, samples, k, f)
  <2>1. Fewer(samples, k) = k
    BY <1>1, <1>2 DEF Fewer
  <2>2. QED
    BY <2>1 DEF Kept
<1>4. \A a \in 1..k : values[a] \in Int
  BY DEF Kept
<1> HIDE DEF k, m
<1>5. /\ f \in [1..k -> 1..m]
      /\ \A a, b \in 1..k : f[a] = f[b] => a = b
      /\ \A a \in 1..k : values[a] = samples[f[a]]
      /\ \A a, b \in 1..k : a <= b => values[a] <= values[b]
  BY <1>3, Zenon DEF Shortest, m
<1> DEFINE S == {f[a] : a \in 1..k}
<1>6. S \in SUBSET (1..m)
  BY <1>5
<1>7. Cardinality(S) = k
  <2>1. f \in Injection(1..k, S)
    BY <1>5 DEF Injection, IsInjective
  <2>2. f \in Surjection(1..k, S)
    BY <1>5 DEF Surjection
  <2>3. ExistsBijection(1..k, S)
    BY <2>1, <2>2 DEF ExistsBijection, Bijection
  <2>4. k \in Nat
    BY <1>1
  <2> HIDE DEF S
  <2>5. QED
    BY <2>3, <2>4, FS_CountingElements, Zenon
<1>8. ASSUME NEW a \in 1..k
      PROVE  Close(values[1], values[a])
  <2>1. values[a] <= values[k] /\ values[a] \in Int /\ values[k] \in Int
        /\ values[1] \in Int
    BY <1>1, <1>4, <1>5
  <2>2. den * values[a] <= den * values[k]
    BY <2>1, <1>1, MulMono
  <2>3. (den + num) * values[1] >= den * values[k]
    BY <1>2 DEF Close
  <2>4. /\ (den + num) * values[1] \in Int /\ den * values[k] \in Int
        /\ den * values[a] \in Int
    <3>1. \A x, y \in Int : x * y \in Int
      OBVIOUS
    <3>2. den \in Int /\ den + num \in Int
      BY <1>1
    <3>3. QED
      BY <2>1, <3>1, <3>2, Zenon
  <2>5. (den + num) * values[1] >= den * values[a]
    BY <2>2, <2>3, <2>4
  <2>6. QED
    BY <2>5 DEF Close
<1>9. \A i \in S : Close(values[1], samples[i])
  BY <1>5, <1>8
<1>10. ASSUME num > 0, values[1] < 0
       PROVE  FALSE
  <2>1. (den + num) * values[1] >= den * values[1] /\ values[1] \in Int
    BY <1>1, <1>4, <1>8 DEF Close
  <2>2. (den + num) * values[1] = den * values[1] + num * values[1]
    BY <2>1, <1>1
  <2>3. den * values[1] \in Int /\ num * values[1] \in Int
    BY <2>1, <1>1
  <2>4. num * values[1] < 0
    <3>1. num * values[1] <= num * (0 - 1)
      BY <2>1, <1>1, <1>10, MulMono
    <3>2. num * (0 - 1) < 0 /\ num * (0 - 1) \in Int
      BY <1>1, <1>10
    <3>3. QED
      BY <3>1, <3>2, <2>3
  <2>5. QED
    BY <2>1, <2>2, <2>3, <2>4
<1>11. QED
  BY <1>6, <1>7, <1>9, <1>10 DEF k, m

LEMMA BestStep ==
  ASSUME ClockInv, ParamInv, TimesInv, BestInv, [Next]_vars
  PROVE  BestInv'
<1>1. /\ ~InCall => values = << >>
      /\ InCall => Kept(values, samples, param.k)
      /\ phase = "done" => /\ Len(samples) > 0
                           /\ \/ Len(samples) >= param.max
                              \/ HasConverged(values, Len(samples))
      /\ ResultIsMin /\ EndsAsTested
      /\ param \in Params /\ param.k \in Nat \ {0} /\ param.max \in Nat
      /\ samples \in Seq(Int) /\ Len(samples) \in Nat
      /\ DOMAIN samples = 1..Len(samples)
  BY LenProperties DEF BestInv, ParamInv, TimesInv, Params
<1>2. CASE SetOption \/ SetCacheSize \/ InitFsecs
  <2>1. phase = "idle" /\ phase' = "idle" /\ UNCHANGED values
    BY <1>2 DEF SetOption, SetCacheSize, InitFsecs, Set, Idle
  <2>2. QED
    BY <2>1, <1>1 DEF BestInv, InCall, ResultIsMin, EndsAsTested,
                      EarlyMeansClose, NegativeRunsOut
<1>3. CASE Call
  <2>1. /\ values' = [j \in 1..param.k |-> 0] /\ samples' = << >>
        /\ phase' = "loop" /\ param' = param
    BY <1>3 DEF Call
  <2>2. Kept(values', samples', param.k)
    <3> DEFINE f == [a \in 1..0 |-> 1]
    <3>1. Len(samples') = 0 /\ Fewer(samples', param.k) = 0 /\ 1..0 = {}
      BY <2>1, <1>1 DEF Fewer
    <3>2. Shortest(values', samples', 0, f) /\ Covers(f, samples', 0)
      BY <3>1 DEF Shortest, Covers
    <3>3. values' \in [1..param.k -> Int]
      BY <2>1
    <3>4. QED
      BY <3>1, <3>2, <3>3, Zenon DEF Kept
  <2>3. QED
    BY <2>1, <2>2 DEF BestInv, InCall, ResultIsMin, EndsAsTested,
                      EarlyMeansClose, NegativeRunsOut
<1>4. CASE Report
  <2>1. phase = "returned" /\ phase' = "idle" /\ values' = values
    BY <1>4 DEF Report
  <2>2. QED
    BY <2>1, <1>1 DEF BestInv, InCall, ResultIsMin, EndsAsTested,
                      EarlyMeansClose, NegativeRunsOut
<1>5. CASE Clear \/ NoClear \/ Start \/ Callibrate \/ Timer \/ RunFunction
  <2>1. /\ phase' \in {"exited", "stuck", "start", "running", "callibrate",
                       "sample"}
        /\ phase \in {"loop", "start", "callibrate", "running"}
        /\ UNCHANGED <<samples, values, param>>
    BY <1>5 DEF Clear, NoClear, Start, Callibrate, Timer, RunFunction, Goto,
                fcycvars
  <2>2. Kept(values', samples', param'.k)
    <3>1. InCall
      BY <2>1 DEF InCall
    <3>2. QED
      BY <3>1, <2>1, <1>1
  <2>3. phase' \notin {"idle", "returned", "done"}
    BY <2>1
  <2>4. QED
    BY <2>2, <2>3 DEF BestInv, InCall, ResultIsMin, EndsAsTested,
                      EarlyMeansClose, NegativeRunsOut
<1>6. CASE Sample
  <2>1. PICK val \in Int : /\ samples' = Append(samples, val)
                           /\ values' = AddSample(values, val)
    BY <1>6, SampleFacts
  <2>2. /\ phase = "sample" /\ param' = param /\ phase' \in {"loop", "done"}
        /\ phase' = "done" =>
             \/ HasConverged(values', samplecount + 1)
             \/ ~ (samplecount + 1 < param.max)
    BY <1>6 DEF Sample
  <2>3. Len(samples') = Len(samples) + 1
    BY <2>1, <1>1, AppendProperties
  <2>4. Kept(values', samples', param.k)
    <3>1. InCall
      BY <2>2 DEF InCall
    <3>2. QED
      BY <3>1, <2>1, <1>1, AddSampleKeeps
  <2>5. HasConverged(values, Len(samples))' = HasConverged(values', Len(samples'))
    BY <2>2 DEF HasConverged, Close
  <2>6. phase' = "done" => /\ Len(samples') > 0
                           /\ \/ Len(samples') >= param.max
                              \/ HasConverged(values, Len(samples))'
    BY <2>2, <2>3, <2>5, <1>1 DEF samplecount
  <2>7. QED
    BY <2>2, <2>4, <2>6 DEF BestInv, InCall, ResultIsMin, EndsAsTested,
                            EarlyMeansClose, NegativeRunsOut
<1>7. CASE Return
  <2>1. /\ phase = "done" /\ phase' = "returned" /\ result' = values[1]
        /\ values' = << >> /\ UNCHANGED <<samples, param>>
    BY <1>7 DEF Return
  <2>2. Len(samples) > 0 /\ Kept(values, samples, param.k)
    BY <2>1, <1>1 DEF InCall
  <2>3. ResultIsMin'
    BY <2>1, <2>2, <1>1, FirstIsMin DEF ResultIsMin
  <2>4. \/ Len(samples) >= param.max
        \/ /\ \E S \in SUBSET (1..Len(samples)) :
                /\ Cardinality(S) = param.k
                /\ \A i \in S : Close(values[1], samples[i])
           /\ param.eps.num > 0 => ~ (values[1] < 0)
    BY <2>1, <2>2, <1>1, ConvergedFacts
  <2>5. \A i : Close(result, samples[i])' = Close(values[1], samples[i])
    BY <2>1 DEF Close
  <2>6. EarlyMeansClose'
    <3>1. CASE Len(samples) >= param.max
      BY <3>1, <2>1, <1>1 DEF EarlyMeansClose, samplecount
    <3>2. CASE \E S \in SUBSET (1..Len(samples)) :
                 /\ Cardinality(S) = param.k
                 /\ \A i \in S : Close(values[1], samples[i])
      <4>1. PICK S \in SUBSET DOMAIN samples :
                   /\ Cardinality(S) = param.k
                   /\ \A i \in S : Close(values[1], samples[i])
        BY <3>2, <1>1
      <4>2. /\ S \in SUBSET DOMAIN samples' /\ Cardinality(S) = param'.k
            /\ \A i \in S : Close(result, samples[i])'
        BY <4>1, <2>1, <2>5, Zenon
      <4>3. QED
        BY <4>2, Zenon DEF EarlyMeansClose
    <3>3. QED
      BY <3>1, <3>2, <2>4
  <2>7. NegativeRunsOut'
    BY <2>1, <2>4, <1>1 DEF NegativeRunsOut, samplecount
  <2>8. QED
    BY <2>1, <2>3, <2>6, <2>7 DEF BestInv, InCall, EndsAsTested
<1>8. CASE UNCHANGED vars
  <2>1. UNCHANGED <<phase, samples, values, param, result>>
    BY <1>8 DEF vars, fcycvars
  <2>2. QED
    BY <2>1, <1>1 DEF BestInv, InCall, ResultIsMin, EndsAsTested, samplecount,
      EarlyMeansClose, NegativeRunsOut, HasConverged, Close, Kept, Fewer
<1>9. QED
  BY <1>2, <1>3, <1>4, <1>5, <1>6, <1>7, <1>8 DEF Next, Fcyc
-----------------------------------------------------------------------------
(***************************************************************************)
(* The theorems.                                                           *)
(***************************************************************************)
IInv == ClockInv /\ ParamInv /\ TimesInv /\ BestInv

LEMMA InitHolds == Init => IInv
<1> SUFFICES ASSUME Init PROVE IInv
  OBVIOUS
<1>1. /\ now = 0 /\ cyc = [hi |-> 0, lo |-> 0] /\ ticks = 0 /\ gap = 0
      /\ events = 0 /\ cycPerTick = 0 /\ param = Defaults /\ cache = 0
      /\ phase = "idle" /\ values = << >> /\ samples = << >> /\ spent = << >>
  BY DEF Init, InitClock
<1>2. ClockInv
  BY <1>1, WordFacts, ClockAssumption
     DEF ClockInv, ClockType, GapExplained, CyclesPerTickPlausible
<1>3. ParamInv
  BY <1>1, KBestAssumption DEF ParamInv, CacheBufFits, Phases
<1>4. TimesInv
  BY <1>1 DEF TimesInv, SamplesAreElapsed
<1>5. BestInv
  BY <1>1 DEF BestInv, InCall, ResultIsMin, EndsAsTested, EarlyMeansClose,
              NegativeRunsOut
<1>6. QED
  BY <1>2, <1>3, <1>4, <1>5 DEF IInv

LEMMA StepKeeps == IInv /\ [Next]_vars => IInv'
BY ClockStep, ParamStep, TimesStep, BestStep DEF IInv

LEMMA Inductive == Spec => []IInv
BY InitHolds, StepKeeps, PTL DEF Spec

(* However often the options are changed between the calls, the sampler is *)
(* fit for the next call: the parameters, the clock and the buffer of      *)
(* clear are well-formed, what fcyc returns is the least time measured,    *)
(* and the correction for a timer interrupt is plausible (fcyc.c:162-198,  *)
(* clock.c:224-245).                                                       *)
THEOREM SamplerFit == Spec => []SamplerOK
<1>1. IInv => SamplerOK
  <2> SUFFICES ASSUME IInv PROVE SamplerOK
    OBVIOUS
  <2>1. ClockType /\ CyclesPerTickPlausible /\ CacheBufFits /\ ResultIsMin
    BY DEF IInv, ClockInv, ParamInv, BestInv
  <2>2. values = << >> \/ DOMAIN values = 1..param.k
    BY DEF IInv, BestInv, Kept
  <2>3. cache \in Nat /\ param \in Params
    BY DEF IInv, ParamInv, CacheBufFits, Params
  <2>4. TypeOK
    BY <2>1, <2>2, <2>3 DEF TypeOK, IInv, ParamInv, Phases
  <2>5. QED
    BY <2>1, <2>4 DEF SamplerOK
<1>2. QED
  BY <1>1, Inductive, PTL

(* The array holds the k shortest times of the call, in order, for every k *)
(* and whatever the times (lines 67-88).                                   *)
THEOREM KeepsKSmallest == Spec => []KSmallest
<1>1. IInv => KSmallest
  <2> SUFFICES ASSUME IInv, InCall PROVE KSmallest
    BY DEF KSmallest
  <2> DEFINE n == Fewer(samples, param.k)
  <2>1. PICK f : Shortest(values, samples, n, f)
    BY DEF IInv, BestInv, Kept
  <2>2. DOMAIN samples = 1..Len(samples) /\ Len(samples) \in Nat
    BY LenProperties DEF IInv, TimesInv
  <2>3. n = IF samplecount < param.k THEN samplecount ELSE param.k
    BY DEF Fewer, samplecount
  <2> HIDE DEF n
  <2>4. f \in Injection(1..n, DOMAIN samples)
    BY <2>1, <2>2 DEF Shortest, Injection, IsInjective
  <2>5. \A a \in 1..n : values[a] = samples[f[a]]
    BY <2>1 DEF Shortest
  <2>6. \A a, b \in 1..n : a <= b => values[a] <= values[b]
    BY <2>1 DEF Shortest
  <2>7. \A i \in DOMAIN samples \ Range(f), a \in 1..n : values[a] <= samples[i]
    <3>1. \A i : i \notin Range(f) => \A a \in 1..n : f[a] # i
      BY <2>4 DEF Range, Injection
    <3>2. QED
      BY <3>1, <2>1, <2>2 DEF Shortest
  <2>8. QED
    BY <2>3, <2>4, <2>5, <2>6, <2>7, Zenon DEF KSmallest
<1>2. QED
  BY <1>1, Inductive, PTL

(* A call that ends before maxsamples has seen k times close to its        *)
(* result, which is not negative then (lines 93-98 and 150-153).           *)
THEOREM EndsByTest == Spec => []EndsAsTested
<1>1. IInv => EndsAsTested
  BY DEF IInv, BestInv
<1>2. QED
  BY <1>1, Inductive, PTL

(* For words of any width, an uncorrected sample is exactly the time that  *)
(* passed, although the counter may have run over (clock.c:53-71).         *)
THEOREM MeasuresElapsed == Spec => []SamplesAreElapsed
<1>1. IInv => SamplesAreElapsed
  BY DEF IInv, TimesInv
<1>2. QED
  BY <1>1, Inductive, PTL
=============================================================================
