--------------------------- MODULE CpuSchedProofs ---------------------------
(***************************************************************************)
(* What the three policies do for every input file.  FCFS keeps its name:  *)
(* the run queue holds what has arrived before this tick, or in this tick  *)
(* and earlier in the file.  Under every policy lists and counters agree   *)
(* and only those are left out whom LeftOut names, and under FCFS and SJF  *)
(* the timeline and the lines printed tell the same story.                 *)
(***************************************************************************)
EXTENDS CpuSched, ListLemmas, SequenceTheorems, FiniteSetTheorems, WellFoundedInduction,
        TLAPS

Entries == [pid : Nat, arr : Nat, burst : Int, on_rq : BOOLEAN, tmp_src : BOOLEAN]

Slices == [pid : Nat, arr : Nat, burst : Int]

(* what fcfs_tick has queued when it comes to the entry at, in tick i *)
QueuedSoFar ==
  \A a \in 1..Len(runq) :
    \/ runq[a].arr < i
    \/ runq[a].arr = i /\ runq[a].pid < at

IInv ==
  policy = "FCFS" =>
    /\ src \in Seq(Entries) /\ runq \in Seq(Slices)
    /\ \A n \in 1..Len(src) : src[n].pid = n
    /\ i \in Nat /\ at \in Nat
    /\ pc = "tick" => QueuedSoFar
    /\ FirstComeFirst
-----------------------------------------------------------------------------
(* What the entries of a run queue are.                                    *)
LEMMA SliceFacts ==
  ASSUME NEW s \in Seq(Slices), NEW a \in 1..Len(s)
  PROVE  s[a] \in Slices /\ s[a].arr \in Nat /\ s[a].pid \in Nat
<1>1. s[a] \in Slices
  BY ElementOfSeq
<1>2. QED
  BY <1>1 DEF Slices

LEMMA InitHolds == Init => IInv
<1> SUFFICES ASSUME Init PROVE IInv
  OBVIOUS
<1>1. PICK n \in 0..MaxProcesses :
        \E file \in [1..n -> [arr : Arrivals, burst : Bursts]] :
          src = [p \in 1..n |-> [pid |-> p, arr |-> file[p].arr,
                                 burst |-> file[p].burst,
                                 on_rq |-> FALSE, tmp_src |-> FALSE]]
  BY DEF Init
<1>2. PICK file \in [1..n -> [arr : Arrivals, burst : Bursts]] :
        src = [p \in 1..n |-> [pid |-> p, arr |-> file[p].arr,
                               burst |-> file[p].burst,
                               on_rq |-> FALSE, tmp_src |-> FALSE]]
  BY <1>1
<1>3. /\ n \in Nat
      /\ \A p \in 1..n : file[p].arr \in Nat /\ file[p].burst \in Int
  <2>1. \A p \in 1..n : file[p].arr \in Arrivals /\ file[p].burst \in Bursts
    BY <1>2
  <2>2. n \in Nat /\ Arrivals \subseteq Nat /\ Bursts \subseteq Int
    BY CpuSchedAssumption
  <2>3. QED
    BY <2>1, <2>2
<1>4. src \in [1..n -> Entries]
  BY <1>2, <1>3 DEF Entries
<1>5. src \in Seq(Entries) /\ Len(src) = n
  BY <1>3, <1>4
<1>6. runq \in Seq(Slices) /\ Len(runq) = 0 /\ DOMAIN runq = {} /\ i = 0 /\ at = 1
  BY DEF Init
<1>7. QED
  BY <1>2, <1>5, <1>6 DEF IInv, QueuedSoFar, FirstComeFirst

(* The entry queued has arrived in this tick, and stands in the file       *)
(* behind the others that have (lines 39-51).                              *)
LEMMA FcfsVisitKeeps ==
  ASSUME IInv, FcfsVisit
  PROVE  IInv'
<1>1. /\ policy = "FCFS" /\ policy' = policy /\ pc = "tick" /\ pc' = pc
      /\ src \in Seq(Entries) /\ src' = src /\ runq \in Seq(Slices)
      /\ i \in Nat /\ i' = i /\ at \in Nat /\ at' = at + 1
      /\ \A n \in 1..Len(src) : src[n].pid = n
      /\ QueuedSoFar /\ FirstComeFirst
      /\ at \in DOMAIN src
  BY Zenon DEF IInv, FcfsVisit, Visiting
<1>2. Len(runq) \in Nat /\ DOMAIN runq = 1..Len(runq) /\ at \in 1..Len(src)
  BY <1>1, LenProperties
<1>3. CASE Here.arr = i
  <2> DEFINE e == Slice(Here)
  <2>1. /\ e.arr = i /\ e.pid = at /\ e \in Slices
    <3>1. src[at] \in Entries /\ src[at].pid = at
      BY <1>1, <1>2, ElementOfSeq
    <3>2. QED
      BY <1>3, <3>1 DEF Here, Slice, Entries, Slices
  <2>2. runq' = Append(runq, e)
    BY <1>3 DEF FcfsVisit, Admit
  <2> HIDE DEF e
  <2>3. /\ runq' \in Seq(Slices) /\ Len(runq') = Len(runq) + 1
        /\ DOMAIN runq' = 1..Len(runq) + 1
        /\ \A a \in 1..Len(runq) : runq'[a] = runq[a]
        /\ runq'[Len(runq) + 1] = e
    <3>1. /\ Append(runq, e) \in Seq(Slices)
          /\ Len(Append(runq, e)) = Len(runq) + 1
          /\ \A a \in 1..Len(runq) : Append(runq, e)[a] = runq[a]
          /\ Append(runq, e)[Len(runq) + 1] = e
      BY <1>1, <2>1, AppendProperties
    <3>2. QED
      BY <2>2, <3>1, LenProperties
  <2>4. \A a \in 1..Len(runq) : runq[a].arr \in Nat /\ runq[a].pid \in Nat
    BY <1>1, SliceFacts
  <2>5. QueuedSoFar'
    <3>1. ASSUME NEW a \in 1..Len(runq) + 1
          PROVE  \/ runq'[a].arr < i
                 \/ runq'[a].arr = i /\ runq'[a].pid < at + 1
      <4>1. a = Len(runq) + 1 \/ a \in 1..Len(runq)
        BY <1>2
      <4>2. QED
        <5>1. CASE a = Len(runq) + 1
          BY <1>1, <2>1, <2>3, <5>1
        <5>2. CASE a \in 1..Len(runq)
          BY <1>1, <2>3, <2>4, <5>2 DEF QueuedSoFar
        <5>3. QED
          BY <4>1, <5>1, <5>2
    <3>2. QED
      BY <1>1, <2>3, <3>1 DEF QueuedSoFar
  <2>6. FirstComeFirst'
    <3>1. ASSUME NEW a \in 1..Len(runq) + 1, NEW b \in 1..Len(runq) + 1, a < b
          PROVE  \/ runq'[a].arr < runq'[b].arr
                 \/ runq'[a].arr = runq'[b].arr /\ runq'[a].pid < runq'[b].pid
      <4>1. a \in 1..Len(runq) /\ (b = Len(runq) + 1 \/ b \in 1..Len(runq))
        BY <1>2, <3>1
      <4>2. CASE b = Len(runq) + 1
        <5>1. runq'[a] = runq[a] /\ runq'[b] = e
          BY <2>3, <4>1, <4>2
        <5>2. \/ runq[a].arr < i
              \/ runq[a].arr = i /\ runq[a].pid < at
          BY <1>1, <4>1 DEF QueuedSoFar
        <5>3. e.arr = i /\ e.pid = at
          BY <2>1
        <5>4. \/ runq[a].arr < e.arr
              \/ runq[a].arr = e.arr /\ runq[a].pid < e.pid
          BY <5>2, <5>3, Zenon
        <5>5. QED
          BY <5>1, <5>4, Zenon
      <4>3. CASE b \in 1..Len(runq)
        <5>1. runq'[a] = runq[a] /\ runq'[b] = runq[b]
          BY <2>3, <4>1, <4>3
        <5>2. a \in DOMAIN runq /\ b \in DOMAIN runq
          BY <1>2, <4>1, <4>3, Zenon
        <5>3. \/ runq[a].arr < runq[b].arr
              \/ runq[a].arr = runq[b].arr /\ runq[a].pid < runq[b].pid
          BY <1>1, <3>1, <5>2, Zenon DEF FirstComeFirst
        <5>4. QED
          BY <5>1, <5>3, Zenon
      <4>4. QED
        BY <4>1, <4>2, <4>3
    <3>2. QED
      BY <2>3, <3>1 DEF FirstComeFirst
  <2>7. QED
    BY <1>1, <2>3, <2>5, <2>6 DEF IInv
<1>4. CASE Here.arr # i
  <2>1. runq' = runq
    BY <1>4 DEF FcfsVisit
  <2>2. QueuedSoFar'
    <3>1. \A a \in 1..Len(runq) : runq[a].arr \in Nat /\ runq[a].pid \in Nat
      BY <1>1, SliceFacts
    <3>2. QED
      BY <1>1, <2>1, <3>1 DEF QueuedSoFar
  <2>3. QED
    BY <1>1, <2>1, <2>2 DEF IInv, FirstComeFirst
<1>5. QED
  BY <1>3, <1>4

(* The next tick begins behind everything that has arrived by this one.    *)
LEMMA NextTickKeeps ==
  ASSUME IInv, NextTick
  PROVE  IInv'
<1> SUFFICES ASSUME policy = "FCFS"
             PROVE  IInv'
  BY DEF IInv, NextTick
<1>1. /\ policy' = policy /\ pc = "tick" /\ UNCHANGED <<src, runq>>
      /\ src \in Seq(Entries) /\ runq \in Seq(Slices) /\ i \in Nat /\ at \in Nat
      /\ \A n \in 1..Len(src) : src[n].pid = n
      /\ QueuedSoFar /\ FirstComeFirst
  BY DEF IInv, NextTick
<1>2. \/ i' = i + 1 /\ at' = 1 /\ pc' = pc
      \/ pc' = "play" /\ UNCHANGED <<i, at>>
  BY DEF NextTick
<1>3. i' \in Nat /\ at' \in Nat /\ FirstComeFirst'
  BY <1>1, <1>2 DEF FirstComeFirst
<1>4. pc' = "tick" => QueuedSoFar'
  <2>1. \A a \in 1..Len(runq) : runq[a].arr \in Nat
    BY <1>1, SliceFacts
  <2>2. QED
    BY <1>1, <1>2, <2>1 DEF QueuedSoFar
<1>5. QED
  BY <1>1, <1>3, <1>4 DEF IInv

LEMMA StepKeeps == IInv /\ [Next]_vars => IInv'
<1> SUFFICES ASSUME IInv, [Next]_vars PROVE IInv'
  OBVIOUS
<1>1. CASE PassBy \/ SjfVisit \/ StcfAppend \/ StcfInsertLast \/ StcfBreak
  <2>1. policy \in {"SJF", "STCF"} /\ policy' = policy
    BY <1>1, Zenon DEF PassBy, SjfVisit, StcfAppend, StcfInsertLast, StcfBreak, Visiting
  <2>2. policy' # "FCFS"
    BY <2>1
  <2>3. QED
    BY <2>2 DEF IInv
<1>2. CASE Play \/ Overrun \/ Done \/ UNCHANGED vars
  <2>1. /\ UNCHANGED <<policy, src, runq, i, at>>
        /\ pc' = "tick" => pc = "tick"
    BY <1>2 DEF Play, Overrun, Done, vars
  <2>2. QED
    BY <2>1 DEF IInv, QueuedSoFar, FirstComeFirst
<1>3. QED
  BY <1>1, <1>2, FcfsVisitKeeps, NextTickKeeps DEF Next

(* Under FCFS the run queue is in the order of arrival, and of the file    *)
(* among those that arrive together, for every input file (fcfs_tick,      *)
(* lines 28-53).                                                           *)
THEOREM ArrivalOrder == Spec => []FirstComeFirst
<1>1. IInv => FirstComeFirst
  BY DEF IInv, FirstComeFirst
<1>2. QED
  BY <1>1, InitHolds, StepKeeps, PTL DEF Spec

-----------------------------------------------------------------------------
(* The sum of the bursts of a list is an integer: the recursive function   *)
(* that SumOfBursts takes the last value of exists, and has no first value *)
(* that is not an integer.                                                 *)
Running(list, n, f) ==
  f = [m \in 0..n |-> IF m = 0 THEN 0 ELSE f[m - 1] + list[m].burst]

LEMMA RunningFacts ==
  ASSUME NEW list, NEW n \in Nat, NEW f, Running(list, n, f)
  PROVE  /\ DOMAIN f = 0..n /\ f[0] = 0
         /\ \A m \in 1..n : f[m] = f[m - 1] + list[m].burst
<1> DEFINE g == [m \in 0..n |-> IF m = 0 THEN 0 ELSE f[m - 1] + list[m].burst]
<1>1. f = g
  BY Zenon DEF Running
<1>2. DOMAIN g = 0..n /\ g[0] = 0
  OBVIOUS
<1>3. \A m \in 1..n : g[m] = f[m - 1] + list[m].burst
  OBVIOUS
<1> HIDE DEF g
<1>4. QED
  BY <1>1, <1>2, <1>3

LEMMA RunningExists ==
  ASSUME NEW list, NEW n \in Nat
  PROVE  \E f : Running(list, n, f)
<1> DEFINE Missing == {m \in Nat : ~ \E f : Running(list, m, f)}
<1> SUFFICES ASSUME Missing # {} PROVE FALSE
  OBVIOUS
<1>1. PICK m \in Missing : \A k \in Missing : m <= k
  BY LeastOf
<1>2. m \in Nat /\ ~ \E f : Running(list, m, f)
  OBVIOUS
<1>3. m # 0
  <2> DEFINE f == [k \in 0..0 |-> 0]
  <2>1. [k \in 0..0 |-> IF k = 0 THEN 0 ELSE f[k - 1] + list[k].burst] = f
    OBVIOUS
  <2>2. Running(list, 0, f)
    BY <2>1, Zenon DEF Running
  <2>3. QED
    BY <1>2, <2>2
<1>4. m - 1 \in Nat /\ m - 1 \notin Missing
  BY <1>1, <1>2, <1>3
<1>5. PICK g : Running(list, m - 1, g)
  BY <1>4
<1>6. /\ DOMAIN g = 0..m - 1 /\ g[0] = 0
      /\ \A k \in 1..m - 1 : g[k] = g[k - 1] + list[k].burst
  BY <1>4, <1>5, RunningFacts
<1> DEFINE f == [k \in 0..m |-> IF k = m THEN g[m - 1] + list[m].burst ELSE g[k]]
           h == [k \in 0..m |-> IF k = 0 THEN 0 ELSE f[k - 1] + list[k].burst]
<1>7. ASSUME NEW k \in 0..m PROVE f[k] = h[k]
  <2>1. CASE k = 0
    BY <1>2, <1>3, <1>6, <2>1
  <2>2. CASE k = m
    <3>1. h[m] = f[m - 1] + list[m].burst /\ m - 1 \in 0..m /\ m - 1 # m
      BY <1>2, <1>3
    <3>2. f[m - 1] = g[m - 1]
      BY <3>1
    <3>3. QED
      BY <2>2, <3>1, <3>2
  <2>3. CASE k # 0 /\ k # m
    <3>1. /\ h[k] = f[k - 1] + list[k].burst /\ k - 1 \in 0..m /\ k - 1 # m
          /\ k \in 1..m - 1 /\ f[k] = g[k]
      BY <1>2, <2>3
    <3>2. f[k - 1] = g[k - 1]
      BY <3>1
    <3>3. QED
      BY <1>6, <3>1, <3>2
  <2>4. QED
    BY <2>1, <2>2, <2>3
<1>8. f = h
  BY <1>7
<1>9. Running(list, m, f)
  BY <1>8, Zenon DEF Running
<1>10. QED
  BY <1>2, <1>9

LEMMA SumFacts ==
  ASSUME NEW list, Len(list) \in Nat
  PROVE  \E f : /\ SumOfBursts(list) = f[Len(list)] /\ f[0] = 0
               /\ \A m \in 1..Len(list) : f[m] = f[m - 1] + list[m].burst
<1> DEFINE f == CHOOSE g : Running(list, Len(list), g)
<1>1. SumOfBursts(list) = f[Len(list)]
  BY DEF SumOfBursts, Running
<1>2. Running(list, Len(list), f)
  BY RunningExists
<1>3. /\ f[0] = 0
      /\ \A m \in 1..Len(list) : f[m] = f[m - 1] + list[m].burst
  BY <1>2, RunningFacts
<1> HIDE DEF f
<1>4. QED
  BY <1>1, <1>3

LEMMA SumIsInteger ==
  ASSUME NEW list, Len(list) \in Nat,
         \A n \in 1..Len(list) : list[n].burst \in Int
  PROVE  SumOfBursts(list) \in Int
<1>1. PICK f : /\ SumOfBursts(list) = f[Len(list)] /\ f[0] = 0
               /\ \A m \in 1..Len(list) : f[m] = f[m - 1] + list[m].burst
  BY SumFacts
<1> DEFINE Bad == {m \in 0..Len(list) : f[m] \notin Int}
<1>2. Bad = {}
  <2> SUFFICES ASSUME Bad # {} PROVE FALSE
    OBVIOUS
  <2>1. Bad \in SUBSET Nat
    OBVIOUS
  <2>2. PICK m \in Bad : \A k \in Bad : m <= k
    BY <2>1, LeastOf
  <2>3. m \in 1..Len(list) /\ m - 1 \in 0..Len(list) /\ m - 1 \notin Bad
    BY <1>1, <2>2
  <2>4. f[m - 1] \in Int /\ list[m].burst \in Int /\ f[m] = f[m - 1] + list[m].burst
    BY <1>1, <2>3
  <2>5. QED
    BY <2>2, <2>4
<1>3. QED
  BY <1>1, <1>2

LEMMA SumIsNatural ==
  ASSUME NEW list, Len(list) \in Nat,
         \A n \in 1..Len(list) : list[n].burst \in Nat
  PROVE  SumOfBursts(list) \in Nat
<1>1. PICK f : /\ SumOfBursts(list) = f[Len(list)] /\ f[0] = 0
               /\ \A m \in 1..Len(list) : f[m] = f[m - 1] + list[m].burst
  BY SumFacts
<1> DEFINE Bad == {m \in 0..Len(list) : f[m] \notin Nat}
<1>2. Bad = {}
  <2> SUFFICES ASSUME Bad # {} PROVE FALSE
    OBVIOUS
  <2>1. Bad \in SUBSET Nat
    OBVIOUS
  <2>2. PICK m \in Bad : \A k \in Bad : m <= k
    BY <2>1, LeastOf
  <2>3. m \in 1..Len(list) /\ m - 1 \in 0..Len(list) /\ m - 1 \notin Bad
    BY <1>1, <2>2
  <2>4. f[m - 1] \in Nat /\ list[m].burst \in Nat /\ f[m] = f[m - 1] + list[m].burst
    BY <1>1, <2>3
  <2>5. QED
    BY <2>2, <2>4
<1>3. QED
  BY <1>1, <1>2

LEMMA SumOfZeros ==
  ASSUME NEW list, Len(list) \in Nat,
         \A n \in 1..Len(list) : list[n].burst = 0
  PROVE  SumOfBursts(list) = 0
<1>1. PICK f : /\ SumOfBursts(list) = f[Len(list)] /\ f[0] = 0
               /\ \A m \in 1..Len(list) : f[m] = f[m - 1] + list[m].burst
  BY SumFacts
<1> DEFINE Bad == {m \in 0..Len(list) : f[m] # 0}
<1>2. Bad = {}
  <2> SUFFICES ASSUME Bad # {} PROVE FALSE
    OBVIOUS
  <2>1. Bad \in SUBSET Nat
    OBVIOUS
  <2>2. PICK m \in Bad : \A k \in Bad : m <= k
    BY <2>1, LeastOf
  <2>3. m \in 1..Len(list) /\ m - 1 \in 0..Len(list) /\ m - 1 \notin Bad
    BY <1>1, <2>2
  <2>4. f[m - 1] = 0 /\ list[m].burst = 0 /\ f[m] = f[m - 1] + list[m].burst
    BY <1>1, <2>3
  <2>5. QED
    BY <2>2, <2>4
<1>3. QED
  BY <1>1, <1>2

(* If one burst is longer by d, so is the sum.                             *)
LEMMA SumRaised ==
  ASSUME NEW a, NEW b, NEW x, NEW d \in Int, Len(a) \in Nat, Len(b) = Len(a),
         x \in 1..Len(a),
         \A n \in 1..Len(a) : a[n].burst \in Int,
         \A n \in 1..Len(a) : n # x => b[n].burst = a[n].burst,
         b[x].burst = a[x].burst + d
  PROVE  SumOfBursts(b) = SumOfBursts(a) + d
<1> DEFINE N == Len(a)
<1>1. PICK f : /\ SumOfBursts(a) = f[N] /\ f[0] = 0
               /\ \A m \in 1..N : f[m] = f[m - 1] + a[m].burst
  BY SumFacts
<1>2. PICK g : /\ SumOfBursts(b) = g[N] /\ g[0] = 0
               /\ \A m \in 1..N : g[m] = g[m - 1] + b[m].burst
  <2>1. \E g : /\ SumOfBursts(b) = g[Len(b)] /\ g[0] = 0
              /\ \A m \in 1..Len(b) : g[m] = g[m - 1] + b[m].burst
    BY SumFacts
  <2>2. QED
    BY <2>1
<1>3. /\ N \in Nat /\ x \in 1..N
      /\ \A n \in 1..N : a[n].burst \in Int
      /\ \A n \in 1..N : b[n].burst = a[n].burst + (IF n = x THEN d ELSE 0)
  OBVIOUS
<1> HIDE DEF N
<1> DEFINE More(m) == IF m < x THEN 0 ELSE d
           Bad == {m \in 0..N : ~(f[m] \in Int /\ g[m] = f[m] + More(m))}
<1>4. Bad = {}
  <2> SUFFICES ASSUME Bad # {} PROVE FALSE
    OBVIOUS
  <2>1. Bad \in SUBSET Nat
    OBVIOUS
  <2>2. PICK m \in Bad : \A k \in Bad : m <= k
    BY <2>1, LeastOf
  <2>3. m \in 1..N /\ m - 1 \in 0..N /\ m - 1 \notin Bad
    BY <1>1, <1>2, <1>3, <2>2
  <2>4. /\ f[m - 1] \in Int /\ g[m - 1] = f[m - 1] + More(m - 1)
        /\ f[m] = f[m - 1] + a[m].burst /\ g[m] = g[m - 1] + b[m].burst
        /\ a[m].burst \in Int
        /\ b[m].burst = a[m].burst + (IF m = x THEN d ELSE 0)
    BY <1>1, <1>2, <1>3, <2>3
  <2>5. More(m) = More(m - 1) + (IF m = x THEN d ELSE 0)
    BY <1>3, <2>3
  <2>6. More(m - 1) \in Int /\ (IF m = x THEN d ELSE 0) \in Int
    OBVIOUS
  <2> HIDE DEF More
  <2>7. f[m] \in Int /\ g[m] = f[m] + More(m)
    BY <2>4, <2>5, <2>6
  <2>8. QED
    BY <2>2, <2>7
<1>5. N \in 0..N /\ N \notin Bad /\ More(N) = d
  BY <1>3, <1>4
<1>6. QED
  BY <1>1, <1>2, <1>5

-----------------------------------------------------------------------------
(* A list that is one longer: what was at n or behind it moves up.         *)
Inserted(s, n, e, t) ==
  /\ Len(t) = Len(s) + 1 /\ DOMAIN t = 1..Len(s) + 1
  /\ t[n] = e
  /\ \A m \in 1..n - 1 : t[m] = s[m]
  /\ \A m \in n + 1..Len(s) + 1 : t[m] = s[m - 1]

LEMMA InsertAtFacts ==
  ASSUME NEW T, NEW s \in Seq(T)
  PROVE  \A n \in 1..Len(s) + 1, e \in T :
           /\ InsertAt(s, n, e) \in Seq(T)
           /\ Len(InsertAt(s, n, e)) = Len(s) + 1
           /\ Inserted(s, n, e, InsertAt(s, n, e))
<1> TAKE n \in 1..Len(s) + 1, e \in T
<1> DEFINE head == SubSeq(s, 1, n - 1)
           tail == SubSeq(s, n, Len(s))
<1>1. Len(s) \in Nat /\ n \in Nat /\ n - 1 \in Nat
  BY LenProperties
<1>2. /\ head \in Seq(T) /\ Len(head) = n - 1
      /\ \A m \in 1..n - 1 : head[m] = s[m]
  BY <1>1
<1>3. /\ tail \in Seq(T) /\ Len(tail) = Len(s) + 1 - n
      /\ \A m \in 1..Len(s) + 1 - n : tail[m] = s[n + m - 1]
  BY <1>1
<1>4. InsertAt(s, n, e) = head \o <<e>> \o tail
  BY DEF InsertAt
<1> HIDE DEF head, tail
<1>5. /\ head \o <<e>> \in Seq(T) /\ Len(head \o <<e>>) = n
      /\ (head \o <<e>>)[n] = e
      /\ \A m \in 1..n - 1 : (head \o <<e>>)[m] = s[m]
  BY <1>1, <1>2
<1> DEFINE front == head \o <<e>>
<1> HIDE DEF front
<1>6. /\ front \in Seq(T) /\ Len(front) = n /\ front[n] = e
      /\ \A m \in 1..n - 1 : front[m] = s[m]
  BY <1>5 DEF front
<1>7. /\ front \o tail \in Seq(T) /\ Len(front \o tail) = Len(s) + 1
      /\ \A m \in 1..n : (front \o tail)[m] = front[m]
      /\ \A m \in n + 1..Len(s) + 1 : (front \o tail)[m] = tail[m - n]
  <2>1. front \in Seq(T) /\ tail \in Seq(T)
    BY <1>3, <1>6
  <2>2. /\ front \o tail \in Seq(T)
        /\ Len(front \o tail) = Len(front) + Len(tail)
        /\ \A m \in 1..Len(front) + Len(tail) :
             (front \o tail)[m] = IF m <= Len(front) THEN front[m]
                                  ELSE tail[m - Len(front)]
    BY <2>1, ConcatProperties
  <2>3. /\ Len(front) = n /\ Len(front) + Len(tail) = Len(s) + 1
        /\ n <= Len(s) + 1
    BY <1>1, <1>3, <1>6
  <2>4. \A m \in 1..n : m \in 1..Len(s) + 1 /\ m <= n
    BY <1>1, <2>3
  <2>5. \A m \in n + 1..Len(s) + 1 : m \in 1..Len(s) + 1 /\ ~ (m <= n)
    BY <1>1, <2>3
  <2>6. QED
    BY <2>2, <2>3, <2>4, <2>5, Zenon
<1>8. InsertAt(s, n, e) = front \o tail
  BY <1>4 DEF front
<1>9. \A m \in n + 1..Len(s) + 1 : tail[m - n] = s[m - 1]
  <2> TAKE m \in n + 1..Len(s) + 1
  <2>1. m - n \in 1..Len(s) + 1 - n /\ n + (m - n) - 1 = m - 1
    BY <1>1
  <2>2. QED
    BY <1>3, <2>1
<1>10. DOMAIN (front \o tail) = 1..Len(s) + 1
  BY <1>7, LenProperties
<1>11. \A m \in 1..n - 1 : (front \o tail)[m] = s[m]
  BY <1>1, <1>6, <1>7
<1>12. (front \o tail)[n] = e
  BY <1>1, <1>6, <1>7
<1>13. QED
  BY <1>7, <1>8, <1>9, <1>10, <1>11, <1>12 DEF Inserted

(* Places in a list, after the places from n on have moved up by one.      *)
Shifted(S, n) == {m \in S : m < n} \cup {m + 1 : m \in {k \in S : k >= n}}

LEMMA ShiftedFacts ==
  ASSUME NEW L \in Nat, NEW S \in SUBSET (1..L), NEW n \in 1..L + 1
  PROVE  /\ IsFiniteSet(S) /\ IsFiniteSet(Shifted(S, n))
         /\ Cardinality(S) \in Nat
         /\ Cardinality(Shifted(S, n)) = Cardinality(S)
         /\ Cardinality(Shifted(S, n) \cup {n}) = Cardinality(S) + 1
<1> DEFINE up == [m \in S |-> IF m < n THEN m ELSE m + 1]
<1>1. IsFiniteSet(S) /\ Cardinality(S) \in Nat
  <2>1. IsFiniteSet(1..L)
    BY FS_Interval
  <2>2. QED
    BY <2>1, FS_Subset, FS_CardinalityType
<1>2. up \in Bijection(S, Shifted(S, n))
  <2>1. up \in [S -> Shifted(S, n)]
    BY DEF Shifted
  <2>2. \A a, b \in S : up[a] = up[b] => a = b
    OBVIOUS
  <2>3. \A t \in Shifted(S, n) : \E m \in S : up[m] = t
    BY DEF Shifted
  <2>4. QED
    BY <2>1, <2>2, <2>3 DEF Bijection, Injection, IsInjective, Surjection
<1> HIDE DEF up
<1>3. /\ IsFiniteSet(Shifted(S, n))
      /\ Cardinality(Shifted(S, n)) = Cardinality(S)
  <2>1. ExistsBijection(S, Shifted(S, n))
    BY <1>2 DEF ExistsBijection
  <2>2. QED
    BY <1>1, <2>1, FS_Bijection
<1>4. n \notin Shifted(S, n)
  BY DEF Shifted
<1>5. QED
  BY <1>1, <1>3, <1>4, FS_AddElement

LEMMA ShiftedMembers ==
  ASSUME NEW S \in SUBSET Nat, NEW n \in Nat
  PROVE  /\ n \notin Shifted(S, n)
         /\ \A m \in Nat : m < n => (m \in Shifted(S, n) <=> m \in S)
         /\ \A m \in Nat : m > n => (m \in Shifted(S, n) <=> m - 1 \in S)
<1>1. n \notin Shifted(S, n)
  BY DEF Shifted
<1>2. ASSUME NEW m \in Nat, m < n
      PROVE  m \in Shifted(S, n) <=> m \in S
  <2>1. m \notin {k + 1 : k \in {x \in S : x >= n}}
    BY <1>2
  <2>2. QED
    BY <1>2, <2>1 DEF Shifted
<1>3. ASSUME NEW m \in Nat, m > n
      PROVE  m \in Shifted(S, n) <=> m - 1 \in S
  <2>1. m \in {k + 1 : k \in {x \in S : x >= n}} <=> m - 1 \in S
    <3>1. ASSUME m - 1 \in S PROVE m \in {k + 1 : k \in {x \in S : x >= n}}
      <4>1. m - 1 \in {x \in S : x >= n} /\ m = (m - 1) + 1
        BY <1>3, <3>1
      <4>2. QED
        BY <4>1
    <3>2. ASSUME m \in {k + 1 : k \in {x \in S : x >= n}} PROVE m - 1 \in S
      BY <3>2
    <3>3. QED
      BY <3>1, <3>2
  <2>2. QED
    BY <1>3, <2>1 DEF Shifted
<1>4. QED
  BY <1>1, <1>2, <1>3

LEMMA Numbers ==
  ASSUME NEW n \in Nat
  PROVE  IsFiniteSet(1..n) /\ Cardinality(1..n) = n
BY FS_Interval

Works == [pid : 1..MaxProcesses, arr : Arrivals, burst : Int,
          on_rq : BOOLEAN, tmp_src : BOOLEAN]

Jobs == [pid : 1..MaxProcesses, arr : Arrivals, burst : Int]

Rows == [pid : 1..MaxProcesses, waiting : Int, turnaround : Int]

Typed ==
  /\ policy \in Policies
  /\ src \in Seq(Works) /\ runq \in Seq(Jobs)
  /\ count = [processes |-> Len(src), added |-> Len(runq)]
  /\ span \in Int /\ i \in Nat /\ (i = 0 \/ i \in 1..span - 1)
  /\ at \in 1..Len(src) + 1
  /\ sums \in [j : Int, k : Int, m : Int]
  /\ pc \in {"tick", "play", "done", "astray"}
  /\ timeline \in Seq(1..MaxProcesses) /\ table \in Seq(Rows)
  /\ \A n \in DOMAIN printed : n \in DOMAIN table \/ printed[n] = Junk

LEMMA TypedInit == Init => Typed
<1> SUFFICES ASSUME Init PROVE Typed
  OBVIOUS
<1> USE CpuSchedAssumption
<1>1. PICK n \in 0..MaxProcesses :
        \E file \in [1..n -> [arr : Arrivals, burst : Bursts]] :
          /\ src = [p \in 1..n |-> [pid |-> p, arr |-> file[p].arr,
                                    burst |-> file[p].burst,
                                    on_rq |-> FALSE, tmp_src |-> FALSE]]
          /\ count = [processes |-> n, added |-> 0]
          /\ span = SumOfBursts(file)
  BY DEF Init
<1>2. PICK file \in [1..n -> [arr : Arrivals, burst : Bursts]] :
        /\ src = [p \in 1..n |-> [pid |-> p, arr |-> file[p].arr,
                                  burst |-> file[p].burst,
                                  on_rq |-> FALSE, tmp_src |-> FALSE]]
        /\ count = [processes |-> n, added |-> 0]
        /\ span = SumOfBursts(file)
  BY <1>1
<1>3. n \in Nat /\ 1..n \subseteq 1..MaxProcesses
  OBVIOUS
<1>4. \A p \in 1..n : file[p].arr \in Arrivals /\ file[p].burst \in Int
  <2>1. \A p \in 1..n : file[p].arr \in Arrivals /\ file[p].burst \in Bursts
    BY <1>2
  <2>2. Bursts \subseteq Int
    OBVIOUS
  <2>3. QED
    BY <2>1, <2>2
<1>5. src \in [1..n -> Works]
  BY <1>2, <1>3, <1>4 DEF Works
<1>6. src \in Seq(Works) /\ Len(src) = n
  BY <1>3, <1>5
<1>7. Len(file) = n
  BY <1>2, <1>3
<1>8. span \in Int
  BY <1>2, <1>3, <1>4, <1>7, SumIsInteger
<1>9. /\ policy \in Policies /\ i = 0 /\ at = 1
      /\ runq = << >> /\ timeline = << >> /\ table = << >> /\ printed = << >>
      /\ sums = [j |-> 0, k |-> 0, m |-> 0] /\ pc \in {"tick", "play"}
  BY DEF Init
<1>10. /\ runq \in Seq(Jobs) /\ Len(runq) = 0
       /\ timeline \in Seq(1..MaxProcesses) /\ table \in Seq(Rows)
  BY <1>9
<1>11. at \in 1..Len(src) + 1 /\ sums \in [j : Int, k : Int, m : Int]
  BY <1>3, <1>6, <1>9
<1>12. QED
  BY <1>2, <1>6, <1>8, <1>9, <1>10, <1>11 DEF Typed

(* The entry that is visited, and what goes on the run queue for it.       *)
LEMMA HereFacts ==
  ASSUME Typed, at \in DOMAIN src
  PROVE  /\ at \in 1..Len(src) /\ Len(src) \in Nat /\ Len(runq) \in Nat
         /\ DOMAIN src = 1..Len(src) /\ DOMAIN runq = 1..Len(runq)
         /\ Here \in Works /\ Slice(Here) \in Jobs
         /\ Here.burst \in Int /\ Here.arr \in Nat
         /\ Slice(Here).pid = Here.pid /\ Slice(Here).arr = Here.arr
         /\ Slice(Here).burst = Here.burst
<1>1. src \in Seq(Works) /\ runq \in Seq(Jobs)
  BY DEF Typed
<1>2. /\ at \in 1..Len(src) /\ Len(src) \in Nat /\ Len(runq) \in Nat
      /\ DOMAIN src = 1..Len(src) /\ DOMAIN runq = 1..Len(runq)
  BY <1>1, LenProperties
<1>3. Here \in Works
  BY <1>1, <1>2, ElementOfSeq DEF Here
<1>4. Here.arr \in Nat
  BY <1>3, CpuSchedAssumption DEF Works
<1>5. QED
  BY <1>2, <1>3, <1>4 DEF Works, Jobs, Slice

(* The entry visited is marked as being on the run queue.                  *)
Marked == [src EXCEPT ![at].on_rq = TRUE]

LEMMA MarkedFacts ==
  ASSUME Typed, at \in DOMAIN src
  PROVE  /\ Marked \in Seq(Works) /\ Len(Marked) = Len(src)
         /\ DOMAIN Marked = 1..Len(src)
         /\ \A n \in 1..Len(src) : n # at => Marked[n] = src[n]
         /\ Marked[at].on_rq = TRUE
         /\ \A n \in 1..Len(src) :
              /\ Marked[n].pid = src[n].pid /\ Marked[n].arr = src[n].arr
              /\ Marked[n].burst = src[n].burst
              /\ Marked[n].tmp_src = src[n].tmp_src
<1>1. /\ at \in 1..Len(src) /\ Len(src) \in Nat
      /\ DOMAIN src = 1..Len(src) /\ src[at] \in Works
  BY HereFacts DEF Here
<1>2. src \in [1..Len(src) -> Works]
  BY <1>1 DEF Typed
<1>3. Marked = [n \in 1..Len(src) |->
                  IF n = at THEN [src[at] EXCEPT !.on_rq = TRUE] ELSE src[n]]
  BY <1>1, <1>2 DEF Marked
<1>4. /\ [src[at] EXCEPT !.on_rq = TRUE] \in Works
      /\ [src[at] EXCEPT !.on_rq = TRUE].on_rq = TRUE
      /\ [src[at] EXCEPT !.on_rq = TRUE].pid = src[at].pid
      /\ [src[at] EXCEPT !.on_rq = TRUE].arr = src[at].arr
      /\ [src[at] EXCEPT !.on_rq = TRUE].burst = src[at].burst
      /\ [src[at] EXCEPT !.on_rq = TRUE].tmp_src = src[at].tmp_src
  BY <1>1 DEF Works
<1> DEFINE w == [src[at] EXCEPT !.on_rq = TRUE]
<1> HIDE DEF w
<1>5. Marked = [n \in 1..Len(src) |-> IF n = at THEN w ELSE src[n]]
  BY <1>3 DEF w
<1>6. /\ w \in Works /\ w.on_rq = TRUE /\ w.pid = src[at].pid
      /\ w.arr = src[at].arr /\ w.burst = src[at].burst /\ w.tmp_src = src[at].tmp_src
  BY <1>4 DEF w
<1>7. Marked \in [1..Len(src) -> Works]
  BY <1>2, <1>5, <1>6
<1>8. Marked \in Seq(Works) /\ Len(Marked) = Len(src)
  BY <1>1, <1>7
<1>9. QED
  BY <1>1, <1>5, <1>6, <1>7, <1>8

LEMMA AdmitFacts ==
  ASSUME Typed, at \in DOMAIN src, Admit(Here)
  PROVE  /\ runq' \in Seq(Jobs) /\ Len(runq') = Len(runq) + 1
         /\ DOMAIN runq' = 1..Len(runq) + 1
         /\ \A a \in 1..Len(runq) : runq'[a] = runq[a]
         /\ runq'[Len(runq) + 1] = Slice(Here)
         /\ count' = [processes |-> Len(src), added |-> Len(runq) + 1]
<1>1. runq \in Seq(Jobs) /\ Slice(Here) \in Jobs /\ Len(runq) \in Nat
  BY HereFacts DEF Typed
<1>2. runq' = Append(runq, Slice(Here))
  BY DEF Admit
<1>3. /\ Append(runq, Slice(Here)) \in Seq(Jobs)
      /\ Len(Append(runq, Slice(Here))) = Len(runq) + 1
      /\ \A a \in 1..Len(runq) : Append(runq, Slice(Here))[a] = runq[a]
      /\ Append(runq, Slice(Here))[Len(runq) + 1] = Slice(Here)
  BY <1>1, AppendProperties
<1>4. count' = [processes |-> Len(src), added |-> Len(runq) + 1]
  BY DEF Typed, Admit
<1>5. DOMAIN runq' = 1..Len(runq')
  BY <1>2, <1>3, LenProperties
<1>6. QED
  BY <1>2, <1>3, <1>4, <1>5

LEMMA ElapsedFacts ==
  ASSUME Typed, at \in DOMAIN src, NEW n \in 1..Len(runq) + 1
  PROVE  Elapsed(n) \in Int
<1>1. /\ runq \in Seq(Jobs) /\ Len(runq) \in Nat /\ Here.arr \in Nat
      /\ sums.m \in Int
  BY HereFacts DEF Typed
<1> DEFINE front == SubSeq(runq, 1, n - 1)
<1>2. /\ front \in Seq(Jobs) /\ Len(front) = n - 1
      /\ n - 1 \in Nat
  BY <1>1
<1> HIDE DEF front
<1>3. \A m \in 1..Len(front) : front[m].burst \in Int
  <2> TAKE m \in 1..Len(front)
  <2>1. front[m] \in Jobs
    BY <1>2, ElementOfSeq
  <2>2. QED
    BY <2>1 DEF Jobs
<1>4. SumOfBursts(front) \in Int
  BY <1>2, <1>3, SumIsInteger
<1>5. QED
  BY <1>1, <1>4 DEF Elapsed, front

(* The place of the queued process that is broken.                         *)
LEMMA LongerFacts ==
  ASSUME Typed, Longer # {}
  PROVE  Min(Longer) \in Longer /\ Min(Longer) \in 1..Len(runq)
<1>1. DOMAIN runq = 1..Len(runq)
  BY LenProperties DEF Typed
<1>2. Longer \in SUBSET Nat /\ Longer \subseteq 1..Len(runq)
  BY <1>1 DEF Longer
<1>3. \E m \in Longer : \A k \in Longer : m <= k
  BY <1>2, LeastOf
<1>4. QED
  BY <1>2, <1>3 DEF Min

(* The run queue when the process at n gets the burst b.                   *)
Cut(n, b) == [runq EXCEPT ![n].burst = b]

LEMMA CutFacts ==
  ASSUME Typed, NEW n \in 1..Len(runq), NEW b \in Int
  PROVE  /\ Cut(n, b) \in Seq(Jobs) /\ Len(Cut(n, b)) = Len(runq)
         /\ \A a \in 1..Len(runq) : /\ Cut(n, b)[a].pid = runq[a].pid
                                    /\ Cut(n, b)[a].arr = runq[a].arr
         /\ runq[n] \in Jobs
<1>1. /\ runq \in Seq(Jobs) /\ Len(runq) \in Nat /\ runq[n] \in Jobs
      /\ runq \in [1..Len(runq) -> Jobs]
  BY LenProperties, ElementOfSeq DEF Typed
<1>2. Cut(n, b) = [a \in 1..Len(runq) |->
                     IF a = n THEN [runq[n] EXCEPT !.burst = b] ELSE runq[a]]
  BY <1>1 DEF Cut
<1> DEFINE job == [runq[n] EXCEPT !.burst = b]
<1>3. job \in Jobs /\ job.pid = runq[n].pid /\ job.arr = runq[n].arr
  BY <1>1 DEF Jobs
<1> HIDE DEF job
<1>4. Cut(n, b) = [a \in 1..Len(runq) |-> IF a = n THEN job ELSE runq[a]]
  BY <1>2 DEF job
<1>5. Cut(n, b) \in [1..Len(runq) -> Jobs]
  BY <1>1, <1>3, <1>4
<1>6. Cut(n, b) \in Seq(Jobs) /\ Len(Cut(n, b)) = Len(runq)
  BY <1>1, <1>5
<1>7. QED
  BY <1>1, <1>3, <1>4, <1>6

LEMMA RemainderFacts ==
  ASSUME Typed, NEW n \in 1..Len(runq), NEW m \in Int
  PROVE  /\ Remainder(runq[n], m) \in Works
         /\ Remainder(runq[n], m).pid = runq[n].pid
         /\ Remainder(runq[n], m).on_rq = FALSE
         /\ Remainder(runq[n], m).burst = runq[n].burst - m
<1>1. runq[n] \in Jobs
  BY ElementOfSeq DEF Typed
<1>2. runq[n].burst - m \in Int
  BY <1>1 DEF Jobs
<1>3. QED
  BY <1>1, <1>2 DEF Remainder, Works, Jobs

(* A process that breaks another goes in behind it, and what is left of    *)
(* the other in front of the process in the source list (lines 126-158).   *)
LEMMA BreakFacts ==
  ASSUME Typed, StcfBreak
  PROVE  \E n \in 1..Len(runq) + 1, rest \in Works, queue \in Seq(Jobs) :
           /\ rest.on_rq = FALSE
           /\ \E a \in 1..Len(runq) : rest.pid = runq[a].pid
           /\ Len(queue) = Len(runq)
           /\ \A a \in 1..Len(runq) : queue[a].pid = runq[a].pid
           /\ runq' = InsertAt(queue, n, Slice(Here))
           /\ src' = InsertAt(Marked, at, rest)
<1>1. at \in DOMAIN src /\ Longer # {}
  BY DEF StcfBreak, Visiting
<1> DEFINE n == Min(Longer)
<1>2. n \in 1..Len(runq)
  BY <1>1, LongerFacts
<1>3. /\ runq' = InsertAt(Cut(n, Here.arr + 1), n + 1, Slice(Here))
      /\ src' = InsertAt(Marked, at, Remainder(runq[n], Elapsed(n)))
  BY DEF StcfBreak, Cut, Marked
<1> HIDE DEF n
<1>4. Len(runq) \in Nat /\ Here.arr + 1 \in Int
  BY <1>1, HereFacts
<1>5. Elapsed(n) \in Int
  BY <1>1, <1>2, <1>4, ElapsedFacts
<1>6. /\ Cut(n, Here.arr + 1) \in Seq(Jobs)
      /\ Len(Cut(n, Here.arr + 1)) = Len(runq)
      /\ \A a \in 1..Len(runq) : Cut(n, Here.arr + 1)[a].pid = runq[a].pid
  BY <1>2, <1>4, CutFacts
<1>7. /\ Remainder(runq[n], Elapsed(n)) \in Works
      /\ Remainder(runq[n], Elapsed(n)).pid = runq[n].pid
      /\ Remainder(runq[n], Elapsed(n)).on_rq = FALSE
  BY <1>2, <1>5, RemainderFacts
<1>8. n + 1 \in 1..Len(runq) + 1
  BY <1>2, <1>4
<1>9. QED
  BY <1>2, <1>3, <1>6, <1>7, <1>8, Zenon

LEMMA InsertLastFacts ==
  ASSUME Typed, StcfInsertLast
  PROVE  /\ \E n \in 1..Len(runq) + 1 : runq' = InsertAt(runq, n, Slice(Here))
         /\ \E m \in Int :
              sums' = [j |-> Passed, k |-> sums.k + Here.burst, m |-> m]
<1>1. at \in DOMAIN src /\ Longer # {}
  BY DEF StcfInsertLast, Visiting
<1> DEFINE n == Min(Longer)
<1>2. n \in 1..Len(runq) /\ Len(runq) \in Nat
  BY <1>1, LongerFacts, HereFacts
<1>3. /\ runq' = InsertAt(runq, n + 1, Slice(Here))
      /\ sums' = [j |-> Passed, k |-> sums.k + Here.burst, m |-> Elapsed(n)]
  BY DEF StcfInsertLast
<1> HIDE DEF n
<1>4. n + 1 \in 1..Len(runq) + 1 /\ n \in 1..Len(runq) + 1
  BY <1>2
<1>5. Elapsed(n) \in Int
  BY <1>1, <1>4, ElapsedFacts
<1>6. QED
  BY <1>3, <1>4, <1>5, Zenon

(* Passing an entry by.                                                    *)
LEMMA PassedFacts ==
  ASSUME Typed, at \in DOMAIN src
  PROVE  Passed \in Int /\ sums.k + Here.burst \in Int
<1>1. Here.burst \in Int /\ sums.j \in Int /\ sums.k \in Int
  BY HereFacts DEF Typed
<1>2. QED
  BY <1>1 DEF Passed

-----------------------------------------------------------------------------
LEMMA TypedTick ==
  ASSUME Typed, FcfsVisit \/ PassBy \/ SjfVisit
  PROVE  Typed'
<1>1. at \in DOMAIN src
  BY DEF FcfsVisit, PassBy, SjfVisit, Visiting
<1>2. /\ at \in 1..Len(src) /\ Len(src) \in Nat
      /\ src \in Seq(Works) /\ runq \in Seq(Jobs)
      /\ count = [processes |-> Len(src), added |-> Len(runq)]
      /\ sums \in [j : Int, k : Int, m : Int]
  BY <1>1, HereFacts DEF Typed
<1>3. /\ UNCHANGED <<policy, span, i, pc, timeline, table, printed>>
      /\ at' = at + 1
  BY DEF FcfsVisit, PassBy, SjfVisit
<1>4. CASE UNCHANGED <<src, runq, count>> /\ sums' \in [j : Int, k : Int, m : Int]
  <2>1. at' \in 1..Len(src') + 1
    BY <1>2, <1>3, <1>4
  <2>2. QED
    BY <1>3, <1>4, <2>1 DEF Typed
<1>5. CASE FcfsVisit
  <2>1. CASE Here.arr = i
    <3>1. Admit(Here) /\ UNCHANGED <<src, sums>>
      BY <1>5, <2>1 DEF FcfsVisit
    <3>2. /\ runq' \in Seq(Jobs)
          /\ count' = [processes |-> Len(src), added |-> Len(runq')]
      BY <1>1, <3>1, AdmitFacts
    <3>3. at' \in 1..Len(src') + 1 /\ src' = src /\ sums' = sums
      BY <1>2, <1>3, <3>1
    <3>4. QED
      BY <1>3, <3>2, <3>3 DEF Typed
  <2>2. CASE Here.arr # i
    BY <1>2, <1>4, <1>5, <2>2 DEF FcfsVisit
  <2>3. QED
    BY <2>1, <2>2
<1>6. CASE PassBy
  <2>1. /\ UNCHANGED <<src, runq, count>>
        /\ sums' = [sums EXCEPT !.j = IF Here.on_rq THEN @ ELSE Passed]
    BY <1>6 DEF PassBy
  <2>2. sums' \in [j : Int, k : Int, m : Int]
    BY <1>1, <1>2, <2>1, PassedFacts
  <2>3. QED
    BY <1>4, <2>1, <2>2
<1>7. CASE SjfVisit
  <2>1. /\ Admit(Here) /\ src' = Marked
        /\ sums' = [sums EXCEPT !.j = Passed, !.k = @ + Here.burst]
    BY <1>7 DEF SjfVisit, Marked
  <2>2. /\ runq' \in Seq(Jobs)
        /\ count' = [processes |-> Len(src), added |-> Len(runq')]
        /\ src' \in Seq(Works) /\ Len(src') = Len(src)
    BY <1>1, <2>1, AdmitFacts, MarkedFacts
  <2>3. sums' \in [j : Int, k : Int, m : Int]
    BY <1>1, <1>2, <2>1, PassedFacts
  <2>4. at' \in 1..Len(src') + 1
    BY <1>2, <1>3, <2>2
  <2>5. QED
    BY <1>3, <2>2, <2>3, <2>4 DEF Typed
<1>8. QED
  BY <1>5, <1>6, <1>7

LEMMA TypedStcf ==
  ASSUME Typed, StcfAppend \/ StcfInsertLast \/ StcfBreak
  PROVE  Typed'
<1>1. at \in DOMAIN src
  BY DEF StcfAppend, StcfInsertLast, StcfBreak, Visiting
<1>2. /\ at \in 1..Len(src) /\ Len(src) \in Nat /\ Len(runq) \in Nat
      /\ src \in Seq(Works) /\ runq \in Seq(Jobs) /\ Slice(Here) \in Jobs
      /\ count = [processes |-> Len(src), added |-> Len(runq)]
      /\ Passed \in Int /\ sums.k + Here.burst \in Int
  BY <1>1, HereFacts, PassedFacts DEF Typed
<1>3. UNCHANGED <<policy, span, i, timeline, table, printed>> /\ pc' \in {pc, "play"}
  BY DEF StcfAppend, StcfInsertLast, StcfBreak
<1>4. CASE StcfAppend
  <2>1. /\ Admit(Here) /\ src' = Marked /\ at' = at + 1
        /\ sums' = [j |-> Passed, k |-> sums.k + Here.burst,
                    m |-> Elapsed(Len(runq) + 1)]
    BY <1>4 DEF StcfAppend, Marked
  <2>2. /\ runq' \in Seq(Jobs)
        /\ count' = [processes |-> Len(src), added |-> Len(runq')]
        /\ src' \in Seq(Works) /\ Len(src') = Len(src)
    BY <1>1, <2>1, AdmitFacts, MarkedFacts
  <2>3. Elapsed(Len(runq) + 1) \in Int
    BY <1>1, <1>2, ElapsedFacts
  <2>4. sums' \in [j : Int, k : Int, m : Int] /\ at' \in 1..Len(src') + 1
    BY <1>2, <2>1, <2>2, <2>3
  <2>5. QED
    BY <1>3, <2>2, <2>4 DEF Typed
<1>5. CASE StcfInsertLast
  <2>1. /\ src' = Marked /\ at' = at
        /\ count' = [count EXCEPT !.added = @ + 1]
    BY <1>5 DEF StcfInsertLast, Marked
  <2>2. PICK n \in 1..Len(runq) + 1 : runq' = InsertAt(runq, n, Slice(Here))
    BY <1>5, InsertLastFacts
  <2>3. PICK m \in Int :
          sums' = [j |-> Passed, k |-> sums.k + Here.burst, m |-> m]
    BY <1>5, InsertLastFacts
  <2>4. runq' \in Seq(Jobs) /\ Len(runq') = Len(runq) + 1
    BY <1>2, <2>2, InsertAtFacts
  <2>5. src' \in Seq(Works) /\ Len(src') = Len(src)
    BY <1>1, <2>1, MarkedFacts
  <2>6. /\ count' = [processes |-> Len(src'), added |-> Len(runq')]
        /\ sums' \in [j : Int, k : Int, m : Int] /\ at' \in 1..Len(src') + 1
    BY <1>2, <2>1, <2>3, <2>4, <2>5
  <2>7. QED
    BY <1>3, <2>4, <2>5, <2>6 DEF Typed
<1>6. CASE StcfBreak
  <2>1. /\ at' = at + 2
        /\ count' = [processes |-> Len(src) + 1, added |-> Len(runq) + 1]
        /\ sums' = [j |-> Passed, k |-> sums.k + Here.burst, m |-> 0]
    BY <1>2, <1>6 DEF StcfBreak
  <2>2. PICK n \in 1..Len(runq) + 1, rest \in Works, queue \in Seq(Jobs) :
          /\ Len(queue) = Len(runq)
          /\ runq' = InsertAt(queue, n, Slice(Here))
          /\ src' = InsertAt(Marked, at, rest)
    BY <1>6, BreakFacts
  <2>3. runq' \in Seq(Jobs) /\ Len(runq') = Len(runq) + 1
    <3>1. n \in 1..Len(queue) + 1
      BY <2>2
    <3>2. /\ InsertAt(queue, n, Slice(Here)) \in Seq(Jobs)
          /\ Len(InsertAt(queue, n, Slice(Here))) = Len(queue) + 1
      BY <1>2, <3>1, InsertAtFacts
    <3>3. QED
      BY <2>2, <3>2
  <2>4. Marked \in Seq(Works) /\ Len(Marked) = Len(src) /\ at \in 1..Len(Marked) + 1
    BY <1>1, <1>2, MarkedFacts
  <2>5. src' \in Seq(Works) /\ Len(src') = Len(src) + 1
    <3>1. /\ InsertAt(Marked, at, rest) \in Seq(Works)
          /\ Len(InsertAt(Marked, at, rest)) = Len(Marked) + 1
      BY <2>2, <2>4, InsertAtFacts
    <3>2. QED
      BY <2>2, <2>4, <3>1
  <2>6. /\ count' = [processes |-> Len(src'), added |-> Len(runq')]
        /\ sums' \in [j : Int, k : Int, m : Int] /\ at' \in 1..Len(src') + 1
    BY <1>2, <2>1, <2>3, <2>5
  <2>7. QED
    BY <1>3, <2>3, <2>5, <2>6 DEF Typed
<1>7. QED
  BY <1>4, <1>5, <1>6

LEMMA TypedNextTick ==
  ASSUME Typed, NextTick
  PROVE  Typed'
<1>1. /\ span \in Int /\ i \in Nat /\ (i = 0 \/ i \in 1..span - 1)
      /\ at \in 1..Len(src) + 1 /\ sums \in [j : Int, k : Int, m : Int]
      /\ Len(src) \in Nat
  BY LenProperties DEF Typed
<1>2. UNCHANGED <<policy, src, runq, count, span, timeline, table, printed>>
  BY DEF NextTick
<1>3. CASE i + 1 < span /\ ~AllQueued
  <2>1. i' = i + 1 /\ at' = 1 /\ sums' = [sums EXCEPT !.j = 0] /\ pc' = pc
    BY <1>3 DEF NextTick
  <2>2. /\ i' \in Nat /\ i' \in 1..span' - 1 /\ at' \in 1..Len(src') + 1
        /\ sums' \in [j : Int, k : Int, m : Int]
    BY <1>1, <1>2, <1>3, <2>1
  <2>3. QED
    BY <1>2, <2>1, <2>2 DEF Typed
<1>4. CASE ~(i + 1 < span /\ ~AllQueued)
  <2>1. pc' = "play" /\ UNCHANGED <<i, at, sums>>
    BY <1>4 DEF NextTick
  <2>2. QED
    BY <1>2, <2>1 DEF Typed
<1>5. QED
  BY <1>3, <1>4

(* The line of a process in the timeline.                                  *)
Line(e) == [n \in 1..e.burst |-> e.pid]

LEMMA LineFacts ==
  ASSUME NEW e \in Jobs
  PROVE  /\ Line(e) \in Seq(1..MaxProcesses)
         /\ Len(Line(e)) = IF e.burst > 0 THEN e.burst ELSE 0
         /\ \A n \in 1..Len(Line(e)) : Line(e)[n] = e.pid
<1>1. e.burst \in Int /\ e.pid \in 1..MaxProcesses
  BY DEF Jobs
<1> DEFINE l == IF e.burst > 0 THEN e.burst ELSE 0
<1>2. l \in Nat /\ 1..e.burst = 1..l
  BY <1>1
<1>3. Line(e) = [n \in 1..l |-> e.pid]
  BY <1>2 DEF Line
<1> HIDE DEF l
<1>4. Line(e) \in [1..l -> 1..MaxProcesses]
  BY <1>1, <1>3
<1>5. Line(e) \in Seq(1..MaxProcesses) /\ Len(Line(e)) = l
  BY <1>2, <1>3, <1>4
<1>6. QED
  BY <1>3, <1>5 DEF l

LEMMA PlayFacts ==
  ASSUME Typed, Play
  PROVE  LET e == runq[Len(table) + 1]
         IN  /\ e \in Jobs /\ Len(table) + 1 \in 1..Len(runq)
             /\ Line(e) \in Seq(1..MaxProcesses)
             /\ timeline' = timeline \o Line(e)
             /\ timeline' \in Seq(1..MaxProcesses)
             /\ Len(timeline') = Len(timeline) + Len(Line(e))
             /\ table' = Append(table, Row(e, timeline'))
             /\ Row(e, timeline') \in Rows
<1> DEFINE e == runq[Len(table) + 1]
<1>1. /\ runq \in Seq(Jobs) /\ table \in Seq(Rows)
      /\ timeline \in Seq(1..MaxProcesses)
      /\ Len(table) \in Nat /\ Len(runq) \in Nat /\ Len(timeline) \in Nat
      /\ Len(table) < Len(runq)
  BY LenProperties DEF Typed, Play
<1>2. Len(table) + 1 \in 1..Len(runq)
  BY <1>1
<1>3. e \in Jobs
  BY <1>1, <1>2, ElementOfSeq
<1>4. timeline' = timeline \o Line(e) /\ table' = Append(table, Row(e, timeline'))
  BY DEF Play, Line
<1> HIDE DEF e
<1>5. Line(e) \in Seq(1..MaxProcesses)
  BY <1>3, LineFacts
<1>6. /\ timeline' \in Seq(1..MaxProcesses)
      /\ Len(timeline') = Len(timeline) + Len(Line(e))
      /\ Len(timeline') \in Nat
  BY <1>1, <1>4, <1>5, ConcatProperties, LenProperties
<1>7. e.pid \in 1..MaxProcesses /\ e.arr \in Nat /\ e.burst \in Int
  BY <1>3, CpuSchedAssumption DEF Jobs
<1>8. Row(e, timeline') \in Rows
  BY <1>6, <1>7 DEF Rows, Row
<1>9. QED
  BY <1>2, <1>3, <1>4, <1>5, <1>6, <1>8 DEF e

LEMMA TypedPlay ==
  ASSUME Typed, Play \/ Overrun \/ Done
  PROVE  Typed'
<1>1. UNCHANGED <<policy, src, runq, count, span, i, at, sums>>
  BY DEF Play, Overrun, Done
<1>2. CASE Play
  <2>1. pc' = pc /\ printed' = printed
    BY <1>2 DEF Play
  <2>2. timeline' \in Seq(1..MaxProcesses)
    BY <1>2, PlayFacts
  <2>3. table' \in Seq(Rows) /\ DOMAIN table \subseteq DOMAIN table'
    <3>1. PICK row \in Rows : table' = Append(table, row)
      BY <1>2, PlayFacts
    <3>2. table \in Seq(Rows)
      BY DEF Typed
    <3>3. /\ table' \in Seq(Rows) /\ Len(table') = Len(table) + 1
          /\ Len(table) \in Nat
      BY <3>1, <3>2, AppendProperties, LenProperties
    <3>4. DOMAIN table = 1..Len(table) /\ DOMAIN table' = 1..Len(table')
      BY <3>2, <3>3, LenProperties
    <3>5. QED
      BY <3>3, <3>4
  <2>4. QED
    BY <1>1, <2>1, <2>2, <2>3 DEF Typed
<1>3. CASE Overrun
  BY <1>1, <1>3 DEF Overrun, Typed
<1>4. CASE Done
  <2>1. \A n \in DOMAIN printed' : n \in DOMAIN table' \/ printed'[n] = Junk
    BY <1>4 DEF Done
  <2>2. QED
    BY <1>1, <1>4, <2>1 DEF Done, Typed
<1>5. QED
  BY <1>2, <1>3, <1>4

LEMMA TypedStep ==
  ASSUME Typed, [Next]_vars
  PROVE  Typed'
<1>1. CASE UNCHANGED vars
  BY <1>1 DEF vars, Typed
<1>2. QED
  BY <1>1, TypedTick, TypedStcf, TypedNextTick, TypedPlay DEF Next

LEMMA AlwaysTyped == Spec => []Typed
<1>1. Typed /\ [Next]_vars => Typed'
  BY TypedStep
<1>2. QED
  BY <1>1, TypedInit, PTL DEF Spec

-----------------------------------------------------------------------------
(***************************************************************************)
(* The entries of the run queue that belong to some processes, and those   *)
(* of the source list that are marked as being there.                      *)
(***************************************************************************)
QueuedFor(P) == {n \in DOMAIN runq : runq[n].pid \in P}

MarkedFor(list, P) == {n \in 1..Len(list) : list[n].pid \in P /\ list[n].on_rq}

Counted ==
  policy # "FCFS" =>
    \A P \in SUBSET (1..MaxProcesses) :
      Cardinality(QueuedFor(P)) = Cardinality(MarkedFor(src, P))

LEMMA CountedFinite ==
  ASSUME Typed, NEW P
  PROVE  /\ QueuedFor(P) \in SUBSET (1..Len(runq))
         /\ MarkedFor(src, P) \in SUBSET (1..Len(src))
         /\ IsFiniteSet(QueuedFor(P)) /\ IsFiniteSet(MarkedFor(src, P))
         /\ Cardinality(QueuedFor(P)) \in Nat
         /\ Cardinality(MarkedFor(src, P)) \in Nat
<1>1. Len(runq) \in Nat /\ Len(src) \in Nat /\ DOMAIN runq = 1..Len(runq)
  BY LenProperties DEF Typed
<1>2. /\ QueuedFor(P) \in SUBSET (1..Len(runq))
      /\ MarkedFor(src, P) \in SUBSET (1..Len(src))
  BY <1>1 DEF QueuedFor, MarkedFor
<1>3. IsFiniteSet(1..Len(runq)) /\ IsFiniteSet(1..Len(src))
  BY <1>1, FS_Interval
<1>4. IsFiniteSet(QueuedFor(P)) /\ IsFiniteSet(MarkedFor(src, P))
  BY <1>2, <1>3, FS_Subset
<1>5. QED
  BY <1>2, <1>4, FS_CardinalityType

LEMMA CountedInit ==
  ASSUME Init, Typed
  PROVE  Counted
<1> SUFFICES ASSUME NEW P \in SUBSET (1..MaxProcesses)
             PROVE  Cardinality(QueuedFor(P)) = Cardinality(MarkedFor(src, P))
  BY DEF Counted
<1>1. runq = << >>
  BY DEF Init
<1>2. QueuedFor(P) = {}
  BY <1>1 DEF QueuedFor
<1>3. PICK n \in 0..MaxProcesses :
        \E file \in [1..n -> [arr : Arrivals, burst : Bursts]] :
          src = [p \in 1..n |-> [pid |-> p, arr |-> file[p].arr,
                                 burst |-> file[p].burst,
                                 on_rq |-> FALSE, tmp_src |-> FALSE]]
  BY DEF Init
<1>4. n \in Nat /\ DOMAIN src = 1..n /\ \A p \in 1..n : src[p].on_rq = FALSE
  BY <1>3, CpuSchedAssumption
<1>5. 1..Len(src) = 1..n
  BY <1>4, LenProperties DEF Typed
<1>6. MarkedFor(src, P) = {}
  BY <1>4, <1>5 DEF MarkedFor
<1>7. QED
  BY <1>2, <1>6

(* The process visited is put in at the place n of the run queue, which    *)
(* may give another entry another burst.                                   *)
QueuedAt(n) ==
  /\ DOMAIN runq' = 1..Len(runq) + 1
  /\ runq'[n].pid = Here.pid
  /\ \A m \in 1..n - 1 : runq'[m].pid = runq[m].pid
  /\ \A m \in n + 1..Len(runq) + 1 : runq'[m].pid = runq[m - 1].pid

LEMMA QueueGrows ==
  ASSUME Typed, at \in DOMAIN src, NEW n \in 1..Len(runq) + 1, QueuedAt(n),
         NEW P
  PROVE  Cardinality(QueuedFor(P)') =
           Cardinality(QueuedFor(P)) + (IF Here.pid \in P THEN 1 ELSE 0)
<1>1. /\ Len(runq) \in Nat /\ DOMAIN runq = 1..Len(runq)
      /\ QueuedFor(P) \in SUBSET (1..Len(runq)) /\ Cardinality(QueuedFor(P)) \in Nat
  BY HereFacts, CountedFinite
<1>2. /\ DOMAIN runq' = 1..Len(runq) + 1
      /\ runq'[n].pid = Here.pid
      /\ \A m \in 1..n - 1 : runq'[m].pid = runq[m].pid
      /\ \A m \in n + 1..Len(runq) + 1 : runq'[m].pid = runq[m - 1].pid
  BY DEF QueuedAt
<1>3. QueuedFor(P)' = {m \in 1..Len(runq) + 1 : runq'[m].pid \in P}
  BY <1>2 DEF QueuedFor
<1>4. ASSUME NEW m \in 1..Len(runq) + 1, m # n
      PROVE  m \in Shifted(QueuedFor(P), n) <=> runq'[m].pid \in P
  <2>1. CASE m < n
    <3>1. m \in 1..n - 1 /\ m \in 1..Len(runq)
      BY <1>1, <2>1
    <3>2. m \in Shifted(QueuedFor(P), n) <=> m \in QueuedFor(P)
      BY <1>1, <2>1, ShiftedMembers
    <3>3. QED
      BY <1>1, <1>2, <3>1, <3>2 DEF QueuedFor
  <2>2. CASE m > n
    <3>1. m \in n + 1..Len(runq) + 1 /\ m - 1 \in 1..Len(runq) /\ m - 1 >= n
      BY <1>1, <2>2
    <3>2. m \in Shifted(QueuedFor(P), n) <=> m - 1 \in QueuedFor(P)
      BY <1>1, <2>2, <3>1, ShiftedMembers
    <3>3. QED
      BY <1>1, <1>2, <3>1, <3>2 DEF QueuedFor
  <2>3. QED
    BY <1>4, <2>1, <2>2
<1>5. n \notin Shifted(QueuedFor(P), n)
  BY <1>1 DEF Shifted
<1>6. Shifted(QueuedFor(P), n) \in SUBSET (1..Len(runq) + 1)
  BY <1>1 DEF Shifted
<1>7. QueuedFor(P)' = IF Here.pid \in P THEN Shifted(QueuedFor(P), n) \cup {n}
                      ELSE Shifted(QueuedFor(P), n)
  <2>1. ASSUME NEW m
        PROVE  m \in QueuedFor(P)' <=>
                 \/ m \in Shifted(QueuedFor(P), n)
                 \/ m = n /\ Here.pid \in P
    <3>1. m \notin 1..Len(runq) + 1 =>
            m \notin QueuedFor(P)' /\ m \notin Shifted(QueuedFor(P), n) /\ m # n
      BY <1>3, <1>6
    <3>2. m = n => (m \in QueuedFor(P)' <=> Here.pid \in P)
      BY <1>2, <1>3
    <3>3. m \in 1..Len(runq) + 1 /\ m # n =>
            (m \in QueuedFor(P)' <=> m \in Shifted(QueuedFor(P), n))
      BY <1>3, <1>4
    <3>4. QED
      BY <1>5, <3>1, <3>2, <3>3, Zenon
  <2>2. QED
    BY <2>1
<1>8. /\ Cardinality(Shifted(QueuedFor(P), n)) = Cardinality(QueuedFor(P))
      /\ Cardinality(Shifted(QueuedFor(P), n) \cup {n}) =
           Cardinality(QueuedFor(P)) + 1
  <2> DEFINE S == QueuedFor(P)
             L == Len(runq)
  <2>1. L \in Nat /\ S \in SUBSET (1..L) /\ n \in 1..L + 1
    BY <1>1
  <2> HIDE DEF S, L
  <2>2. /\ Cardinality(Shifted(S, n)) = Cardinality(S)
        /\ Cardinality(Shifted(S, n) \cup {n}) = Cardinality(S) + 1
    BY <2>1, ShiftedFacts
  <2>3. QED
    BY <2>2 DEF S
<1>9. QED
  BY <1>1, <1>7, <1>8

(* The marks when the entry visited is marked.                             *)
LEMMA MarkCounts ==
  ASSUME Typed, at \in DOMAIN src, ~Here.on_rq, NEW P
  PROVE  /\ MarkedFor(Marked, P) \in SUBSET (1..Len(src))
         /\ Cardinality(MarkedFor(Marked, P)) =
              Cardinality(MarkedFor(src, P)) + (IF Here.pid \in P THEN 1 ELSE 0)
<1>1. /\ at \in 1..Len(src) /\ Len(src) \in Nat /\ Len(Marked) = Len(src)
      /\ \A n \in 1..Len(src) : n # at => Marked[n] = src[n]
      /\ Marked[at].on_rq = TRUE /\ Marked[at].pid = src[at].pid
  BY HereFacts, MarkedFacts
<1>2. /\ IsFiniteSet(MarkedFor(src, P)) /\ Cardinality(MarkedFor(src, P)) \in Nat
      /\ at \notin MarkedFor(src, P)
  BY CountedFinite DEF MarkedFor, Here
<1>3. MarkedFor(Marked, P) = IF Here.pid \in P THEN MarkedFor(src, P) \cup {at}
                             ELSE MarkedFor(src, P)
  BY <1>1 DEF MarkedFor, Here
<1>4. Cardinality(MarkedFor(src, P) \cup {at}) = Cardinality(MarkedFor(src, P)) + 1
  BY <1>2, FS_AddElement
<1>5. MarkedFor(Marked, P) \in SUBSET (1..Len(src))
  BY <1>1 DEF MarkedFor
<1>6. QED
  BY <1>2, <1>3, <1>4, <1>5

LEMMA AdmitQueues ==
  ASSUME Typed, at \in DOMAIN src, Admit(Here)
  PROVE  Len(runq) + 1 \in 1..Len(runq) + 1 /\ QueuedAt(Len(runq) + 1)
<1>1. Len(runq) \in Nat /\ Slice(Here).pid = Here.pid
  BY HereFacts
<1>2. /\ DOMAIN runq' = 1..Len(runq) + 1
      /\ \A a \in 1..Len(runq) : runq'[a] = runq[a]
      /\ runq'[Len(runq) + 1] = Slice(Here)
  BY AdmitFacts
<1>3. QED
  BY <1>1, <1>2 DEF QueuedAt

LEMMA InsertQueues ==
  ASSUME Typed, at \in DOMAIN src,
         NEW queue \in Seq(Jobs), Len(queue) = Len(runq),
         \A a \in 1..Len(runq) : queue[a].pid = runq[a].pid,
         NEW n \in 1..Len(runq) + 1, runq' = InsertAt(queue, n, Slice(Here))
  PROVE  QueuedAt(n)
<1>1. /\ Len(runq) \in Nat /\ Slice(Here) \in Jobs /\ Slice(Here).pid = Here.pid
      /\ n \in 1..Len(queue) + 1
  BY HereFacts
<1>2. /\ DOMAIN InsertAt(queue, n, Slice(Here)) = 1..Len(queue) + 1
      /\ InsertAt(queue, n, Slice(Here))[n] = Slice(Here)
      /\ \A m \in 1..n - 1 : InsertAt(queue, n, Slice(Here))[m] = queue[m]
      /\ \A m \in n + 1..Len(queue) + 1 :
           InsertAt(queue, n, Slice(Here))[m] = queue[m - 1]
  <2>1. Inserted(queue, n, Slice(Here), InsertAt(queue, n, Slice(Here)))
    BY <1>1, InsertAtFacts
  <2>2. QED
    BY <2>1, Zenon DEF Inserted
<1>3. /\ DOMAIN runq' = 1..Len(runq) + 1 /\ runq'[n] = Slice(Here)
      /\ \A m \in 1..n - 1 : runq'[m] = queue[m]
      /\ \A m \in n + 1..Len(runq) + 1 : runq'[m] = queue[m - 1]
  BY <1>2, Zenon
<1>4. /\ \A m \in 1..n - 1 : m \in 1..Len(runq)
      /\ \A m \in n + 1..Len(runq) + 1 : m - 1 \in 1..Len(runq)
  BY <1>1
<1>5. QED
  BY <1>1, <1>3, <1>4 DEF QueuedAt

LEMMA StcfInserts ==
  ASSUME Typed, StcfInsertLast \/ StcfBreak
  PROVE  \E n \in 1..Len(runq) + 1 : QueuedAt(n)
<1>1. at \in DOMAIN src /\ runq \in Seq(Jobs)
  BY DEF StcfInsertLast, StcfBreak, Visiting, Typed
<1>2. CASE StcfInsertLast
  <2>1. PICK n \in 1..Len(runq) + 1 : runq' = InsertAt(runq, n, Slice(Here))
    BY <1>2, InsertLastFacts
  <2>2. QueuedAt(n)
    BY <1>1, <2>1, InsertQueues
  <2>3. QED
    BY <2>2
<1>3. CASE StcfBreak
  <2>1. PICK n \in 1..Len(runq) + 1, rest \in Works, queue \in Seq(Jobs) :
          /\ Len(queue) = Len(runq)
          /\ \A a \in 1..Len(runq) : queue[a].pid = runq[a].pid
          /\ runq' = InsertAt(queue, n, Slice(Here))
    BY <1>3, BreakFacts
  <2>2. QueuedAt(n)
    BY <1>1, <2>1, InsertQueues
  <2>3. QED
    BY <2>2
<1>4. QED
  BY <1>2, <1>3

(* The source list with a remainder in front of the entry visited has the  *)
(* same marks, one place up from there on.                                 *)
LEMMA BreakMarks ==
  ASSUME Typed, at \in DOMAIN src, NEW rest \in Works, rest.on_rq = FALSE, NEW P
  PROVE  MarkedFor(InsertAt(Marked, at, rest), P) = Shifted(MarkedFor(Marked, P), at)
<1> DEFINE list == InsertAt(Marked, at, rest)
           S    == MarkedFor(Marked, P)
<1>1. /\ at \in 1..Len(src) /\ Len(src) \in Nat /\ at \in Nat
      /\ Marked \in Seq(Works) /\ Len(Marked) = Len(src)
      /\ at \in 1..Len(Marked) + 1
  BY HereFacts, MarkedFacts
<1>2. /\ Len(list) = Len(src) + 1 /\ list[at] = rest
      /\ \A m \in 1..at - 1 : list[m] = Marked[m]
      /\ \A m \in at + 1..Len(src) + 1 : list[m] = Marked[m - 1]
  <2>1. /\ Len(list) = Len(Marked) + 1 /\ list[at] = rest
        /\ \A m \in 1..at - 1 : list[m] = Marked[m]
        /\ \A m \in at + 1..Len(Marked) + 1 : list[m] = Marked[m - 1]
    <3>1. Inserted(Marked, at, rest, list)
      BY <1>1, InsertAtFacts
    <3>2. QED
      BY <3>1, Zenon DEF Inserted
  <2>2. QED
    BY <1>1, <2>1
<1>3. S = {m \in 1..Len(src) : Marked[m].pid \in P /\ Marked[m].on_rq}
  BY <1>1 DEF MarkedFor
<1> HIDE DEF list
<1>4. MarkedFor(list, P) = {m \in 1..Len(src) + 1 : list[m].pid \in P /\ list[m].on_rq}
  BY <1>2 DEF MarkedFor
<1> HIDE DEF S
<1>5. S \in SUBSET Nat /\ S \in SUBSET (1..Len(src))
  BY <1>3
<1>6. /\ at \notin Shifted(S, at)
      /\ \A m \in Nat : m < at => (m \in Shifted(S, at) <=> m \in S)
      /\ \A m \in Nat : m > at => (m \in Shifted(S, at) <=> m - 1 \in S)
  BY <1>1, <1>5, ShiftedMembers
<1>7. ASSUME NEW m \in Nat
      PROVE  m \in Shifted(S, at) <=> m \in MarkedFor(list, P)
  <2>1. CASE m = at
    BY <1>2, <1>4, <1>6, <2>1
  <2>2. CASE m < at
    <3>1. m \in 1..Len(src) <=> m \in 1..at - 1
      BY <1>1, <2>2
    <3>2. m \in 1..Len(src) + 1 <=> m \in 1..at - 1
      BY <1>1, <2>2
    <3>3. m \in Shifted(S, at) <=> m \in S
      BY <1>6, <2>2
    <3>4. QED
      BY <1>2, <1>3, <1>4, <3>1, <3>2, <3>3, Zenon
  <2>3. CASE m > at
    <3>1. m - 1 \in 1..Len(src) <=> m \in at + 1..Len(src) + 1
      BY <1>1, <2>3
    <3>2. m \in 1..Len(src) + 1 <=> m \in at + 1..Len(src) + 1
      BY <1>1, <2>3
    <3>3. m \in Shifted(S, at) <=> m - 1 \in S
      BY <1>6, <2>3
    <3>4. QED
      BY <1>2, <1>3, <1>4, <3>1, <3>2, <3>3, Zenon
  <2>4. QED
    BY <1>1, <2>1, <2>2, <2>3
<1>8. Shifted(S, at) \in SUBSET Nat /\ MarkedFor(list, P) \in SUBSET Nat
  <2>1. \A m \in S : m \in Nat /\ m + 1 \in Nat
    BY <1>5
  <2>2. Shifted(S, at) \in SUBSET Nat
    BY <2>1 DEF Shifted
  <2>3. QED
    BY <1>1, <1>4, <2>2
<1>9. Shifted(S, at) = MarkedFor(list, P)
  BY <1>7, <1>8
<1>10. QED
  BY <1>9 DEF list, S

LEMMA CountedStep ==
  ASSUME Typed, Counted, [Next]_vars
  PROVE  Counted'
<1> SUFFICES ASSUME policy' # "FCFS", NEW P \in SUBSET (1..MaxProcesses)
             PROVE  Cardinality(QueuedFor(P)') = Cardinality(MarkedFor(src', P))
  BY DEF Counted, MarkedFor
<1>1. policy' = policy
  BY DEF Next, vars, FcfsVisit, PassBy, SjfVisit, StcfAppend, StcfInsertLast,
         StcfBreak, NextTick, Play, Overrun, Done
<1>2. /\ Cardinality(QueuedFor(P)) = Cardinality(MarkedFor(src, P))
      /\ ~FcfsVisit
  BY <1>1 DEF Counted, FcfsVisit, Visiting
<1>3. CASE UNCHANGED <<runq, src>>
  BY <1>2, <1>3 DEF QueuedFor
<1>4. CASE SjfVisit \/ StcfAppend
  <2>1. at \in DOMAIN src /\ ~Here.on_rq /\ Admit(Here) /\ src' = Marked
    BY <1>4 DEF SjfVisit, StcfAppend, Visiting, Marked
  <2>2. Len(runq) + 1 \in 1..Len(runq) + 1 /\ QueuedAt(Len(runq) + 1)
    BY <2>1, AdmitQueues
  <2>3. Cardinality(QueuedFor(P)') =
          Cardinality(QueuedFor(P)) + (IF Here.pid \in P THEN 1 ELSE 0)
    BY <2>1, <2>2, QueueGrows
  <2>4. Cardinality(MarkedFor(Marked, P)) =
          Cardinality(MarkedFor(src, P)) + (IF Here.pid \in P THEN 1 ELSE 0)
    BY <2>1, MarkCounts
  <2>5. QED
    BY <1>2, <2>1, <2>3, <2>4
<1>5. CASE StcfInsertLast \/ StcfBreak
  <2>1. at \in DOMAIN src /\ ~Here.on_rq
    BY <1>5 DEF StcfInsertLast, StcfBreak, Visiting
  <2>2. PICK n \in 1..Len(runq) + 1 : QueuedAt(n)
    BY <1>5, StcfInserts
  <2>3. Cardinality(QueuedFor(P)') =
          Cardinality(QueuedFor(P)) + (IF Here.pid \in P THEN 1 ELSE 0)
    BY <2>1, <2>2, QueueGrows
  <2>4. /\ MarkedFor(Marked, P) \in SUBSET (1..Len(src))
        /\ Cardinality(MarkedFor(Marked, P)) =
             Cardinality(MarkedFor(src, P)) + (IF Here.pid \in P THEN 1 ELSE 0)
    BY <2>1, MarkCounts
  <2>5. Cardinality(MarkedFor(src', P)) = Cardinality(MarkedFor(Marked, P))
    <3>1. CASE StcfInsertLast
      BY <3>1 DEF StcfInsertLast, Marked
    <3>2. CASE StcfBreak
      <4>1. PICK rest \in Works : rest.on_rq = FALSE /\ src' = InsertAt(Marked, at, rest)
        BY <3>2, BreakFacts
      <4>2. MarkedFor(src', P) = Shifted(MarkedFor(Marked, P), at)
        BY <2>1, <4>1, BreakMarks
      <4>3. Len(src) \in Nat /\ at \in 1..Len(src) + 1
        BY <2>1, HereFacts
      <4>4. Cardinality(Shifted(MarkedFor(Marked, P), at)) =
              Cardinality(MarkedFor(Marked, P))
        BY <2>4, <4>3, ShiftedFacts, Zenon
      <4>5. QED
        BY <4>2, <4>4
    <3>3. QED
      BY <1>5, <3>1, <3>2
  <2>6. QED
    BY <1>2, <2>3, <2>4, <2>5
<1>6. QED
  BY <1>2, <1>3, <1>4, <1>5 DEF Next, vars, PassBy, NextTick, Play, Overrun, Done

-----------------------------------------------------------------------------
(***************************************************************************)
(* FCFS and SJF only take from the source list: its entries keep their     *)
(* places and bursts, and each is on the run queue once at most.           *)
(***************************************************************************)
Mates ==
  policy # "STCF" =>
    /\ \A n \in 1..Len(src) : src[n].pid = n /\ src[n].burst >= 1
    /\ \A a \in 1..Len(runq) :
         /\ runq[a].pid \in 1..Len(src)
         /\ runq[a].arr = src[runq[a].pid].arr
         /\ runq[a].burst = src[runq[a].pid].burst
         /\ policy = "SJF" => src[runq[a].pid].on_rq = TRUE
    /\ \A a, b \in 1..Len(runq) : runq[a].pid = runq[b].pid => a = b

LEMMA MatesInit ==
  ASSUME Init
  PROVE  Mates
<1>1. PICK n \in 0..MaxProcesses :
        \E file \in [1..n -> [arr : Arrivals, burst : Bursts]] :
          src = [p \in 1..n |-> [pid |-> p, arr |-> file[p].arr,
                                 burst |-> file[p].burst,
                                 on_rq |-> FALSE, tmp_src |-> FALSE]]
  BY DEF Init
<1>2. PICK file \in [1..n -> [arr : Arrivals, burst : Bursts]] :
        src = [p \in 1..n |-> [pid |-> p, arr |-> file[p].arr,
                               burst |-> file[p].burst,
                               on_rq |-> FALSE, tmp_src |-> FALSE]]
  BY <1>1
<1>3. n \in Nat /\ \A p \in 1..n : file[p].burst \in Bursts
  BY <1>2, CpuSchedAssumption
<1>4. Len(src) = n
  BY <1>2, <1>3
<1>5. \A p \in 1..n : src[p].pid = p /\ src[p].burst >= 1
  <2>1. \A b \in Bursts : b >= 1
    BY CpuSchedAssumption
  <2>2. QED
    BY <1>2, <1>3, <2>1
<1>6. Len(runq) = 0
  BY DEF Init
<1>7. QED
  BY <1>4, <1>5, <1>6 DEF Mates

(* A step that queues the entry visited, which is not queued yet.          *)
LEMMA MatesAdmit ==
  ASSUME Typed, Mates, policy # "STCF", policy' = policy,
         at \in DOMAIN src, Admit(Here),
         src' = src \/ src' = Marked,
         policy = "SJF" => src' = Marked,
         \A a \in 1..Len(runq) : runq[a].pid # at
  PROVE  Mates'
<1>1. /\ at \in 1..Len(src) /\ Len(src) \in Nat /\ Len(runq) \in Nat
      /\ Slice(Here).pid = Here.pid /\ Slice(Here).arr = Here.arr
      /\ Slice(Here).burst = Here.burst
  BY HereFacts
<1>2. /\ Len(runq') = Len(runq) + 1
      /\ \A a \in 1..Len(runq) : runq'[a] = runq[a]
      /\ runq'[Len(runq) + 1] = Slice(Here)
  BY AdmitFacts
<1>3. /\ Len(src') = Len(src)
      /\ \A n \in 1..Len(src) : /\ src'[n].pid = src[n].pid
                                /\ src'[n].arr = src[n].arr
                                /\ src'[n].burst = src[n].burst
                                /\ src[n].on_rq = TRUE => src'[n].on_rq = TRUE
      /\ policy = "SJF" => src'[at].on_rq = TRUE
  BY MarkedFacts
<1>4. /\ \A n \in 1..Len(src) : src[n].pid = n /\ src[n].burst >= 1
      /\ \A a \in 1..Len(runq) :
           /\ runq[a].pid \in 1..Len(src)
           /\ runq[a].arr = src[runq[a].pid].arr
           /\ runq[a].burst = src[runq[a].pid].burst
           /\ policy = "SJF" => src[runq[a].pid].on_rq = TRUE
      /\ \A a, b \in 1..Len(runq) : runq[a].pid = runq[b].pid => a = b
  BY DEF Mates
<1>5. Here.pid = at /\ Here.arr = src[at].arr /\ Here.burst = src[at].burst
  BY <1>1, <1>4 DEF Here
<1>6. \A a \in 1..Len(runq') : a \in 1..Len(runq) \/ a = Len(runq) + 1
  BY <1>1, <1>2
<1>7. ASSUME NEW a \in 1..Len(runq')
      PROVE  /\ runq'[a].pid \in 1..Len(src')
             /\ runq'[a].arr = src'[runq'[a].pid].arr
             /\ runq'[a].burst = src'[runq'[a].pid].burst
             /\ policy = "SJF" => src'[runq'[a].pid].on_rq = TRUE
  <2>1. CASE a \in 1..Len(runq)
    <3>1. runq'[a] = runq[a] /\ runq[a].pid \in 1..Len(src)
      BY <1>2, <1>4, <2>1
    <3>2. QED
      BY <1>3, <1>4, <2>1, <3>1
  <2>2. CASE a = Len(runq) + 1
    <3>1. runq'[a].pid = at /\ runq'[a].arr = src[at].arr /\ runq'[a].burst = src[at].burst
      BY <1>1, <1>2, <1>5, <2>2
    <3>2. QED
      BY <1>1, <1>3, <3>1
  <2>3. QED
    BY <1>6, <2>1, <2>2
<1>8. ASSUME NEW a \in 1..Len(runq'), NEW b \in 1..Len(runq'),
             runq'[a].pid = runq'[b].pid
      PROVE  a = b
  <2>1. \A c \in 1..Len(runq) : runq'[c].pid = runq[c].pid /\ runq'[c].pid # at
    BY <1>2
  <2>2. runq'[Len(runq) + 1].pid = at
    BY <1>1, <1>2, <1>5
  <2>3. QED
    BY <1>4, <1>6, <1>8, <2>1, <2>2, Zenon
<1>9. \A n \in 1..Len(src') : src'[n].pid = n /\ src'[n].burst >= 1
  BY <1>3, <1>4
<1>10. QED
  BY <1>7, <1>8, <1>9 DEF Mates

LEMMA MatesStep ==
  ASSUME Typed, IInv, Mates, [Next]_vars
  PROVE  Mates'
<1>1. policy' = policy
  BY DEF Next, vars, FcfsVisit, PassBy, SjfVisit, StcfAppend, StcfInsertLast,
         StcfBreak, NextTick, Play, Overrun, Done
<1>2. CASE UNCHANGED <<runq, src>>
  BY <1>1, <1>2 DEF Mates
<1>3. CASE policy = "STCF"
  BY <1>1, <1>3 DEF Mates
<1>4. CASE FcfsVisit /\ Here.arr = i
  <2>1. /\ at \in DOMAIN src /\ Admit(Here) /\ src' = src /\ policy = "FCFS"
        /\ pc = "tick"
    BY <1>4 DEF FcfsVisit, Visiting
  <2>2. QueuedSoFar /\ at \in Nat /\ at \in 1..Len(src) /\ i \in Nat
    BY <2>1, HereFacts DEF IInv
  <2>3. ASSUME NEW a \in 1..Len(runq), runq[a].pid = at
        PROVE  FALSE
    <3>1. runq[a].arr = src[at].arr
      BY <2>1, <2>3 DEF Mates
    <3>2. QED
      BY <1>4, <2>2, <2>3, <3>1 DEF QueuedSoFar, Here
  <2>4. policy # "STCF" /\ (policy = "SJF" => src' = Marked)
    BY <2>1
  <2>5. QED
    BY <1>1, <2>1, <2>3, <2>4, MatesAdmit
<1>5. CASE SjfVisit
  <2>1. /\ at \in DOMAIN src /\ Admit(Here) /\ src' = Marked /\ policy = "SJF"
        /\ ~Here.on_rq
    BY <1>5 DEF SjfVisit, Visiting, Marked
  <2>2. ASSUME NEW a \in 1..Len(runq), runq[a].pid = at
        PROVE  FALSE
    BY <2>1, <2>2 DEF Mates, Here
  <2>3. policy # "STCF"
    BY <2>1
  <2>4. QED
    BY <1>1, <2>1, <2>2, <2>3, MatesAdmit
<1>6. QED
  BY <1>2, <1>3, <1>4, <1>5
     DEF Next, vars, FcfsVisit, PassBy, StcfAppend, StcfInsertLast, StcfBreak,
         Visiting, NextTick, Play, Overrun, Done

-----------------------------------------------------------------------------
(* Under FCFS and SJF no process is on the run queue twice.                *)
LEMMA OnceAtMost ==
  ASSUME Typed, Mates, policy # "STCF", NEW p
  PROVE  Cardinality(Queued(p)) <= 1
<1>1. Len(runq) \in Nat /\ DOMAIN runq = 1..Len(runq)
  BY LenProperties DEF Typed
<1>2. \A a, b \in Queued(p) : a = b
  BY <1>1 DEF Mates, Queued
<1>3. CASE Queued(p) = {}
  BY <1>3, FS_EmptySet
<1>4. CASE Queued(p) # {}
  <2>1. PICK a : Queued(p) = {a}
    BY <1>2, <1>4
  <2>2. QED
    <3>1. Cardinality({a}) = 1
      BY FS_Singleton, Zenon
    <3>2. QED
      BY <2>1, <3>1
<1>5. QED
  BY <1>3, <1>4

LEMMA CountsFollow ==
  ASSUME Typed, Counted, Mates
  PROVE  CountsOK
<1>1. TypeOK
  <2>1. \A n \in DOMAIN src : src[n] \in Works
    BY ElementOfSeq, LenProperties DEF Typed
  <2>2. \A n \in DOMAIN runq : runq[n] \in Jobs
    BY ElementOfSeq, LenProperties DEF Typed
  <2>3. \A n \in DOMAIN table : table[n] \in Rows
    BY ElementOfSeq, LenProperties DEF Typed
  <2>4. QED
    BY <2>1, <2>2, <2>3 DEF Typed, TypeOK, Works, Jobs, Rows
<1>2. CountsAgree
  <2>1. count.added = Len(runq) /\ count.processes = Len(src)
    BY DEF Typed
  <2>2. ASSUME NEW p \in 1..MaxProcesses, policy # "FCFS"
        PROVE  Cardinality(Queued(p)) =
                 Cardinality({n \in DOMAIN src : src[n].pid = p /\ src[n].on_rq})
    <3>1. DOMAIN src = 1..Len(src)
      BY LenProperties DEF Typed
    <3>2. /\ Queued(p) = QueuedFor({p})
          /\ {n \in DOMAIN src : src[n].pid = p /\ src[n].on_rq} = MarkedFor(src, {p})
      BY <3>1 DEF Queued, QueuedFor, MarkedFor
    <3>3. QED
      BY <2>2, <3>2 DEF Counted
  <2>3. ASSUME NEW p \in 1..MaxProcesses, policy = "FCFS"
        PROVE  Cardinality(Queued(p)) <= 1
    BY <2>3, OnceAtMost
  <2>4. QED
    BY <2>1, <2>2, <2>3 DEF CountsAgree
<1>3. QED
  BY <1>1, <1>2 DEF CountsOK

(* The invariants of this module together.                                 *)
Books == Typed /\ IInv /\ Counted /\ Mates

LEMMA BooksKept == Spec => []Books
<1>1. Init => Books
  BY TypedInit, InitHolds, CountedInit, MatesInit DEF Books
<1>2. Books /\ [Next]_vars => Books'
  BY TypedStep, StepKeeps, CountedStep, MatesStep DEF Books
<1>3. QED
  BY <1>1, <1>2, PTL DEF Spec

(* For every file and policy the counters are the lengths of the lists,    *)
(* and a process is on the run queue as often as it is marked so in the    *)
(* source list, although stcf_tick inserts into that list and raises       *)
(* processes while it walks the one and compares with the other (lines     *)
(* 110-161).                                                               *)
THEOREM CountersAgree == Spec => []CountsOK
<1>1. Books => CountsOK
  BY CountsFollow DEF Books
<1>2. QED
  BY <1>1, BooksKept, PTL

-----------------------------------------------------------------------------
(***************************************************************************)
(* Who has had a turn: what has arrived by this tick is queued (FCFS), and *)
(* nothing that arrives after the last tick; an entry passed by in this    *)
(* tick is not shorter than the tick, or was not there in the work queued  *)
(* ahead of it (SJF) or from the beginning (STCF); and the loop has ended  *)
(* because all are queued or because the ticks were used up.               *)
(***************************************************************************)
Absent(p) == \A a \in DOMAIN runq : runq[a].pid # p

Arrived ==
  policy = "FCFS" =>
    \A n \in 1..Len(src) :
      src[n].arr < i \/ (src[n].arr = i /\ n < at) => ~Absent(n)

NoneBelow == \A m \in 1..Len(src) : src[m].burst >= 0

Waiting ==
  policy # "FCFS" /\ NoneBelow =>
    /\ sums.k >= 0
    /\ \A n \in 1..Len(src) :
         src[n].arr = 0 /\ Absent(src[n].pid) =>
           src[n].burst >= (IF n < at THEN i ELSE i - 1)

SjfTurns ==
  policy = "SJF" =>
    /\ sums.j >= 0
    /\ \A a \in 1..Len(runq) : runq[a].burst <= i
    /\ NearlyShortestFirst

Ended ==
  pc # "tick" => \/ Len(runq) = Len(src)
                 \/ at = Len(src) + 1 /\ i + 1 >= span
                 \/ span = 0

InTime ==
  /\ pc = "tick" => span > 0
  /\ policy = "FCFS" => \A a \in 1..Len(runq) : runq[a].arr < span

NotYetThere ==
  policy = "SJF" =>
    /\ \A n \in 1..Len(src) + 1 : WorkAhead(n) <= sums.k
    /\ \A n \in 1..Len(src) :
         n < at /\ ~src[n].on_rq =>
           src[n].burst >= i \/ src[n].arr > WorkAhead(n)

Turns == Arrived /\ Waiting /\ SjfTurns /\ Ended /\ InTime /\ NotYetThere

LEMMA EntryFacts ==
  ASSUME Typed
  PROVE  /\ \A n \in 1..Len(src) : /\ src[n].arr \in Nat /\ src[n].burst \in Int
                                   /\ src[n].pid \in 1..MaxProcesses
         /\ \A a \in 1..Len(runq) : /\ runq[a].arr \in Nat /\ runq[a].burst \in Int
                                    /\ runq[a].pid \in 1..MaxProcesses
<1>1. src \in Seq(Works) /\ runq \in Seq(Jobs)
  BY DEF Typed
<1>2. ASSUME NEW n \in 1..Len(src)
      PROVE  /\ src[n].arr \in Nat /\ src[n].burst \in Int
             /\ src[n].pid \in 1..MaxProcesses
  <2>1. src[n] \in Works
    BY <1>1, ElementOfSeq
  <2>2. QED
    BY <2>1, CpuSchedAssumption DEF Works
<1>3. ASSUME NEW a \in 1..Len(runq)
      PROVE  /\ runq[a].arr \in Nat /\ runq[a].burst \in Int
             /\ runq[a].pid \in 1..MaxProcesses
  <2>1. runq[a] \in Jobs
    BY <1>1, ElementOfSeq
  <2>2. QED
    BY <2>1, CpuSchedAssumption DEF Jobs
<1>4. QED
  BY <1>2, <1>3

LEMMA InTimeInit ==
  ASSUME Init
  PROVE  InTime
<1>1. span \in Nat /\ Len(runq) = 0
  <2>1. PICK n \in 0..MaxProcesses :
          \E file \in [1..n -> [arr : Arrivals, burst : Bursts]] :
            span = SumOfBursts(file)
    BY DEF Init
  <2>2. PICK file \in [1..n -> [arr : Arrivals, burst : Bursts]] :
          span = SumOfBursts(file)
    BY <2>1
  <2>3. n \in Nat /\ Len(file) = n
    BY CpuSchedAssumption, <2>2
  <2>4. \A m \in 1..n : file[m].burst \in Nat
    BY CpuSchedAssumption, <2>2
  <2>5. QED
    BY <2>2, <2>3, <2>4, SumIsNatural DEF Init
<1>2. pc = "tick" => span # 0
  BY DEF Init
<1>3. QED
  BY <1>1, <1>2 DEF InTime

LEMMA InTimeStep ==
  ASSUME Typed, InTime, [Next]_vars
  PROVE  InTime'
<1>1. /\ Len(runq) \in Nat /\ i \in Nat /\ span \in Int
      /\ i = 0 \/ i \in 1..span - 1
  BY LenProperties DEF Typed
<1>2. CASE UNCHANGED <<policy, runq, span>> /\ (pc' = "tick" => pc = "tick")
  BY <1>2 DEF InTime
<1>3. CASE policy' # "FCFS" /\ span' = span /\ (pc' = "tick" => pc = "tick")
  BY <1>3 DEF InTime
<1>4. CASE FcfsVisit
  <2>1. /\ at \in DOMAIN src /\ policy' = policy /\ span' = span /\ pc = "tick"
        /\ IF Here.arr = i THEN Admit(Here) ELSE UNCHANGED <<runq, count>>
    BY <1>4 DEF FcfsVisit, Visiting
  <2>2. CASE Here.arr = i
    <3>1. /\ Len(runq') = Len(runq) + 1
          /\ \A a \in 1..Len(runq) : runq'[a] = runq[a]
          /\ runq'[Len(runq) + 1] = Slice(Here) /\ Slice(Here).arr = Here.arr
      BY <2>1, <2>2, AdmitFacts, HereFacts
    <3>2. i < span
      BY <1>1, <2>1 DEF InTime
    <3>3. ASSUME policy = "FCFS", NEW a \in 1..Len(runq) + 1
          PROVE  runq'[a].arr < span
      <4>1. CASE a = Len(runq) + 1
        BY <2>2, <3>1, <3>2, <4>1
      <4>2. CASE a # Len(runq) + 1
        <5>1. a \in 1..Len(runq)
          BY <1>1, <4>2
        <5>2. QED
          BY <3>1, <3>3, <5>1 DEF InTime
      <4>3. QED
        BY <4>1, <4>2
    <3>4. QED
      BY <2>1, <3>1, <3>3 DEF InTime
  <2>3. CASE Here.arr # i
    BY <2>1, <2>3 DEF InTime
  <2>4. QED
    BY <2>2, <2>3
<1>5. QED
  BY <1>2, <1>3, <1>4
     DEF Next, vars, PassBy, SjfVisit, StcfAppend, StcfInsertLast, StcfBreak,
         Visiting, NextTick, Play, Overrun, Done

(* the list that WorkAhead adds up                                         *)
AheadOf(list, n) ==
  [m \in 1..n - 1 |-> [burst |-> IF list[m].on_rq THEN list[m].burst ELSE 0]]

LEMMA AheadFacts ==
  ASSUME Typed, NEW n \in 1..Len(src) + 1
  PROVE  /\ WorkAhead(n) = SumOfBursts(AheadOf(src, n)) /\ WorkAhead(n) \in Int
         /\ Len(AheadOf(src, n)) = n - 1 /\ n - 1 \in Nat
         /\ \A m \in 1..n - 1 : /\ AheadOf(src, n)[m].burst \in Int
                               /\ AheadOf(src, n)[m].burst =
                                    IF src[m].on_rq THEN src[m].burst ELSE 0
<1>1. Len(src) \in Nat /\ n - 1 \in Nat /\ \A m \in 1..n - 1 : m \in 1..Len(src)
  BY LenProperties DEF Typed
<1>2. Len(AheadOf(src, n)) = n - 1
  BY <1>1 DEF AheadOf
<1>3. \A m \in 1..n - 1 : AheadOf(src, n)[m].burst =
                           IF src[m].on_rq THEN src[m].burst ELSE 0
  BY DEF AheadOf
<1>4. \A m \in 1..n - 1 : AheadOf(src, n)[m].burst \in Int
  BY <1>1, <1>3, EntryFacts
<1>5. WorkAhead(n) = SumOfBursts(AheadOf(src, n))
  BY DEF WorkAhead, AheadOf
<1>6. SumOfBursts(AheadOf(src, n)) \in Int
  BY <1>1, <1>2, <1>4, SumIsInteger
<1>7. QED
  BY <1>1, <1>2, <1>3, <1>4, <1>5, <1>6

LEMMA NotYetThereInit ==
  ASSUME Init, Typed
  PROVE  NotYetThere
<1>1. at = 1 /\ sums.k = 0 /\ \A m \in DOMAIN src : src[m].on_rq = FALSE
  BY DEF Init
<1>2. Len(src) \in Nat /\ DOMAIN src = 1..Len(src)
  BY LenProperties DEF Typed
<1>3. ASSUME NEW n \in 1..Len(src) + 1
      PROVE  WorkAhead(n) <= sums.k
  <2>1. /\ WorkAhead(n) = SumOfBursts(AheadOf(src, n))
        /\ Len(AheadOf(src, n)) = n - 1 /\ n - 1 \in Nat
        /\ \A m \in 1..n - 1 : AheadOf(src, n)[m].burst =
                                IF src[m].on_rq THEN src[m].burst ELSE 0
    BY AheadFacts
  <2>2. \A m \in 1..n - 1 : AheadOf(src, n)[m].burst = 0
    <3>1. \A m \in 1..n - 1 : m \in 1..Len(src)
      BY <1>2
    <3>2. QED
      BY <1>1, <1>2, <2>1, <3>1
  <2>3. SumOfBursts(AheadOf(src, n)) = 0
    BY <2>1, <2>2, SumOfZeros
  <2>4. QED
    BY <1>1, <2>1, <2>3
<1>4. \A n \in 1..Len(src) : ~(n < at)
  BY <1>1
<1>5. QED
  BY <1>3, <1>4 DEF NotYetThere

(* Queueing an entry adds its burst to the work ahead of those behind it.  *)
LEMMA WorkQueued ==
  ASSUME Typed, Typed', at \in DOMAIN src, ~Here.on_rq, src' = Marked,
         NEW n \in 1..Len(src) + 1
  PROVE  WorkAhead(n)' = WorkAhead(n) + (IF n <= at THEN 0 ELSE Here.burst)
<1>1. /\ at \in 1..Len(src) /\ Len(src) \in Nat /\ Here.burst \in Int
      /\ Here.on_rq = src[at].on_rq /\ Here.burst = src[at].burst
  BY HereFacts DEF Here
<1>2. /\ Len(Marked) = Len(src) /\ Marked[at].on_rq = TRUE
      /\ \A m \in 1..Len(src) : m # at => Marked[m] = src[m]
      /\ \A m \in 1..Len(src) : Marked[m].burst = src[m].burst
  BY MarkedFacts
<1> DEFINE a == AheadOf(src, n)
           b == AheadOf(Marked, n)
<1>3. /\ WorkAhead(n) = SumOfBursts(a) /\ WorkAhead(n) \in Int
      /\ Len(a) = n - 1 /\ n - 1 \in Nat
      /\ \A m \in 1..n - 1 : a[m].burst \in Int
  BY AheadFacts
<1>4. WorkAhead(n)' = SumOfBursts(b)
  BY DEF WorkAhead, AheadOf
<1>5. CASE n <= at
  <2>1. \A m \in 1..n - 1 : m \in 1..Len(src) /\ m # at
    BY <1>1, <1>5
  <2>2. \A m \in 1..n - 1 : Marked[m] = src[m]
    BY <1>2, <2>1
  <2>3. b = a
    BY <2>2 DEF AheadOf
  <2>4. QED
    BY <1>3, <1>4, <1>5, <2>3
<1>6. CASE ~(n <= at)
  <2>1. at \in 1..n - 1 /\ \A m \in 1..n - 1 : m \in 1..Len(src)
    BY <1>1, <1>6
  <2>2. \A m \in 1..n - 1 :
          /\ a[m].burst = IF src[m].on_rq THEN src[m].burst ELSE 0
          /\ b[m].burst = IF Marked[m].on_rq THEN Marked[m].burst ELSE 0
    BY DEF AheadOf
  <2>3. \A m \in 1..n - 1 : m # at => b[m].burst = a[m].burst
    BY <1>2, <2>1, <2>2
  <2>4. a[at].burst = 0 /\ b[at].burst = Here.burst
    BY <1>1, <1>2, <2>1, <2>2
  <2>5. Len(b) = n - 1
    BY <1>3 DEF AheadOf
  <2>6. b[at].burst = a[at].burst + Here.burst
    BY <1>1, <2>4
  <2> HIDE DEF a, b
  <2> DEFINE d == Here.burst
  <2>7. /\ d \in Int /\ Len(a) \in Nat /\ Len(b) = Len(a) /\ at \in 1..Len(a)
        /\ \A m \in 1..Len(a) : a[m].burst \in Int
        /\ \A m \in 1..Len(a) : m # at => b[m].burst = a[m].burst
        /\ b[at].burst = a[at].burst + d
    BY <1>1, <1>3, <2>1, <2>3, <2>5, <2>6
  <2> HIDE DEF d
  <2>8. SumOfBursts(b) = SumOfBursts(a) + d
    BY <2>7, SumRaised
  <2>9. QED
    BY <1>3, <1>4, <1>6, <2>8 DEF d
<1>7. QED
  BY <1>5, <1>6

LEMMA NotYetThereStep ==
  ASSUME Typed, Mates, NotYetThere, [Next]_vars
  PROVE  NotYetThere'
<1> SUFFICES ASSUME policy' = "SJF"
             PROVE  NotYetThere'
  BY DEF NotYetThere
<1>1. policy = "SJF" /\ Typed'
  BY TypedStep DEF Next, vars, FcfsVisit, PassBy, SjfVisit, StcfAppend, StcfInsertLast,
         StcfBreak, NextTick, Play, Overrun, Done
<1>2. /\ \A n \in 1..Len(src) + 1 : WorkAhead(n) <= sums.k
      /\ \A n \in 1..Len(src) :
           n < at /\ ~src[n].on_rq =>
             src[n].burst >= i \/ src[n].arr > WorkAhead(n)
  BY <1>1 DEF NotYetThere
<1>3. /\ at \in 1..Len(src) + 1 /\ Len(src) \in Nat /\ i \in Nat
      /\ sums \in [j : Int, k : Int, m : Int] /\ sums.k \in Int
      /\ \A n \in 1..Len(src) : /\ src[n].arr \in Nat /\ src[n].burst \in Int
                               /\ src[n].burst >= 1
      /\ \A n \in 1..Len(src) + 1 : WorkAhead(n) \in Int
  BY <1>1, EntryFacts, AheadFacts, LenProperties DEF Typed, Mates
<1>4. CASE /\ src' = src /\ sums'.k = sums.k
           /\ \A n \in 1..Len(src) : n < at' => n < at /\ i' = i
  <2>1. \A n : WorkAhead(n)' = WorkAhead(n)
    BY <1>4 DEF WorkAhead
  <2>2. QED
    BY <1>2, <1>4, <2>1 DEF NotYetThere
<1>5. CASE PassBy
  <2>1. /\ at \in DOMAIN src /\ src' = src /\ i' = i /\ at' = at + 1
        /\ Here.on_rq \/ ~Ready
        /\ sums' = [sums EXCEPT !.j = IF Here.on_rq THEN @ ELSE Passed]
    BY <1>5 DEF PassBy, Visiting
  <2>2. at \in 1..Len(src) /\ Here = src[at] /\ sums'.k = sums.k
    BY <1>3, <2>1, HereFacts DEF Here
  <2>3. \A n : WorkAhead(n)' = WorkAhead(n)
    BY <2>1 DEF WorkAhead
  <2>4. ~src[at].on_rq => src[at].burst >= i \/ src[at].arr > WorkAhead(at)
    <3>1. ~src[at].on_rq => ~(src[at].burst < i /\ src[at].arr <= sums.k)
      BY <2>1, <2>2 DEF Ready
    <3>2. WorkAhead(at) <= sums.k /\ WorkAhead(at) \in Int
      BY <1>2, <1>3
    <3> HIDE DEF WorkAhead
    <3>3. QED
      BY <1>3, <2>2, <3>1, <3>2
  <2>5. \A n \in 1..Len(src) : n < at + 1 => n < at \/ n = at
    BY <1>3
  <2>6. QED
    BY <1>2, <2>1, <2>2, <2>3, <2>4, <2>5 DEF NotYetThere
<1>6. CASE SjfVisit
  <2>1. /\ at \in DOMAIN src /\ src' = Marked /\ i' = i /\ at' = at + 1
        /\ ~Here.on_rq
        /\ sums' = [sums EXCEPT !.j = Passed, !.k = @ + Here.burst]
    BY <1>6 DEF SjfVisit, Visiting, Marked
  <2>2. /\ at \in 1..Len(src) /\ Here = src[at]
        /\ sums'.k = sums.k + Here.burst /\ Here.burst \in Int /\ Here.burst >= 1
    BY <1>3, <2>1, HereFacts DEF Here
  <2>3. /\ Len(Marked) = Len(src) /\ Marked[at].on_rq = TRUE
        /\ \A m \in 1..Len(src) : m # at => Marked[m] = src[m]
    BY <2>1, MarkedFacts
  <2>4. \A n \in 1..Len(src) + 1 :
          WorkAhead(n)' = WorkAhead(n) + (IF n <= at THEN 0 ELSE Here.burst)
    BY <1>1, <2>1, WorkQueued
  <2> HIDE DEF WorkAhead
  <2>5. ASSUME NEW n \in 1..Len(src) + 1
        PROVE  WorkAhead(n)' <= sums'.k
    <3>1. WorkAhead(n) <= sums.k /\ WorkAhead(n) \in Int
      BY <1>2, <1>3
    <3>2. QED
      BY <1>3, <2>2, <2>4, <3>1
  <2>6. ASSUME NEW n \in 1..Len(src), n < at + 1, ~Marked[n].on_rq
        PROVE  Marked[n].burst >= i \/ Marked[n].arr > WorkAhead(n)'
    <3>1. n # at /\ n < at /\ n <= at /\ n \in 1..Len(src) + 1 /\ Marked[n] = src[n]
      BY <1>3, <2>2, <2>3, <2>6
    <3>2. WorkAhead(n)' = WorkAhead(n)
      BY <1>3, <2>4, <3>1
    <3>3. QED
      BY <1>2, <2>6, <3>1, <3>2
  <2>7. QED
    BY <2>1, <2>3, <2>5, <2>6 DEF NotYetThere
<1>7. CASE NextTick
  <2>1. src' = src
    BY <1>7 DEF NextTick
  <2>2. CASE UNCHANGED <<i, at, sums>>
    BY <1>4, <2>1, <2>2
  <2>3. CASE at' = 1 /\ sums' = [sums EXCEPT !.j = 0]
    <3>1. sums'.k = sums.k /\ \A n \in 1..Len(src) : ~(n < at')
      BY <1>3, <2>3
    <3>2. QED
      BY <1>4, <2>1, <3>1
  <2>4. QED
    BY <1>7, <2>2, <2>3 DEF NextTick
<1>8. CASE UNCHANGED <<src, sums, i, at>>
  BY <1>4, <1>8
<1>9. QED
  BY <1>1, <1>5, <1>6, <1>7, <1>8
     DEF Next, vars, FcfsVisit, StcfAppend, StcfInsertLast, StcfBreak,
         Visiting, Play, Overrun, Done

LEMMA TurnsInit ==
  ASSUME Init, Typed
  PROVE  Turns
<1>1. /\ runq = << >> /\ i = 0 /\ at = 1 /\ sums = [j |-> 0, k |-> 0, m |-> 0]
      /\ pc # "tick" => span = 0
  BY DEF Init
<1>2. src \in Seq(Works) /\ Len(src) \in Nat
  BY LenProperties DEF Typed
<1>3. \A n \in 1..Len(src) : src[n].arr \in Nat /\ src[n].burst \in Int
  <2> TAKE n \in 1..Len(src)
  <2>1. src[n] \in Works
    BY <1>2, ElementOfSeq
  <2>2. QED
    BY <2>1, CpuSchedAssumption DEF Works
<1>4. Arrived
  BY <1>1, <1>3 DEF Arrived
<1>5. Waiting
  <2>1. sums.k >= 0
    BY <1>1
  <2>2. ASSUME NoneBelow, NEW n \in 1..Len(src)
        PROVE  src[n].burst >= (IF n < at THEN i ELSE i - 1)
    BY <1>1, <1>3, <2>2 DEF NoneBelow
  <2>3. QED
    BY <2>1, <2>2 DEF Waiting
<1>6. SjfTurns
  BY <1>1 DEF SjfTurns, NearlyShortestFirst
<1>7. InTime /\ NotYetThere
  BY InTimeInit, NotYetThereInit
<1>8. QED
  BY <1>1, <1>4, <1>5, <1>6, <1>7 DEF Turns, Ended

(* An entry of the source list that is marked is on the run queue.         *)
LEMMA MarkedIsQueued ==
  ASSUME Typed, Counted, policy # "FCFS",
         NEW n \in 1..Len(src), src[n].on_rq
  PROVE  ~Absent(src[n].pid)
<1> DEFINE p == src[n].pid
<1>1. p \in 1..MaxProcesses
  <2>1. src[n] \in Works
    BY ElementOfSeq DEF Typed
  <2>2. QED
    BY <2>1 DEF Works
<1>2. n \in MarkedFor(src, {p})
  BY DEF MarkedFor
<1> HIDE DEF p
<1>3. Cardinality(QueuedFor({p})) = Cardinality(MarkedFor(src, {p}))
  BY <1>1 DEF Counted
<1>4. IsFiniteSet(MarkedFor(src, {p})) /\ IsFiniteSet(QueuedFor({p}))
  BY CountedFinite
<1>5. QueuedFor({p}) # {}
  BY <1>2, <1>3, <1>4, FS_EmptySet
<1>6. Absent(p) => QueuedFor({p}) = {}
  BY DEF QueuedFor, Absent
<1>7. QED
  BY <1>5, <1>6 DEF p

(* A process that is not on the run queue after a step that queues the     *)
(* entry visited was not there before, and is not that of the entry.       *)
LEMMA StillAbsent ==
  ASSUME Typed, at \in DOMAIN src, NEW n \in 1..Len(runq) + 1, QueuedAt(n),
         NEW p, \A a \in DOMAIN runq' : runq'[a].pid # p
  PROVE  Absent(p) /\ p # Here.pid
<1>1. Len(runq) \in Nat /\ DOMAIN runq = 1..Len(runq)
  BY HereFacts
<1>2. /\ DOMAIN runq' = 1..Len(runq) + 1
      /\ runq'[n].pid = Here.pid
      /\ \A m \in 1..n - 1 : runq'[m].pid = runq[m].pid
      /\ \A m \in n + 1..Len(runq) + 1 : runq'[m].pid = runq[m - 1].pid
  BY DEF QueuedAt
<1>3. p # Here.pid
  BY <1>2
<1>4. ASSUME NEW a \in 1..Len(runq)
      PROVE  runq[a].pid # p
  <2>1. CASE a < n
    <3>1. a \in 1..n - 1 /\ a \in 1..Len(runq) + 1
      BY <1>1, <2>1
    <3>2. QED
      BY <1>2, <3>1
  <2>2. CASE a >= n
    <3>1. /\ a + 1 \in n + 1..Len(runq) + 1 /\ a + 1 \in 1..Len(runq) + 1
          /\ (a + 1) - 1 = a
      BY <1>1, <2>2
    <3>2. runq'[a + 1].pid = runq[a].pid
      BY <1>2, <3>1
    <3>3. QED
      BY <1>2, <3>1, <3>2
  <2>3. QED
    BY <2>1, <2>2
<1>5. QED
  BY <1>1, <1>3, <1>4 DEF Absent

(* What the passing of the entry visited, queued or not ready, means for   *)
(* the entries passed by in this tick.                                     *)
LEMMA WaitingPassBy ==
  ASSUME Typed, Counted, Waiting, PassBy
  PROVE  Waiting'
<1>1. /\ policy # "FCFS" /\ policy' = policy /\ at \in DOMAIN src
      /\ UNCHANGED <<src, runq, i>> /\ at' = at + 1
      /\ Here.on_rq \/ ~Ready
      /\ sums' = [sums EXCEPT !.j = IF Here.on_rq THEN @ ELSE Passed]
  BY DEF PassBy, Visiting
<1>2. /\ at \in 1..Len(src) /\ Len(src) \in Nat /\ i \in Nat
      /\ sums \in [j : Int, k : Int, m : Int] /\ sums'.k = sums.k
  BY <1>1, HereFacts DEF Typed
<1> SUFFICES ASSUME NoneBelow
             PROVE  /\ sums'.k >= 0
                    /\ \A n \in 1..Len(src) :
                         src[n].arr = 0 /\ Absent(src[n].pid) =>
                           src[n].burst >= (IF n < at + 1 THEN i ELSE i - 1)
  BY <1>1 DEF Waiting, NoneBelow, Absent
<1>3. /\ sums.k >= 0
      /\ \A n \in 1..Len(src) :
           src[n].arr = 0 /\ Absent(src[n].pid) =>
             src[n].burst >= (IF n < at THEN i ELSE i - 1)
  BY <1>1 DEF Waiting
<1>4. ASSUME src[at].arr = 0, Absent(src[at].pid)
      PROVE  src[at].burst >= i
  <2>1. ~Here.on_rq
    BY <1>1, <1>2, <1>4, MarkedIsQueued DEF Here
  <2>2. ~(Here.burst < i /\ Here.arr <= sums.k)
    BY <1>1, <2>1 DEF Ready
  <2>3. Here.arr = 0 /\ Here.burst \in Int /\ sums.k \in Int
    BY <1>1, <1>2, <1>4, HereFacts DEF Here
  <2>4. QED
    BY <1>2, <1>3, <2>2, <2>3 DEF Here
<1>5. ASSUME NEW n \in 1..Len(src), src[n].arr = 0, Absent(src[n].pid)
      PROVE  src[n].burst >= (IF n < at + 1 THEN i ELSE i - 1)
  <2>1. CASE n = at
    BY <1>2, <1>4, <1>5, <2>1
  <2>2. CASE n # at
    <3>1. n < at + 1 <=> n < at
      BY <1>2, <2>2
    <3>2. QED
      BY <1>3, <1>5, <3>1
  <2>3. QED
    BY <2>1, <2>2
<1>6. QED
  BY <1>2, <1>3, <1>5

(* The entry visited goes on the run queue, and the source list stays as   *)
(* long as it is.                                                          *)
LEMMA WaitingQueue ==
  ASSUME Typed, Waiting, at \in DOMAIN src, policy # "FCFS",
         policy' = policy, src' = Marked, i' = i, at' \in {at, at + 1},
         sums'.k = sums.k + Here.burst,
         NEW l \in 1..Len(runq) + 1, QueuedAt(l)
  PROVE  Waiting'
<1>1. /\ at \in 1..Len(src) /\ Len(src) \in Nat /\ i \in Nat
      /\ sums.k \in Int /\ Here.burst \in Int
      /\ Here.burst = src[at].burst /\ Here.pid = src[at].pid
  BY HereFacts DEF Typed, Here
<1>2. /\ Len(src') = Len(src)
      /\ \A n \in 1..Len(src) : /\ src'[n].pid = src[n].pid
                                /\ src'[n].arr = src[n].arr
                                /\ src'[n].burst = src[n].burst
  BY MarkedFacts
<1> SUFFICES ASSUME NoneBelow'
             PROVE  /\ sums'.k >= 0
                    /\ \A n \in 1..Len(src') :
                         src'[n].arr = 0 /\ Absent(src[n].pid)' =>
                           src'[n].burst >= (IF n < at' THEN i' ELSE i' - 1)
  BY DEF Waiting
<1>3. NoneBelow
  BY <1>2 DEF NoneBelow
<1>4. /\ sums.k >= 0
      /\ \A n \in 1..Len(src) :
           src[n].arr = 0 /\ Absent(src[n].pid) =>
             src[n].burst >= (IF n < at THEN i ELSE i - 1)
  BY <1>3 DEF Waiting
<1>5. sums'.k >= 0
  BY <1>1, <1>3, <1>4 DEF NoneBelow
<1>6. ASSUME NEW n \in 1..Len(src), src[n].arr = 0, Absent(src[n].pid)'
      PROVE  src[n].burst >= (IF n < at' THEN i ELSE i - 1)
  <2>1. \A a \in DOMAIN runq' : runq'[a].pid # src[n].pid
    BY <1>2, <1>6 DEF Absent
  <2>2. Absent(src[n].pid) /\ src[n].pid # Here.pid
    BY <2>1, StillAbsent
  <2>3. n # at
    BY <1>1, <2>2
  <2>4. n < at' => n < at
    BY <1>1, <2>3
  <2>5. src[n].burst \in Int
    BY EntryFacts
  <2>6. QED
    BY <1>1, <1>4, <1>6, <2>2, <2>4, <2>5
<1>7. QED
  BY <1>1, <1>2, <1>5, <1>6

(* The remainder of a process that is on the run queue goes in front of    *)
(* the entry visited, and both are passed by.                              *)
LEMMA WaitingBreak ==
  ASSUME Typed, Waiting, StcfBreak
  PROVE  Waiting'
<1>1. /\ at \in DOMAIN src /\ policy = "STCF" /\ policy' = policy /\ i' = i
      /\ at' = at + 2 /\ sums'.k = sums.k + Here.burst
  BY DEF StcfBreak, Visiting
<1>2. /\ at \in 1..Len(src) /\ Len(src) \in Nat /\ i \in Nat
      /\ sums.k \in Int /\ Here.burst \in Int
      /\ Here.burst = src[at].burst /\ Here.pid = src[at].pid
  BY <1>1, HereFacts DEF Typed, Here
<1>3. PICK l \in 1..Len(runq) + 1 : QueuedAt(l)
  BY StcfInserts
<1>4. PICK rest \in Works :
        /\ \E a \in 1..Len(runq) : rest.pid = runq[a].pid
        /\ src' = InsertAt(Marked, at, rest)
  BY BreakFacts
<1>5. /\ Marked \in Seq(Works) /\ Len(Marked) = Len(src)
      /\ \A n \in 1..Len(src) : /\ Marked[n].pid = src[n].pid
                                /\ Marked[n].arr = src[n].arr
                                /\ Marked[n].burst = src[n].burst
  BY <1>1, MarkedFacts
<1>6. /\ Len(src') = Len(src) + 1 /\ src'[at] = rest
      /\ \A m \in 1..at - 1 : src'[m] = Marked[m]
      /\ \A m \in at + 1..Len(src) + 1 : src'[m] = Marked[m - 1]
  <2>1. at \in 1..Len(Marked) + 1
    BY <1>2, <1>5
  <2>2. Inserted(Marked, at, rest, src')
    BY <1>4, <1>5, <2>1, InsertAtFacts
  <2>3. QED
    BY <1>5, <2>2 DEF Inserted
<1> SUFFICES ASSUME NoneBelow'
             PROVE  /\ sums'.k >= 0
                    /\ \A n \in 1..Len(src') :
                         src'[n].arr = 0 /\ Absent(src[n].pid)' =>
                           src'[n].burst >= (IF n < at' THEN i' ELSE i' - 1)
  BY DEF Waiting
<1>7. NoneBelow
  <2>1. ASSUME NEW n \in 1..Len(src)
        PROVE  src[n].burst >= 0
    <3>1. CASE n < at
      <4>1. n \in 1..at - 1 /\ n \in 1..Len(src')
        BY <1>2, <1>6, <3>1
      <4>2. QED
        BY <1>5, <1>6, <4>1 DEF NoneBelow
    <3>2. CASE n >= at
      <4>1. n + 1 \in at + 1..Len(src) + 1 /\ n + 1 \in 1..Len(src') /\ (n + 1) - 1 = n
        BY <1>2, <1>6, <3>2
      <4>2. src'[n + 1] = Marked[n] /\ src'[n + 1].burst >= 0
        BY <1>6, <4>1 DEF NoneBelow
      <4>3. QED
        BY <1>5, <4>2
    <3>3. QED
      BY <1>2, <3>1, <3>2
  <2>2. QED
    BY <2>1 DEF NoneBelow
<1>8. /\ sums.k >= 0
      /\ \A n \in 1..Len(src) :
           src[n].arr = 0 /\ Absent(src[n].pid) =>
             src[n].burst >= (IF n < at THEN i ELSE i - 1)
  BY <1>1, <1>7 DEF Waiting
<1>9. sums'.k >= 0
  BY <1>1, <1>2, <1>7, <1>8 DEF NoneBelow
<1>10. ASSUME NEW n \in 1..Len(src) + 1, src'[n].arr = 0, Absent(src[n].pid)'
       PROVE  src'[n].burst >= (IF n < at + 2 THEN i ELSE i - 1)
  <2> DEFINE p == src'[n].pid
  <2>1. Absent(p) /\ p # Here.pid
    <3>1. \A a \in DOMAIN runq' : runq'[a].pid # p
      BY <1>10 DEF Absent
    <3> HIDE DEF p
    <3>2. QED
      BY <1>1, <1>3, <3>1, StillAbsent
  <2> HIDE DEF p
  <2>2. DOMAIN runq = 1..Len(runq)
    BY <1>1, HereFacts
  <2>3. n # at
    <3>1. rest.pid # p
      BY <1>4, <2>1, <2>2 DEF Absent
    <3>2. QED
      BY <1>6, <3>1 DEF p
  <2>4. CASE n < at
    <3>1. n \in 1..at - 1 /\ n \in 1..Len(src)
      BY <1>2, <2>4
    <3>2. src'[n].arr = src[n].arr /\ src'[n].burst = src[n].burst /\ p = src[n].pid
      BY <1>5, <1>6, <3>1 DEF p
    <3>3. src[n].burst >= i
      BY <1>8, <1>10, <2>1, <2>4, <3>1, <3>2
    <3>4. n < at + 2
      BY <1>2, <2>4
    <3>5. QED
      BY <3>2, <3>3, <3>4
  <2>5. CASE n > at
    <3>1. n \in at + 1..Len(src) + 1 /\ n - 1 \in 1..Len(src)
      BY <1>2, <2>5
    <3> DEFINE o == n - 1
    <3>2. /\ o \in 1..Len(src)
          /\ src'[n].arr = src[o].arr /\ src'[n].burst = src[o].burst
          /\ p = src[o].pid
      BY <1>5, <1>6, <3>1 DEF p
    <3>3. o # at
      BY <1>2, <2>1, <3>2
    <3>4. ~(o < at) /\ ~(n < at + 2)
      BY <1>2, <2>5, <3>3
    <3> HIDE DEF o
    <3>5. src[o].burst >= i - 1
      BY <1>8, <1>10, <2>1, <3>2, <3>4
    <3>6. QED
      BY <3>2, <3>4, <3>5
  <2>6. QED
    BY <1>2, <2>3, <2>4, <2>5
<1>11. QED
  BY <1>1, <1>6, <1>9, <1>10

LEMMA WaitingNextTick ==
  ASSUME Typed, Waiting, NextTick
  PROVE  Waiting'
<1>1. /\ UNCHANGED <<policy, src, runq>> /\ at = Len(src) + 1
      /\ Len(src) \in Nat /\ i \in Nat
  BY LenProperties DEF NextTick, Typed
<1>2. CASE UNCHANGED <<i, at, sums>>
  BY <1>1, <1>2 DEF Waiting, NoneBelow, Absent
<1>3. CASE i' = i + 1 /\ at' = 1 /\ sums' = [sums EXCEPT !.j = 0]
  <2>1. sums'.k = sums.k
    BY <1>3 DEF Typed
  <2>2. ASSUME NEW n \in 1..Len(src)
        PROVE  n < at /\ ~(n < 1)
    BY <1>1
  <2>3. ASSUME policy # "FCFS", NoneBelow, NEW n \in 1..Len(src),
               src[n].arr = 0, Absent(src[n].pid)
        PROVE  src[n].burst >= (IF n < 1 THEN i + 1 ELSE (i + 1) - 1)
    <3>1. src[n].burst >= i
      BY <2>2, <2>3 DEF Waiting
    <3>2. (i + 1) - 1 = i
      BY <1>1
    <3>3. QED
      BY <2>2, <3>1, <3>2
  <2>4. policy # "FCFS" /\ NoneBelow => sums.k >= 0
    BY DEF Waiting
  <2>5. QED
    BY <1>1, <1>3, <2>1, <2>3, <2>4 DEF Waiting, NoneBelow, Absent
<1>4. QED
  BY <1>2, <1>3 DEF NextTick

LEMMA WaitingStep ==
  ASSUME Typed, Counted, Waiting, [Next]_vars
  PROVE  Waiting'
<1>1. CASE UNCHANGED <<policy, src, runq, i, at, sums>>
  BY <1>1 DEF Waiting, NoneBelow, Absent
<1>2. CASE FcfsVisit
  BY <1>2 DEF Waiting, FcfsVisit, Visiting
<1>3. CASE SjfVisit \/ StcfAppend
  <2>1. /\ at \in DOMAIN src /\ policy # "FCFS" /\ policy' = policy
        /\ src' = Marked /\ i' = i /\ at' \in {at, at + 1} /\ Admit(Here)
    BY <1>3 DEF SjfVisit, StcfAppend, Visiting, Marked
  <2>2. sums'.k = sums.k + Here.burst
    <3>1. sums \in [j : Int, k : Int, m : Int]
      BY DEF Typed
    <3>2. CASE SjfVisit
      <4>1. sums' = [sums EXCEPT !.j = Passed, !.k = @ + Here.burst]
        BY <3>2 DEF SjfVisit
      <4>2. QED
        BY <3>1, <4>1
    <3>3. CASE StcfAppend
      BY <3>3 DEF StcfAppend
    <3>4. QED
      BY <1>3, <3>2, <3>3
  <2>3. Len(runq) + 1 \in 1..Len(runq) + 1 /\ QueuedAt(Len(runq) + 1)
    BY <2>1, AdmitQueues
  <2>4. PICK l \in 1..Len(runq) + 1 : QueuedAt(l)
    BY <2>3
  <2>5. QED
    BY <2>1, <2>2, <2>4, WaitingQueue
<1>4. CASE StcfInsertLast
  <2>1. /\ at \in DOMAIN src /\ policy # "FCFS" /\ policy' = policy
        /\ src' = Marked /\ i' = i /\ at' \in {at, at + 1}
        /\ sums'.k = sums.k + Here.burst
    BY <1>4 DEF StcfInsertLast, Visiting, Marked
  <2>2. PICK l \in 1..Len(runq) + 1 : QueuedAt(l)
    BY <1>4, StcfInserts
  <2>3. QED
    BY <2>1, <2>2, WaitingQueue
<1>5. QED
  BY <1>1, <1>2, <1>3, <1>4, WaitingPassBy, WaitingBreak, WaitingNextTick
     DEF Next, vars, Play, Overrun, Done

LEMMA ArrivedStep ==
  ASSUME Typed, Mates, Arrived, [Next]_vars
  PROVE  Arrived'
<1> SUFFICES ASSUME policy' = "FCFS"
             PROVE  Arrived'
  BY DEF Arrived
<1>1. policy = "FCFS"
  BY DEF Next, vars, FcfsVisit, PassBy, SjfVisit, StcfAppend, StcfInsertLast,
         StcfBreak, NextTick, Play, Overrun, Done
<1>2. /\ \A n \in 1..Len(src) :
           src[n].arr < i \/ (src[n].arr = i /\ n < at) => ~Absent(n)
      /\ \A n \in 1..Len(src) : src[n].pid = n
  BY <1>1 DEF Arrived, Mates
<1>3. /\ i \in Nat /\ at \in 1..Len(src) + 1 /\ Len(src) \in Nat
      /\ \A n \in 1..Len(src) : src[n].arr \in Nat
  BY EntryFacts, LenProperties DEF Typed
<1>4. CASE UNCHANGED <<src, runq, i, at>>
  BY <1>2, <1>4 DEF Arrived, Absent
<1>5. CASE FcfsVisit
  <2>1. /\ at \in DOMAIN src /\ src' = src /\ i' = i /\ at' = at + 1
        /\ IF Here.arr = i THEN Admit(Here) ELSE UNCHANGED <<runq, count>>
    BY <1>5 DEF FcfsVisit, Visiting
  <2>2. /\ at \in 1..Len(src) /\ DOMAIN runq = 1..Len(runq) /\ Len(runq) \in Nat
        /\ Here.arr = src[at].arr /\ Slice(Here).pid = src[at].pid
    BY <2>1, HereFacts DEF Here
  <2>3. CASE Here.arr = i
    <3>1. /\ DOMAIN runq' = 1..Len(runq) + 1
          /\ \A a \in 1..Len(runq) : runq'[a] = runq[a]
          /\ runq'[Len(runq) + 1] = Slice(Here)
      BY <2>1, <2>3, AdmitFacts
    <3>2. ASSUME NEW n \in 1..Len(src),
                 src[n].arr < i \/ (src[n].arr = i /\ n < at + 1)
          PROVE  \E a \in DOMAIN runq' : runq'[a].pid = n
      <4>1. CASE n = at
        <5>1. runq'[Len(runq) + 1].pid = n /\ Len(runq) + 1 \in DOMAIN runq'
          BY <1>2, <2>2, <3>1, <4>1
        <5>2. QED
          BY <5>1
      <4>2. CASE n # at
        <5>1. src[n].arr < i \/ (src[n].arr = i /\ n < at)
          BY <1>3, <2>2, <3>2, <4>2
        <5>2. PICK a \in 1..Len(runq) : runq[a].pid = n
          BY <1>2, <2>2, <5>1 DEF Absent
        <5>3. a \in DOMAIN runq' /\ runq'[a].pid = n
          BY <2>2, <3>1, <5>2
        <5>4. QED
          BY <5>3
      <4>3. QED
        BY <4>1, <4>2
    <3>3. QED
      BY <2>1, <3>2 DEF Arrived, Absent
  <2>4. CASE Here.arr # i
    <3>1. runq' = runq
      BY <2>1, <2>4
    <3>2. ASSUME NEW n \in 1..Len(src),
                 src[n].arr < i \/ (src[n].arr = i /\ n < at + 1)
          PROVE  src[n].arr < i \/ (src[n].arr = i /\ n < at)
      BY <1>3, <2>2, <2>4, <3>2
    <3>3. QED
      BY <1>2, <2>1, <3>1, <3>2 DEF Arrived, Absent
  <2>5. QED
    BY <2>3, <2>4
<1>6. CASE NextTick
  <2>1. UNCHANGED <<src, runq>> /\ at = Len(src) + 1
    BY <1>6 DEF NextTick
  <2>2. CASE i' = i + 1 /\ at' = 1
    <3>1. ASSUME NEW n \in 1..Len(src),
                 src[n].arr < i + 1 \/ (src[n].arr = i + 1 /\ n < 1)
          PROVE  ~Absent(n)
      <4>1. src[n].arr < i \/ (src[n].arr = i /\ n < at)
        BY <1>3, <2>1, <3>1
      <4>2. QED
        BY <1>2, <4>1
    <3>2. QED
      BY <2>1, <2>2, <3>1 DEF Arrived, Absent
  <2>3. QED
    BY <1>4, <1>6, <2>1, <2>2 DEF NextTick
<1>7. QED
  BY <1>1, <1>4, <1>5, <1>6
     DEF Next, vars, PassBy, SjfVisit, StcfAppend, StcfInsertLast, StcfBreak,
         Visiting, Play, Overrun, Done

(* The process queued under SJF is not longer than the tick, and by 1 at   *)
(* most shorter than it if it was there from the beginning.                *)
LEMMA SjfTurnsStep ==
  ASSUME Typed, Counted, Mates, Waiting, SjfTurns, [Next]_vars
  PROVE  SjfTurns'
<1> SUFFICES ASSUME policy' = "SJF"
             PROVE  SjfTurns'
  BY DEF SjfTurns
<1>1. policy = "SJF"
  BY DEF Next, vars, FcfsVisit, PassBy, SjfVisit, StcfAppend, StcfInsertLast,
         StcfBreak, NextTick, Play, Overrun, Done
<1>2. /\ sums.j >= 0
      /\ \A a \in 1..Len(runq) : runq[a].burst <= i
      /\ NearlyShortestFirst
  BY <1>1 DEF SjfTurns
<1>3. /\ i \in Nat /\ sums \in [j : Int, k : Int, m : Int]
      /\ Len(runq) \in Nat /\ DOMAIN runq = 1..Len(runq)
      /\ \A a \in 1..Len(runq) : runq[a].burst \in Int
  BY EntryFacts, LenProperties DEF Typed
<1>4. CASE UNCHANGED <<runq, i, sums>>
  BY <1>1, <1>2, <1>4 DEF SjfTurns, NearlyShortestFirst
<1>5. CASE PassBy \/ SjfVisit
  <2>1. at \in DOMAIN src /\ i' = i
    BY <1>5 DEF PassBy, SjfVisit, Visiting
  <2>2. at \in 1..Len(src) /\ Here.burst \in Int /\ Here.burst >= 1
    BY <1>1, <2>1, HereFacts DEF Mates, Here
  <2>3. Passed \in Int /\ Passed >= 0 /\ Here.burst <= Passed
    BY <1>2, <1>3, <2>2 DEF Passed
  <2>4. sums'.j >= 0
    <3>1. CASE PassBy
      <4>1. sums' = [sums EXCEPT !.j = IF Here.on_rq THEN @ ELSE Passed]
        BY <3>1 DEF PassBy
      <4>2. QED
        BY <1>2, <1>3, <2>3, <4>1
    <3>2. CASE SjfVisit
      <4>1. sums' = [sums EXCEPT !.j = Passed, !.k = @ + Here.burst]
        BY <3>2 DEF SjfVisit
      <4>2. QED
        BY <1>3, <2>3, <4>1
    <3>3. QED
      BY <1>5, <3>1, <3>2
  <2>5. CASE PassBy
    <3>1. runq' = runq
      BY <2>5 DEF PassBy
    <3>2. QED
      BY <1>1, <1>2, <2>1, <2>4, <3>1 DEF SjfTurns, NearlyShortestFirst
  <2>6. CASE SjfVisit
    <3>1. Admit(Here) /\ ~Here.on_rq /\ Ready
      BY <2>6 DEF SjfVisit
    <3>2. /\ Len(runq') = Len(runq) + 1 /\ DOMAIN runq' = 1..Len(runq) + 1
          /\ \A a \in 1..Len(runq) : runq'[a] = runq[a]
          /\ runq'[Len(runq) + 1] = Slice(Here)
          /\ Slice(Here).burst = Here.burst /\ Slice(Here).arr = Here.arr
      BY <2>1, <3>1, AdmitFacts, HereFacts
    <3>3. Here.burst <= i
      BY <1>3, <2>2, <2>3, <3>1 DEF Ready
    <3>4. Here.arr = 0 => Here.burst >= i - 1
      <4>1. NoneBelow
        BY <1>1, EntryFacts DEF Mates, NoneBelow
      <4>2. Absent(src[at].pid)
        <5>1. src[at].pid = at
          BY <1>1, <2>2 DEF Mates
        <5>2. \A a \in 1..Len(runq) : runq[a].pid # at
          BY <1>1, <3>1 DEF Mates, Here
        <5>3. QED
          BY <1>3, <5>1, <5>2 DEF Absent
      <4>3. QED
        BY <1>1, <1>3, <2>2, <4>1, <4>2 DEF Waiting, Here
    <3>5. \A a \in 1..Len(runq') : runq'[a].burst <= i
      BY <1>2, <1>3, <3>2, <3>3
    <3>6. ASSUME NEW a \in 1..Len(runq) + 1, NEW b \in 1..Len(runq) + 1,
                 a < b, runq'[b].arr = 0
          PROVE  runq'[a].burst <= runq'[b].burst + 1
      <4>1. a \in 1..Len(runq) /\ runq'[a] = runq[a]
        BY <1>3, <3>2, <3>6
      <4>2. CASE b = Len(runq) + 1
        <5>1. Here.burst >= i - 1 /\ runq'[b].burst = Here.burst
          BY <3>2, <3>4, <3>6, <4>2
        <5>2. runq[a].burst <= i /\ runq[a].burst \in Int
          BY <1>2, <1>3, <4>1
        <5>3. QED
          BY <1>3, <2>2, <4>1, <5>1, <5>2
      <4>3. CASE b # Len(runq) + 1
        <5>1. b \in 1..Len(runq) /\ runq'[b] = runq[b]
          BY <1>3, <3>2, <4>3
        <5>2. a \in DOMAIN runq /\ b \in DOMAIN runq /\ runq[b].arr = 0
          BY <1>3, <3>6, <4>1, <5>1
        <5>3. runq[a].burst <= runq[b].burst + 1
          BY <1>1, <1>2, <3>6, <5>2, Zenon DEF NearlyShortestFirst
        <5>4. QED
          BY <4>1, <5>1, <5>3
      <4>4. QED
        BY <4>2, <4>3
    <3>7. QED
      BY <2>1, <2>4, <3>2, <3>5, <3>6 DEF SjfTurns, NearlyShortestFirst
  <2>7. QED
    BY <1>5, <2>5, <2>6
<1>6. CASE NextTick
  <2>1. runq' = runq
    BY <1>6 DEF NextTick
  <2>2. CASE i' = i + 1 /\ sums' = [sums EXCEPT !.j = 0]
    <3>1. sums'.j = 0
      BY <1>3, <2>2
    <3>2. \A a \in 1..Len(runq) : runq[a].burst <= i + 1
      BY <1>2, <1>3
    <3>3. QED
      BY <1>1, <1>2, <2>1, <2>2, <3>1, <3>2 DEF SjfTurns, NearlyShortestFirst
  <2>3. QED
    BY <1>4, <1>6, <2>1, <2>2 DEF NextTick
<1>7. QED
  BY <1>1, <1>4, <1>5, <1>6
     DEF Next, vars, FcfsVisit, StcfAppend, StcfInsertLast, StcfBreak,
         Visiting, Play, Overrun, Done

(* A tick function returns when all are queued, or after the last tick.    *)
LEMMA EndedStep ==
  ASSUME Typed, Ended, [Next]_vars
  PROVE  Ended'
<1>1. CASE pc' = "tick"
  BY <1>1 DEF Ended
<1>2. CASE UNCHANGED <<src, runq, i, at, span>> /\ (pc' # "tick" => pc # "tick")
  BY <1>2 DEF Ended
<1>3. CASE StcfAppend /\ pc' # "tick"
  <2>1. /\ at \in DOMAIN src /\ Admit(Here) /\ src' = Marked
        /\ count'.added = count.processes
    BY <1>3 DEF StcfAppend, Visiting, Marked
  <2>2. Len(runq') = Len(runq) + 1 /\ count'.added = Len(runq) + 1
    BY <2>1, AdmitFacts
  <2>3. Len(src') = Len(src) /\ count.processes = Len(src)
    BY <2>1, MarkedFacts DEF Typed
  <2>4. QED
    BY <2>1, <2>2, <2>3 DEF Ended
<1>4. CASE StcfInsertLast
  <2>1. /\ at \in DOMAIN src /\ src' = Marked
        /\ count.added + 1 = count.processes
    BY <1>4 DEF StcfInsertLast, Visiting, Marked
  <2>2. PICK n \in 1..Len(runq) + 1 : runq' = InsertAt(runq, n, Slice(Here))
    BY <1>4, InsertLastFacts
  <2>3. runq \in Seq(Jobs) /\ Slice(Here) \in Jobs
    BY <2>1, HereFacts DEF Typed
  <2>4. Len(runq') = Len(runq) + 1
    BY <2>2, <2>3, InsertAtFacts
  <2>5. /\ Len(src') = Len(src) /\ count.processes = Len(src)
        /\ count.added = Len(runq)
    BY <2>1, MarkedFacts DEF Typed
  <2>6. QED
    BY <2>1, <2>4, <2>5 DEF Ended
<1>5. CASE NextTick /\ pc' # "tick"
  <2>1. /\ at = Len(src) + 1 /\ ~(i + 1 < span /\ ~AllQueued)
        /\ UNCHANGED <<src, runq, i, at, span>>
    BY <1>5 DEF NextTick
  <2>2. i \in Nat /\ span \in Int /\ count = [processes |-> Len(src), added |-> Len(runq)]
    BY DEF Typed
  <2>3. CASE AllQueued
    BY <2>1, <2>2, <2>3 DEF AllQueued, Ended
  <2>4. CASE ~(i + 1 < span)
    BY <2>1, <2>2, <2>4 DEF Ended
  <2>5. QED
    BY <2>1, <2>3, <2>4
<1>6. QED
  BY <1>1, <1>2, <1>3, <1>4, <1>5
     DEF Next, vars, FcfsVisit, PassBy, SjfVisit, StcfBreak, Visiting, Play, Overrun, Done

LEMMA TurnsStep ==
  ASSUME Books, Turns, [Next]_vars
  PROVE  Turns'
BY ArrivedStep, WaitingStep, SjfTurnsStep, EndedStep, InTimeStep,
   NotYetThereStep, Zenon DEF Books, Turns
-----------------------------------------------------------------------------
(* When the run queue is as long as the source list, nobody is left out:   *)
(* under FCFS because no process is on it twice, and under SJF and STCF    *)
(* because as many entries are marked.                                     *)
LEMMA FullQueue ==
  ASSUME Books, Len(runq) = Len(src), NEW n \in 1..Len(src)
  PROVE  Queued(src[n].pid) # {}
<1>1. /\ Typed /\ Counted /\ Mates
      /\ Len(runq) \in Nat /\ DOMAIN runq = 1..Len(runq)
  BY LenProperties DEF Books, Typed
<1>2. IsFiniteSet(1..Len(src)) /\ Cardinality(1..Len(src)) = Len(src)
  <2>1. Len(src) \in Nat
    BY <1>1
  <2>2. QED
    BY <2>1, Numbers
<1>3. CASE policy = "FCFS"
  <2> DEFINE S == 1..Len(src)
             f == [a \in S |-> runq[a].pid]
  <2>1. f \in Injection(S, S)
    BY <1>1, <1>3 DEF Mates, Injection, IsInjective
  <2> HIDE DEF f, S
  <2>2. IsFiniteSet(S)
    BY <1>2 DEF S
  <2>3. f \in Surjection(S, S)
    BY <2>1, <2>2, FS_Injection
  <2>4. PICK a \in S : f[a] = n
    BY <2>3 DEF Surjection, S
  <2>5. runq[a].pid = n /\ a \in DOMAIN runq
    BY <1>1, <2>4 DEF f, S
  <2>6. src[n].pid = n
    BY <1>1, <1>3 DEF Mates
  <2>7. a \in Queued(src[n].pid)
    BY <2>5, <2>6 DEF Queued
  <2>8. QED
    BY <2>7
<1>4. CASE policy # "FCFS"
  <2> DEFINE P == 1..MaxProcesses
  <2>1. QueuedFor(P) = 1..Len(src)
    BY <1>1, EntryFacts DEF QueuedFor
  <2>2. Cardinality(MarkedFor(src, P)) = Len(src)
    BY <1>1, <1>2, <1>4, <2>1 DEF Counted
  <2>3. MarkedFor(src, P) = 1..Len(src)
    <3>1. MarkedFor(src, P) \subseteq 1..Len(src)
      BY DEF MarkedFor
    <3> HIDE DEF P
    <3>2. QED
      BY <1>2, <2>2, <3>1, FS_Subset
  <2>4. src[n].on_rq
    BY <2>3 DEF MarkedFor
  <2>5. ~Absent(src[n].pid)
    BY <1>1, <1>4, <2>4, MarkedIsQueued
  <2>6. QED
    BY <2>5 DEF Absent, Queued
<1>5. QED
  BY <1>3, <1>4

(* FCFS: a queued process has arrived below span, and at the end of the    *)
(* loop every such process is queued.                                      *)
LEMMA LeftOutFcfs ==
  ASSUME Books, Turns, pc # "tick", policy = "FCFS", NEW n \in 1..Len(src)
  PROVE  Queued(src[n].pid) = {} <=> src[n].arr >= span
<1>1. /\ Typed /\ Mates /\ Arrived /\ Ended /\ InTime
      /\ i \in Nat /\ span \in Int /\ Len(src) \in Nat
      /\ Len(runq) \in Nat /\ DOMAIN runq = 1..Len(runq)
  BY LenProperties DEF Books, Turns, Typed
<1>2. src[n].arr \in Nat /\ src[n].pid = n
  BY <1>1, EntryFacts DEF Mates
<1>3. ASSUME Queued(src[n].pid) = {}
      PROVE  src[n].arr >= span
  <2>1. Len(runq) # Len(src)
    BY <1>3, FullQueue
  <2>2. (at = Len(src) + 1 /\ i + 1 >= span) \/ span = 0
    BY <1>1, <2>1 DEF Ended
  <2>3. Absent(src[n].pid)
    BY <1>3 DEF Absent, Queued
  <2>4. ~(src[n].arr < i \/ (src[n].arr = i /\ n < at))
    BY <1>1, <1>2, <2>3 DEF Arrived
  <2>5. QED
    BY <1>1, <1>2, <2>2, <2>4
<1>4. ASSUME Queued(src[n].pid) # {}
      PROVE  ~(src[n].arr >= span)
  <2>1. PICK a \in 1..Len(runq) : runq[a].pid = n
    BY <1>1, <1>2, <1>4 DEF Queued
  <2>2. runq[a].arr = src[n].arr
    BY <1>1, <2>1 DEF Mates
  <2>3. runq[a].arr < span
    BY <1>1 DEF InTime
  <2>4. QED
    BY <1>1, <1>2, <2>2, <2>3
<1>5. QED
  BY <1>3, <1>4

(* SJF: who is not queued was passed by in the last tick.                  *)
LEMMA LeftOutSjf ==
  ASSUME Books, Turns, pc # "tick", policy = "SJF", NEW n \in 1..Len(src),
         Queued(src[n].pid) = {}
  PROVE  src[n].burst >= span - 1 \/ src[n].arr > WorkAhead(n)
<1>1. /\ Typed /\ Counted /\ Mates /\ NotYetThere /\ Ended
      /\ i \in Nat /\ span \in Int /\ Len(src) \in Nat
  BY LenProperties DEF Books, Turns, Typed
<1>2. src[n].arr \in Nat /\ src[n].burst \in Int /\ src[n].burst >= 1
  BY <1>1, EntryFacts DEF Mates
<1>3. ~src[n].on_rq
  <2>1. Absent(src[n].pid)
    BY DEF Absent, Queued
  <2>2. QED
    BY <1>1, <2>1, MarkedIsQueued
<1>4. (at = Len(src) + 1 /\ i + 1 >= span) \/ span = 0
  <2>1. Len(runq) # Len(src)
    BY FullQueue
  <2>2. QED
    BY <1>1, <2>1 DEF Ended
<1>5. n < at => src[n].burst >= i \/ src[n].arr > WorkAhead(n)
  BY <1>1, <1>3 DEF NotYetThere
<1> HIDE DEF WorkAhead
<1>6. CASE at = Len(src) + 1 /\ i + 1 >= span
  BY <1>1, <1>2, <1>5, <1>6
<1>7. CASE span = 0
  BY <1>2, <1>7
<1>8. QED
  BY <1>4, <1>6, <1>7

(* STCF: nobody who is there from the beginning is passed by but for work. *)
LEMMA LeftOutStcf ==
  ASSUME Books, Turns, pc # "tick", policy = "STCF", NEW n \in 1..Len(src),
         Queued(src[n].pid) = {}, src[n].arr = 0
  PROVE  src[n].burst >= span - 1 \/ \E m \in 1..Len(src) : src[m].burst < 0
<1>1. /\ Typed /\ Waiting /\ Ended
      /\ i \in Nat /\ span \in Int /\ Len(src) \in Nat
  BY LenProperties DEF Books, Turns, Typed
<1>2. \A m \in 1..Len(src) : src[m].burst \in Int
  BY <1>1, EntryFacts
<1>3. (at = Len(src) + 1 /\ i + 1 >= span) \/ span = 0
  <2>1. Len(runq) # Len(src)
    BY FullQueue
  <2>2. QED
    BY <1>1, <2>1 DEF Ended
<1>4. CASE ~NoneBelow
  BY <1>2, <1>4 DEF NoneBelow
<1>5. CASE NoneBelow
  <2>1. Absent(src[n].pid)
    BY DEF Absent, Queued
  <2>2. src[n].burst >= (IF n < at THEN i ELSE i - 1)
    BY <1>1, <1>5, <2>1 DEF Waiting
  <2>3. src[n].burst >= 0
    BY <1>5 DEF NoneBelow
  <2>4. QED
    BY <1>1, <1>2, <1>3, <2>2, <2>3
<1>6. QED
  BY <1>4, <1>5

LEMMA TurnsFollow ==
  ASSUME Books, Turns
  PROVE  TurnsTaken
<1>1. policy \in {"FCFS", "SJF", "STCF"} /\ DOMAIN src = 1..Len(src)
  BY CpuSchedAssumption, LenProperties DEF Books, Typed
<1>2. NearlyShortestFirst
  BY DEF Turns, SjfTurns, NearlyShortestFirst
<1>3. LeftOut
  <2> SUFFICES ASSUME pc # "tick", NEW n \in 1..Len(src)
      PROVE  LET left == Queued(src[n].pid) = {}
                 big  == src[n].burst >= span - 1
             IN CASE policy = "FCFS" -> left <=> src[n].arr >= span
                  [] policy = "SJF"  -> left => big \/ src[n].arr > WorkAhead(n)
                  [] policy = "STCF" ->
                       left /\ src[n].arr = 0 =>
                         big \/ \E m \in DOMAIN src : src[m].burst < 0
    BY <1>1 DEF LeftOut
  <2>1. CASE policy = "FCFS"
    BY <2>1, LeftOutFcfs
  <2>2. CASE policy = "SJF"
    <3>1. Queued(src[n].pid) = {} =>
            src[n].burst >= span - 1 \/ src[n].arr > WorkAhead(n)
      BY <2>2, LeftOutSjf
    <3> HIDE DEF WorkAhead, Queued
    <3>2. QED
      BY <2>2, <3>1
  <2>3. CASE policy = "STCF"
    <3>1. Queued(src[n].pid) = {} /\ src[n].arr = 0 =>
            \/ src[n].burst >= span - 1
            \/ \E m \in 1..Len(src) : src[m].burst < 0
      BY <2>3, LeftOutStcf
    <3>2. QED
      BY <1>1, <2>3, <3>1
  <2>4. QED
    BY <1>1, <2>1, <2>2, <2>3
<1>4. QED
  BY <1>2, <1>3 DEF TurnsTaken

(* For every file: under SJF a process that is there from the beginning    *)
(* waits only for jobs longer by 1 at most; under FCFS those that never    *)
(* run are the ones that arrive at span or later; and under SJF and STCF   *)
(* nobody is left out for another reason than LeftOut gives (fcfs_tick,    *)
(* sjf_tick and stcf_tick, lines 28-166).                                  *)
THEOREM TurnsAsNamed == Spec => []TurnsTaken
<1>1. Init => Turns
  BY TurnsInit, TypedInit
<1>2. Books /\ Turns /\ [Next]_vars => Turns'
  BY TurnsStep
<1>3. Books /\ Turns => TurnsTaken
  BY TurnsFollow
<1>4. QED
  BY <1>1, <1>2, <1>3, BooksKept, PTL DEF Spec

-----------------------------------------------------------------------------
(***************************************************************************)
(* The rows of the table and the timeline: row r is that of the entry r of *)
(* the run queue, and the units of its process are the burst of that entry *)
(* up to the place that the turnaround time gives.  At the end a line is   *)
(* shown for each entry of the source list, the rows first.                *)
(***************************************************************************)
Shown == [n \in 1..Len(src) |-> IF n \in DOMAIN table THEN table[n] ELSE Junk]

End(r) == table[r].turnaround + runq[r].arr - 1

RowTold(r) ==
  /\ table[r].pid = runq[r].pid
  /\ table[r].turnaround - table[r].waiting = runq[r].burst
  /\ End(r) \in 1..Len(timeline) /\ runq[r].burst <= End(r)
  /\ \A t \in 1..Len(timeline) :
       timeline[t] = runq[r].pid <=> End(r) - runq[r].burst < t /\ t <= End(r)

Told ==
  policy # "STCF" =>
    /\ pc = "tick" => Len(table) = 0 /\ Len(timeline) = 0
    /\ Len(table) <= Len(runq)
    /\ \A r \in 1..Len(table) : RowTold(r)
    /\ \A t \in 1..Len(timeline) : \E r \in 1..Len(table) : timeline[t] = runq[r].pid
    /\ pc = "done" => Len(table) = Len(runq) /\ printed = Shown

LEMMA ToldInit == Init => Told
<1> SUFFICES ASSUME Init PROVE Told
  OBVIOUS
<1>1. runq = << >> /\ table = << >> /\ timeline = << >> /\ pc # "done"
  BY DEF Init
<1>2. Len(runq) = 0 /\ Len(table) = 0 /\ Len(timeline) = 0
  BY <1>1
<1>3. QED
  BY <1>1, <1>2 DEF Told

LEMMA ToldPlay ==
  ASSUME Typed, Mates, Told, Play, policy # "STCF"
  PROVE  Told'
<1> DEFINE l == Len(table) + 1
           e == runq[l]
           k == Len(timeline)
           row == Row(e, timeline')
<1>1. UNCHANGED <<policy, src, runq>> /\ pc = "play" /\ pc' = pc
  BY DEF Play
<1>2. /\ e \in Jobs /\ l \in 1..Len(runq) /\ Line(e) \in Seq(1..MaxProcesses)
      /\ timeline' = timeline \o Line(e)
      /\ Len(timeline') = k + Len(Line(e))
      /\ table' = Append(table, row) /\ row \in Rows
  BY PlayFacts
<1>3. /\ timeline \in Seq(1..MaxProcesses) /\ table \in Seq(Rows)
      /\ Len(table) \in Nat /\ k \in Nat /\ Len(runq) \in Nat
      /\ \A a \in 1..Len(runq) : runq[a].arr \in Nat /\ runq[a].burst \in Int
  BY EntryFacts, LenProperties DEF Typed
<1>4. /\ \A a \in 1..Len(runq) : runq[a].burst >= 1
      /\ \A a, b \in 1..Len(runq) : runq[a].pid = runq[b].pid => a = b
  BY DEF Mates
<1>5. /\ Len(table) <= Len(runq)
      /\ \A r \in 1..Len(table) : RowTold(r)
      /\ \A t \in 1..k : \E r \in 1..Len(table) : timeline[t] = runq[r].pid
  BY DEF Told
<1>6. /\ Len(Line(e)) = e.burst /\ e.burst \in Int /\ e.burst >= 1 /\ e.arr \in Nat
      /\ \A n \in 1..e.burst : Line(e)[n] = e.pid
  <2>1. e.burst \in Int /\ e.arr \in Nat /\ e.burst >= 1
    BY <1>2, <1>3, <1>4, Zenon
  <2> HIDE DEF e
  <2>2. QED
    BY <1>2, <2>1, LineFacts
<1>7. /\ Len(timeline') = k + e.burst
      /\ \A t \in 1..k + e.burst : timeline'[t] = IF t <= k THEN timeline[t] ELSE e.pid
  <2> DEFINE line == Line(e)
  <2>1. /\ Len(line) = e.burst /\ line \in Seq(1..MaxProcesses)
        /\ timeline' = timeline \o line
        /\ \A n \in 1..e.burst : line[n] = e.pid
    BY <1>2, <1>6
  <2> HIDE DEF line
  <2>2. \A t \in 1..k + e.burst : timeline'[t] =
          IF t <= k THEN timeline[t] ELSE line[t - k]
    BY <1>3, <2>1, ConcatProperties
  <2>3. \A t \in 1..k + e.burst : ~(t <= k) => t - k \in 1..e.burst
    BY <1>3, <1>6
  <2>4. QED
    BY <1>2, <1>6, <2>1, <2>2, <2>3
<1>8. /\ Len(table') = l
      /\ \A r \in 1..Len(table) : table'[r] = table[r]
      /\ table'[l] = row
  BY <1>2, <1>3, AppendProperties
<1>9. \A t \in 1..k : timeline[t] # e.pid
  <2> TAKE t \in 1..k
  <2>1. PICK r \in 1..Len(table) : timeline[t] = runq[r].pid
    BY <1>5
  <2>2. r \in 1..Len(runq) /\ r # l
    BY <1>3, <1>5
  <2>3. QED
    BY <1>2, <1>4, <2>1, <2>2
<1>10. ASSUME NEW r \in 1..Len(table)
       PROVE  RowTold(r)'
  <2>1. r \in 1..Len(runq) /\ r # l
    BY <1>3, <1>5
  <2>2. End(r)' = End(r)
    BY <1>1, <1>8 DEF End
  <2>3. /\ table[r].pid = runq[r].pid
        /\ table[r].turnaround - table[r].waiting = runq[r].burst
        /\ End(r) \in 1..k /\ runq[r].burst <= End(r)
        /\ \A t \in 1..k :
             timeline[t] = runq[r].pid <=> End(r) - runq[r].burst < t /\ t <= End(r)
    BY <1>5 DEF RowTold
  <2>4. End(r) \in 1..k + e.burst
    BY <1>3, <1>6, <2>3
  <2>5. ASSUME NEW t \in 1..k + e.burst
        PROVE  timeline'[t] = runq[r].pid <=> End(r) - runq[r].burst < t /\ t <= End(r)
    <3>1. CASE t <= k
      <4>1. t \in 1..k /\ timeline'[t] = timeline[t]
        BY <1>3, <1>7, <3>1
      <4>2. QED
        BY <2>3, <4>1
    <3>2. CASE ~(t <= k)
      <4>1. timeline'[t] = e.pid /\ ~(t <= End(r))
        BY <1>3, <1>7, <2>3, <3>2
      <4>2. runq[r].pid # e.pid
        BY <1>2, <1>4, <2>1
      <4>3. QED
        BY <4>1, <4>2
    <3>3. QED
      BY <3>1, <3>2
  <2> HIDE DEF e, row
  <2>6. QED
    BY <1>1, <1>7, <1>8, <2>2, <2>3, <2>4, <2>5 DEF RowTold
<1>11. ASSUME NEW r \in 1..Len(runq), r = l
       PROVE  RowTold(r)'
  <2>1. /\ table'[r].pid = e.pid
        /\ table'[r].turnaround - table'[r].waiting = e.burst
        /\ End(r)' = k + e.burst
    <3>1. /\ row.pid = e.pid
          /\ row.waiting = k + e.burst + 1 - e.arr - e.burst
          /\ row.turnaround = k + e.burst + 1 - e.arr
      BY <1>7 DEF Row
    <3>2. End(r)' = row.turnaround + e.arr - 1
      BY <1>1, <1>8, <1>11 DEF End
    <3>3. table'[r] = row
      BY <1>8, <1>11
    <3> HIDE DEF row, e
    <3>4. \A arr, burst \in Int :
            /\ (k + burst + 1 - arr) - (k + burst + 1 - arr - burst) = burst
            /\ (k + burst + 1 - arr) + arr - 1 = k + burst
      BY <1>3
    <3>5. e.arr \in Int /\ e.burst \in Int
      BY <1>6
    <3>6. row.turnaround - row.waiting = e.burst /\ End(r)' = k + e.burst
      BY <3>1, <3>2, <3>4, <3>5
    <3>7. QED
      BY <3>1, <3>3, <3>6
  <2>2. k + e.burst \in 1..k + e.burst /\ e.burst <= k + e.burst
    BY <1>3, <1>6
  <2>3. ASSUME NEW t \in 1..k + e.burst
        PROVE  timeline'[t] = e.pid <=> (k + e.burst) - e.burst < t /\ t <= k + e.burst
    <3>1. CASE t <= k
      <4>1. t \in 1..k /\ timeline'[t] = timeline[t]
        BY <1>3, <1>7, <3>1
      <4>2. timeline'[t] # e.pid
        BY <1>9, <4>1
      <4>3. QED
        BY <1>3, <1>6, <3>1, <4>2
    <3>2. CASE ~(t <= k)
      <4>1. timeline'[t] = e.pid
        BY <1>7, <3>2
      <4>2. QED
        BY <1>3, <1>6, <3>2, <4>1
    <3>3. QED
      BY <3>1, <3>2
  <2>4. runq'[r] = e
    BY <1>1, <1>11
  <2> HIDE DEF e, row, l
  <2>5. QED
    BY <1>7, <2>1, <2>2, <2>3, <2>4 DEF RowTold
<1>12. ASSUME NEW t \in 1..k + e.burst
       PROVE  \E r \in 1..l : timeline'[t] = runq[r].pid
  <2>1. CASE t <= k
    <3>1. PICK r \in 1..Len(table) : timeline[t] = runq[r].pid
      BY <1>3, <1>5, <2>1
    <3>2. r \in 1..l /\ timeline'[t] = runq[r].pid
      BY <1>3, <1>7, <2>1, <3>1
    <3>3. QED
      BY <3>2
  <2>2. CASE ~(t <= k)
    <3>1. l \in 1..l /\ timeline'[t] = runq[l].pid
      BY <1>3, <1>7, <2>2
    <3>2. QED
      BY <3>1
  <2>3. QED
    BY <2>1, <2>2
<1>13. \A r \in 1..l : r \in 1..Len(table) \/ r = l
  BY <1>3
<1>14. l <= Len(runq)
  BY <1>2, <1>3
<1>15. \A r \in 1..l : RowTold(r)'
  BY <1>2, <1>10, <1>11, <1>13
<1> HIDE DEF e, row, l
<1>16. QED
  BY <1>1, <1>7, <1>8, <1>12, <1>14, <1>15 DEF Told

LEMMA ToldStep ==
  ASSUME Typed, Mates, Told, [Next]_vars
  PROVE  Told'
<1>1. policy' = policy
  BY DEF Next, vars, FcfsVisit, PassBy, SjfVisit, StcfAppend, StcfInsertLast,
         StcfBreak, NextTick, Play, Overrun, Done
<1>2. CASE policy = "STCF"
  BY <1>1, <1>2 DEF Told
<1>3. CASE FcfsVisit \/ PassBy \/ SjfVisit
  <2>1. CASE policy = "STCF"
    BY <1>2, <2>1
  <2>2. CASE policy # "STCF"
    <3>1. pc = "tick" /\ UNCHANGED <<pc, timeline, table, printed>>
      BY <1>3 DEF FcfsVisit, PassBy, SjfVisit, Visiting
    <3>2. Len(table) = 0 /\ Len(timeline) = 0
      BY <2>2, <3>1 DEF Told
    <3>3. Len(runq') \in Nat
      <4>1. Typed'
        BY TypedStep
      <4>2. QED
        BY <4>1, LenProperties DEF Typed
    <3>4. QED
      BY <3>1, <3>2, <3>3 DEF Told
  <2>3. QED
    BY <2>1, <2>2
<1>4. CASE policy # "STCF" /\ Play
  BY <1>4, ToldPlay
<1>5. CASE /\ UNCHANGED <<runq, timeline, table>> /\ (pc' = "tick" => pc = "tick")
           /\ pc' = "done" => \/ UNCHANGED <<pc, src, printed>>
                              \/ Len(table) = Len(runq) /\ printed' = Shown'
  <2>1. \A r \in 1..Len(table) : RowTold(r) => RowTold(r)'
    BY <1>5 DEF RowTold, End
  <2>2. UNCHANGED <<src, table>> => Shown' = Shown
    BY DEF Shown
  <2>3. QED
    BY <1>1, <1>5, <2>1, <2>2 DEF Told
<1>6. CASE NextTick \/ Overrun \/ UNCHANGED vars
  BY <1>5, <1>6 DEF NextTick, Overrun, vars
<1>7. CASE Done
  <2>1. count.processes = Len(src)
    BY DEF Typed
  <2>2. UNCHANGED <<runq, timeline, table, src>> /\ Len(table) = Len(runq) /\ pc' # "tick"
    BY <1>7 DEF Done
  <2>3. printed' = Shown'
    BY <1>7, <2>1, <2>2 DEF Done, Shown
  <2>4. QED
    BY <1>5, <2>2, <2>3
<1>8. QED
  BY <1>2, <1>3, <1>4, <1>6, <1>7
     DEF Next, StcfAppend, StcfInsertLast, StcfBreak, Visiting

(* The units of a process end where its row says, and are as many as the   *)
(* times of the row differ by.                                             *)
LEMMA UnitsFacts ==
  ASSUME NEW first \in Int, NEW last \in Int, first < last
  PROVE  /\ Cardinality(first + 1..last) = last - first
         /\ Max(first + 1..last) = last
<1>1. first + 1 \in Int
  OBVIOUS
<1>2. Cardinality(first + 1..last) = last - first
  <2> DEFINE low == first + 1
  <2>1. low \in Int /\ low <= last /\ last - low + 1 = last - first
    OBVIOUS
  <2> HIDE DEF low
  <2>2. Cardinality(low..last) = IF low > last THEN 0 ELSE last - low + 1
    BY <2>1, FS_Interval
  <2>3. QED
    BY <2>1, <2>2 DEF low
<1>3. last \in first + 1..last /\ \A t \in first + 1..last : t <= last
  OBVIOUS
<1>4. \A x \in first + 1..last : (\A t \in first + 1..last : x >= t) => x = last
  OBVIOUS
<1>5. QED
  BY <1>2, <1>3, <1>4 DEF Max

LEMMA RowFacts ==
  ASSUME Typed, Mates, Told, policy # "STCF", NEW r \in 1..Len(table)
  PROVE  LET row   == table[r]
             units == {t \in DOMAIN timeline : timeline[t] = row.pid}
             entry == CHOOSE e \in ToSet(src) : e.pid = row.pid
         IN /\ Cardinality(units) = row.turnaround - row.waiting
            /\ Max(units) = End(r) /\ End(r) \in Int
            /\ entry.arr + row.turnaround = End(r) + 1
<1> DEFINE row   == table[r]
           units == {t \in DOMAIN timeline : timeline[t] = row.pid}
           entry == CHOOSE e \in ToSet(src) : e.pid = row.pid
<1>1. /\ DOMAIN table = 1..Len(table) /\ DOMAIN timeline = 1..Len(timeline)
      /\ DOMAIN src = 1..Len(src) /\ Len(table) \in Nat /\ Len(runq) \in Nat
      /\ Len(timeline) \in Nat
  BY LenProperties DEF Typed
<1>2. r \in 1..Len(table) /\ RowTold(r) /\ r \in 1..Len(runq)
  BY <1>1 DEF Told
<1>3. /\ runq[r].burst \in Int /\ runq[r].burst >= 1
  BY <1>2, EntryFacts DEF Mates
<1>4. /\ row.pid = runq[r].pid /\ row.turnaround - row.waiting = runq[r].burst
      /\ End(r) \in 1..Len(timeline) /\ runq[r].burst <= End(r)
      /\ \A t \in 1..Len(timeline) :
           timeline[t] = runq[r].pid <=> End(r) - runq[r].burst < t /\ t <= End(r)
  BY <1>2 DEF RowTold
<1>5. entry.arr = runq[r].arr
  <2>1. /\ row.pid \in 1..Len(src) /\ src[row.pid].pid = row.pid
        /\ src[row.pid].arr = runq[r].arr
        /\ \A n \in 1..Len(src) : src[n].pid = n
    BY <1>2, <1>4 DEF Mates
  <2>2. src[row.pid] \in ToSet(src)
    BY <1>1, <2>1 DEF ToSet
  <2>3. \A e \in ToSet(src) : e.pid = row.pid => e = src[row.pid]
    BY <1>1, <2>1 DEF ToSet
  <2> HIDE DEF row
  <2>4. entry = src[row.pid]
    BY <2>1, <2>2, <2>3
  <2>5. QED
    BY <2>1, <2>4
<1> HIDE DEF row, entry
<1> DEFINE first == End(r) - runq[r].burst
<1>6. first \in Int /\ End(r) \in Int /\ first < End(r) /\ first >= 0
  BY <1>1, <1>3, <1>4
<1>7. units = first + 1..End(r)
  <2>1. units = {t \in 1..Len(timeline) : first < t /\ t <= End(r)}
    BY <1>1, <1>4
  <2> HIDE DEF units, first
  <2>2. QED
    BY <1>1, <1>4, <1>6, <2>1
<1>8. End(r) - first = runq[r].burst
  BY <1>3, <1>6, <1>4
<1> HIDE DEF units, first
<1>9. Cardinality(units) = runq[r].burst /\ Max(units) = End(r)
  BY <1>6, <1>7, <1>8, UnitsFacts
<1>10. entry.arr + row.turnaround = End(r) + 1
  <2>1. entry.arr \in Int /\ row.turnaround \in Int
    <3>1. table[r] \in Rows
      BY <1>2, ElementOfSeq DEF Typed
    <3>2. QED
      BY <1>2, <1>5, <3>1, EntryFacts DEF Rows, row
  <2>2. End(r) = row.turnaround + entry.arr - 1
    BY <1>5 DEF End, row
  <2>3. QED
    BY <2>1, <2>2
<1>11. QED
  BY <1>4, <1>6, <1>9, <1>10 DEF row, units, entry

(* Of the processes of the file, those that are not on the run queue are   *)
(* as many as the source list is longer.                                   *)
LEMMA LeftOutCount ==
  ASSUME Typed, Mates, policy # "STCF"
  PROVE  /\ Cardinality({n \in DOMAIN src : Queued(src[n].pid) = {}})
              = Len(src) - Len(runq)
         /\ Len(runq) <= Len(src)
<1> DEFINE N == Len(src)
           Q == Len(runq)
           R == {n \in 1..N : Queued(src[n].pid) # {}}
           f == [a \in 1..Q |-> runq[a].pid]
<1>1. N \in Nat /\ Q \in Nat /\ DOMAIN src = 1..N /\ DOMAIN runq = 1..Q
  BY LenProperties DEF Typed
<1>2. /\ \A n \in 1..N : src[n].pid = n
      /\ \A a \in 1..Q : runq[a].pid \in 1..N
      /\ \A a, b \in 1..Q : runq[a].pid = runq[b].pid => a = b
  BY DEF Mates
<1>3. \A n \in 1..N : Queued(src[n].pid) = {a \in 1..Q : runq[a].pid = n}
  BY <1>1, <1>2 DEF Queued
<1>4. R = {n \in 1..N : \E a \in 1..Q : runq[a].pid = n}
  BY <1>3
<1> HIDE DEF R
<1>5. f \in Bijection(1..Q, R)
  <2>1. f \in [1..Q -> R]
    BY <1>2, <1>4
  <2>2. \A a, b \in 1..Q : f[a] = f[b] => a = b
    BY <1>2
  <2>3. \A n \in R : \E a \in 1..Q : f[a] = n
    BY <1>4
  <2> HIDE DEF f
  <2>4. QED
    BY <2>1, <2>2, <2>3 DEF Bijection, Injection, Surjection, IsInjective
<1>6. /\ IsFiniteSet(1..N) /\ Cardinality(1..N) = N
      /\ IsFiniteSet(1..Q) /\ Cardinality(1..Q) = Q
  BY <1>1, Numbers
<1>7. Cardinality(R) = Q
  BY <1>5, <1>6, FS_Bijection DEF ExistsBijection
<1>8. R \subseteq 1..N /\ (1..N) \cap R = R
  BY <1>4
<1>9. Cardinality((1..N) \ R) = N - Q
  <2> DEFINE S == 1..N
  <2>1. IsFiniteSet(S) /\ Cardinality(S) = N /\ S \cap R = R
    BY <1>6, <1>8
  <2> HIDE DEF S, N, Q, f
  <2>2. Cardinality(S \ R) = Cardinality(S) - Cardinality(S \cap R)
    BY <2>1, FS_Difference
  <2>3. QED
    BY <1>7, <2>1, <2>2 DEF S
<1>10. {n \in DOMAIN src : Queued(src[n].pid) = {}} = (1..N) \ R
  BY <1>1 DEF R
<1>11. Q <= N
  BY <1>6, <1>7, <1>8, FS_Subset
<1>12. QED
  BY <1>9, <1>10, <1>11

LEMMA ToldFollows ==
  ASSUME Typed, Mates, Told
  PROVE  PrintedAsPlayed
<1> SUFFICES ASSUME policy # "STCF", pc = "done"
             PROVE  PrintedAsPlayed
  BY DEF PrintedAsPlayed
<1> DEFINE lines     == {n \in DOMAIN printed : printed[n] # Junk}
           Units(n)  == {t \in DOMAIN timeline : timeline[t] = printed[n].pid}
           Finish(n) == LET entry == CHOOSE e \in ToSet(src) : e.pid = printed[n].pid
                        IN entry.arr + printed[n].turnaround
           N == Len(src)
           Q == Len(runq)
<1>1. /\ N \in Nat /\ Q \in Nat /\ Q <= N
      /\ Len(table) = Q /\ DOMAIN table = 1..Q /\ printed = Shown
  BY LeftOutCount, LenProperties DEF Typed, Told
<1>2. /\ DOMAIN printed = 1..N
      /\ \A n \in 1..N : printed[n] = IF n \in 1..Q THEN table[n] ELSE Junk
  BY <1>1 DEF Shown
<1>3. \A n \in 1..Q : table[n] # Junk
  <2> TAKE n \in 1..Q
  <2>1. table[n] \in Rows
    BY <1>1, ElementOfSeq DEF Typed
  <2>2. Rows \subseteq [pid : Nat, waiting : Int, turnaround : Int]
    BY CpuSchedAssumption DEF Rows
  <2>3. QED
    BY <2>1, <2>2, CpuSchedAssumption
<1>4. /\ lines = 1..Q /\ DOMAIN printed \ lines = Q + 1..N
      /\ \A n \in 1..Q : printed[n] = table[n]
  <2>1. \A n \in 1..Q : n \in 1..N /\ printed[n] = table[n]
    BY <1>1, <1>2
  <2>2. \A n \in 1..N : printed[n] # Junk <=> n \in 1..Q
    BY <1>2, <1>3
  <2>3. lines = 1..Q
    BY <1>2, <2>1, <2>2
  <2>4. (1..N) \ (1..Q) = Q + 1..N
    BY <1>1
  <2>5. QED
    BY <1>2, <2>1, <2>3, <2>4
<1>5. Cardinality(DOMAIN printed \ lines)
      = Cardinality({n \in DOMAIN src : Queued(src[n].pid) = {}})
  <2>1. Cardinality(Q + 1..N) = N - Q
    <3>1. Q + 1 \in Int /\ N \in Int /\ N - (Q + 1) + 1 = N - Q /\ (Q + 1 > N => N - Q = 0)
      BY <1>1
    <3>2. QED
      BY <3>1, FS_Interval
  <2>2. QED
    BY <1>4, <2>1, LeftOutCount
<1>6. ASSUME NEW n \in 1..Q
      PROVE  /\ Cardinality(Units(n)) = printed[n].turnaround - printed[n].waiting
             /\ Max(Units(n)) = End(n) /\ End(n) \in Int /\ Finish(n) = End(n) + 1
  <2>1. n \in 1..Len(table) /\ printed[n] = table[n]
    BY <1>1, <1>4
  <2>2. QED
    BY <2>1, RowFacts
<1>7. ASSUME NEW m \in 1..Q, NEW n \in 1..Q
      PROVE  Finish(n) - Finish(m) = Max(Units(n)) - Max(Units(m))
  <2> HIDE DEF Finish, Units
  <2>1. QED
    BY <1>6
<1> HIDE DEF Finish, Units, lines
<1>8. /\ \A n \in lines :
           Cardinality(Units(n)) = printed[n].turnaround - printed[n].waiting
      /\ \A m, n \in lines :
           Finish(n) - Finish(m) = Max(Units(n)) - Max(Units(m))
  BY <1>4, <1>6, <1>7
<1>9. QED
  BY <1>5, <1>8 DEF PrintedAsPlayed, Finish, Units, lines

(* For every file, under FCFS and SJF, the table printed tells the same    *)
(* story as the timeline, and has a line that was never written for each   *)
(* process left out (run_simulator, lines 168-197).                        *)
THEOREM OneStory == Spec => []PrintedAsPlayed
<1>1. Books /\ Told /\ [Next]_vars => Told'
  BY ToldStep DEF Books
<1>2. Books /\ Told => PrintedAsPlayed
  BY ToldFollows DEF Books
<1>3. QED
  BY <1>1, <1>2, ToldInit, BooksKept, PTL DEF Spec
=============================================================================
