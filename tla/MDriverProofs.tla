--------------------------- MODULE MDriverProofs ----------------------------
(***************************************************************************)
(* mdriver.c with any package and any number of traces: its verdict (each  *)
(* trace is found valid or counted as exactly one error), its range list,  *)
(* its use of the package's contract, and its two utilization counters.    *)
(* The packages it evaluates have their sections at the end: what keeping  *)
(* the promise of Allocator amounts to, and the package of mm-original.c.  *)
(***************************************************************************)
EXTENDS MDriver, ListLemmas, FiniteSetTheorems, TLAPS

LastTrace == Len(Suite)

Before == phase \in {"libc_valid", "libc_speed"}

Passed == phase \in {"util", "speed", "next", "done"}

(* the traces behind the driver, each found valid or counted as an error *)
IInv ==
  /\ job \in Settings
  /\ trace \in 1..LastTrace
  /\ errors \in Nat
  /\ valid \subseteq 1..trace
  /\ Before => errors = 0 /\ valid = {}
  /\ phase = "valid" => /\ valid \subseteq 1..trace - 1
                        /\ errors + Cardinality(valid) = trace - 1
  /\ Passed => errors + Cardinality(valid) = trace
  /\ phase = "done" => trace = LastTrace
  /\ phase \in {"libc_valid", "libc_speed", "valid", "util", "speed", "next",
                "done", "exited"}
-----------------------------------------------------------------------------
(* A set of traces is finite.                                              *)
LEMMA TracesFinite ==
  ASSUME NEW n \in Nat, NEW S \in SUBSET (1..n)
  PROVE  /\ IsFiniteSet(S) /\ Cardinality(S) \in Nat
         /\ Cardinality(S) = n => S = 1..n
<1>1. /\ IsFiniteSet(1..n)
      /\ Cardinality(1..n) = n
  BY FS_Interval
<1>2. QED
  BY <1>1, FS_Subset, FS_CardinalityType

LEMMA SuiteFacts ==
  ASSUME job \in Settings
  PROVE  /\ LastTrace \in Nat /\ LastTrace >= 1
         /\ DOMAIN Suite = 1..LastTrace
BY MDriverAssumption DEF Suite, LastTrace

LEMMA InitHolds == Init => IInv
<1> SUFFICES ASSUME Init PROVE IInv
  OBVIOUS
<1>1. /\ job \in Settings /\ trace = 1 /\ errors = 0 /\ valid = {}
      /\ phase \in {"libc_valid", "valid"}
  BY DEF Init
<1>2. Cardinality({}) = 0
  BY FS_EmptySet
<1>3. ~Passed /\ phase # "done"
  BY <1>1 DEF Passed
<1>4. 1 \in 1..LastTrace
  BY <1>1, SuiteFacts
<1>5. QED
  BY <1>1, <1>2, <1>3, <1>4 DEF IInv

(***************************************************************************)
(* What the actions do to the verdict.                                     *)
(***************************************************************************)
Stays == UNCHANGED <<job, trace, phase, errors, valid>>

OneError ==
  /\ phase = "valid" /\ phase' = "next"
  /\ errors' = errors + 1 /\ UNCHANGED <<job, trace, valid>>

FoundValid ==
  /\ phase = "valid" /\ phase' = "util"
  /\ valid' = valid \cup {trace} /\ UNCHANGED <<job, trace, errors>>

LaterPhase ==
  /\ \/ phase = "util" /\ phase' = "speed"
     \/ phase = "speed" /\ phase' \in {"speed", "next"}
     \/ phase = "next" /\ trace = LastTrace /\ phase' = "done"
  /\ UNCHANGED <<job, trace, errors, valid>>

OnToNext ==
  /\ phase = "next" /\ phase' = "valid" /\ trace < LastTrace
  /\ trace' = trace + 1 /\ UNCHANGED <<job, errors, valid>>

LibcMoves ==
  /\ Before /\ UNCHANGED <<job, errors, valid>>
  /\ \/ phase' = "libc_speed" /\ trace' = trace
     \/ phase' = "libc_valid" /\ trace < LastTrace /\ trace' = trace + 1
     \/ phase' = "valid" /\ trace' = 1

Exits ==
  /\ phase' = "exited" /\ errors' \in {errors, errors + 1}
  /\ UNCHANGED <<job, trace, valid>>

LEMMA LibcEffect ==
  ASSUME LibcEvaluation
  PROVE  Stays \/ LibcMoves \/ Exits
<1>1. CASE LibcAlloc \/ LibcRealloc \/ LibcFree
  BY <1>1 DEF LibcAlloc, LibcRealloc, LibcFree, Libc, Accept, driver, Stays
<1>2. CASE LibcRefuse
  BY <1>2 DEF LibcRefuse, Exits
<1>3. CASE LibcAgain \/ LibcEnd
  BY <1>3 DEF LibcAgain, LibcEnd, LibcPhase, LibcMoves, Before, LastTrace
<1>4. QED
  BY <1>1, <1>2, <1>3 DEF LibcEvaluation

LEMMA MmEffect ==
  ASSUME MmEvaluation
  PROVE  Stays \/ OneError \/ FoundValid \/ LaterPhase \/ OnToNext \/ Exits
<1>1. ASSUME NEW p \in Addr, ValidMalloc(p)
      PROVE  Stays \/ OneError
  BY <1>1 DEF ValidMalloc, Accept, Complain, driver, Stays, OneError
<1>2. ASSUME NEW p \in Addr, ValidRealloc(p)
      PROVE  Stays \/ OneError
  BY <1>2 DEF ValidRealloc, Accept, Complain, driver, Stays, OneError
<1>3. ASSUME NEW p \in Addr,
             UtilMalloc(p) \/ UtilRealloc(p) \/ SpeedMalloc(p) \/ SpeedRealloc(p)
      PROVE  Stays
  BY <1>3 DEF UtilMalloc, UtilRealloc, SpeedMalloc, SpeedRealloc, Accept,
              driver, Stays
<1>4. CASE ValidFree \/ UtilFree \/ SpeedFree
  BY <1>4 DEF ValidFree, UtilFree, SpeedFree, Accept, driver, Stays
<1>5. CASE Refuse
  BY <1>5 DEF Refuse, Complain, OneError, Exits
<1>6. CASE ValidEnd
  BY <1>6 DEF ValidEnd, Begin, FoundValid
<1>7. CASE UtilEnd \/ SpeedEnd \/ Finish
  BY <1>7 DEF UtilEnd, SpeedEnd, Finish, Begin, LaterPhase, LastTrace
<1>8. CASE NextTrace
  BY <1>8 DEF NextTrace, Begin, OnToNext, LastTrace
<1>9. QED
  BY <1>1, <1>2, <1>3, <1>4, <1>5, <1>6, <1>7, <1>8 DEF MmEvaluation

LEMMA StepKeeps == IInv /\ [Next]_vars => IInv'
<1> SUFFICES ASSUME IInv, [Next]_vars PROVE IInv'
  OBVIOUS
<1>1. /\ job \in Settings /\ LastTrace \in Nat /\ LastTrace >= 1 /\ trace \in 1..LastTrace
      /\ errors \in Nat /\ valid \subseteq 1..trace
  BY SuiteFacts DEF IInv
<1>2. job' = job => LastTrace' = LastTrace
  BY DEF Suite, LastTrace
<1>3. Cardinality(valid) \in Nat /\ IsFiniteSet(valid)
  BY <1>1, TracesFinite
<1>4. CASE Stays
  BY <1>1, <1>2, <1>4 DEF IInv, Stays, Before, Passed
<1>5. CASE OneError
  BY <1>1, <1>2, <1>3, <1>5 DEF IInv, OneError, Before, Passed
<1>6. CASE FoundValid
  <2>1. trace \notin valid
    BY <1>1, <1>6 DEF IInv, FoundValid
  <2>2. Cardinality(valid') = Cardinality(valid) + 1
    BY <1>3, <1>6, <2>1, FS_AddElement DEF FoundValid
  <2>3. QED
    BY <1>1, <1>2, <1>3, <1>6, <2>2 DEF IInv, FoundValid, Before, Passed
<1>7. CASE LaterPhase
  BY <1>1, <1>2, <1>7 DEF IInv, LaterPhase, Before, Passed
<1>8. CASE OnToNext
  BY <1>1, <1>2, <1>3, <1>8 DEF IInv, OnToNext, Before, Passed
<1>9. CASE LibcMoves
  <2>1. Cardinality({}) = 0
    BY FS_EmptySet
  <2>2. QED
    <3>1. /\ errors' = 0 /\ valid' = {} /\ job' = job
          /\ phase' \in {"libc_speed", "libc_valid", "valid"}
          /\ trace' \in 1..LastTrace
          /\ phase' = "valid" => trace' = 1
      BY <1>1, <1>9 DEF IInv, LibcMoves
    <3>2. ~Passed' /\ phase' # "done"
      BY <3>1 DEF Passed
    <3>3. QED
      BY <1>1, <1>2, <2>1, <3>1, <3>2 DEF IInv
<1>10. CASE Exits
  <2>1. /\ job' = job /\ trace' = trace /\ valid' = valid /\ phase' = "exited"
        /\ errors' \in Nat
    BY <1>1, <1>10 DEF Exits
  <2>2. ~Before' /\ ~Passed' /\ phase' # "valid" /\ phase' # "done"
    BY <2>1 DEF Before, Passed
  <2>3. QED
    BY <1>1, <1>2, <2>1, <2>2 DEF IInv
<1>11. CASE UNCHANGED vars
  BY <1>4, <1>11 DEF vars, mmvars, driver, Stays
<1>12. QED
  BY <1>4, <1>5, <1>6, <1>7, <1>8, <1>9, <1>10, <1>11, LibcEffect, MmEffect
     DEF Next

(* For any package, honest or not, and any traces: the performance index   *)
(* is printed only if all traces are valid, and a trace that is not is one *)
(* error, no more and no less (lines 277-346 and 990-1000).                *)
THEOREM VerdictIsSound == Spec => []IndexOnlyIfAllValid
<1>1. IInv => IndexOnlyIfAllValid
  <2> SUFFICES ASSUME IInv PROVE IndexOnlyIfAllValid
    OBVIOUS
  <2>1. /\ LastTrace \in Nat /\ DOMAIN Suite = 1..LastTrace
    BY SuiteFacts DEF IInv
  <2>2. CASE phase = "done"
    <3>1. /\ valid \subseteq 1..LastTrace /\ errors \in Nat
          /\ errors + Cardinality(valid) = LastTrace
      BY <2>2 DEF IInv, Passed
    <3>2. /\ Cardinality(valid) \in Nat
          /\ Cardinality(valid) = LastTrace => valid = 1..LastTrace
      BY <2>1, <3>1, TracesFinite
    <3>3. QED
      BY <2>1, <3>1, <3>2 DEF IndexOnlyIfAllValid, PrintsIndex
  <2>3. CASE phase # "done"
    BY <2>3 DEF IndexOnlyIfAllValid, PrintsIndex
  <2>4. QED
    BY <2>2, <2>3
<1>2. QED
  BY <1>1, InitHolds, StepKeeps, PTL DEF Spec
-----------------------------------------------------------------------------
(***************************************************************************)
(* The range list, for any package and any well-formed traces.             *)
(***************************************************************************)
Ranges == {r \in [lo : Nat, hi : Nat] : r.lo <= r.hi}

Nested(rs) ==
  \A j, k \in DOMAIN rs :
    j < k /\ Overlaps(rs[k], rs[j]) => rs[j].lo < rs[k].lo /\ rs[k].hi < rs[j].hi

Payload(id) == Extent(blocks[id], sizes[id])

Payloads == {Payload(id) : id \in LiveIds}

(* eval_mm_valid's tables are those of the trace's live requests *)
TablesOK ==
  /\ i \in Nat \ {0}
  /\ DOMAIN blocks = DOMAIN sizes /\ LiveIds \subseteq DOMAIN blocks
  /\ \A id \in LiveIds : blocks[id] \in Nat /\ sizes[id] \in Nat \ {0}
  /\ \A id \in LiveIds : blocks[id] % Alignment = 0
  /\ \A a, b \in LiveIds : blocks[a] = blocks[b] => a = b
  /\ Lists(ranges, Payloads)

RInv ==
  /\ ranges \in Seq(Ranges) /\ Nested(ranges)
  /\ Before => ranges = << >> /\ sizes = << >>
  /\ phase = "valid" => TablesOK
-----------------------------------------------------------------------------
(* What the next operation does to the set of live requests.               *)
LEMMA LiveStep ==
  ASSUME NEW ops, NEW n \in Nat \ {0}
  PROVE  LiveBefore(ops, n + 1) =
           IF ops[n].type = "free" THEN LiveBefore(ops, n) \ {ops[n].id}
           ELSE LiveBefore(ops, n) \cup {ops[n].id}
<1> DEFINE Alive(m, k) ==
             /\ ops[k].type # "free"
             /\ \A l \in k + 1..m - 1 : ops[l].id = ops[k].id => ops[l].type # "free"
<1>1. \A m, x : x \in LiveBefore(ops, m) <=>
                  \E k \in 1..m - 1 : Alive(m, k) /\ ops[k].id = x
  BY Zenon DEF LiveBefore
<1>2. \A k \in 1..n - 1 :
        Alive(n + 1, k) <=>
          Alive(n, k) /\ (ops[n].id = ops[k].id => ops[n].type # "free")
  <2>1. \A k \in 1..n - 1 : k + 1..(n + 1) - 1 = (k + 1..n - 1) \cup {n}
    OBVIOUS
  <2>2. QED
    BY <2>1, Zenon
<1>3. Alive(n + 1, n) <=> ops[n].type # "free"
  <2>1. n + 1..(n + 1) - 1 = {}
    OBVIOUS
  <2>2. QED
    BY <2>1, Zenon
<1>4. 1..(n + 1) - 1 = (1..n - 1) \cup {n}
  OBVIOUS
<1> HIDE DEF Alive
<1>5. \A x : x \in LiveBefore(ops, n + 1) <=>
        \/ \E k \in 1..n - 1 : Alive(n + 1, k) /\ ops[k].id = x
        \/ Alive(n + 1, n) /\ ops[n].id = x
  BY <1>1, <1>4, Zenon
<1>6. CASE ops[n].type = "free"
  <2>1. \A k \in 1..n - 1 : Alive(n + 1, k) <=>
                              Alive(n, k) /\ ops[k].id # ops[n].id
    BY <1>2, <1>6, Zenon
  <2>2. \A x : x \in LiveBefore(ops, n + 1) <=>
               \E k \in 1..n - 1 : Alive(n + 1, k) /\ ops[k].id = x
    BY <1>3, <1>5, <1>6, Zenon
  <2>3. \A x : x \in LiveBefore(ops, n + 1) =>
               x \in LiveBefore(ops, n) /\ x # ops[n].id
    BY <1>1, <2>1, <2>2, Zenon
  <2>4. \A x : x \in LiveBefore(ops, n) /\ x # ops[n].id =>
               x \in LiveBefore(ops, n + 1)
    <3> SUFFICES ASSUME NEW x, x \in LiveBefore(ops, n), x # ops[n].id
                 PROVE  x \in LiveBefore(ops, n + 1)
      OBVIOUS
    <3>1. PICK k \in 1..n - 1 : Alive(n, k) /\ ops[k].id = x
      BY <1>1, Zenon
    <3>2. Alive(n + 1, k)
      BY <2>1, <3>1, Zenon
    <3>3. QED
      BY <2>2, <3>1, <3>2, Zenon
  <2>5. QED
    BY <1>6, <2>3, <2>4, Zenon
<1>7. CASE ops[n].type # "free"
  <2>1. \A k \in 1..n - 1 : Alive(n + 1, k) <=> Alive(n, k)
    BY <1>2, <1>7, Zenon
  <2>2. \A x : x \in LiveBefore(ops, n + 1) <=>
               \/ \E k \in 1..n - 1 : Alive(n + 1, k) /\ ops[k].id = x
               \/ ops[n].id = x
    BY <1>3, <1>5, <1>7, Zenon
  <2>3. \A x : x \in LiveBefore(ops, n + 1) <=>
               x \in LiveBefore(ops, n) \/ x = ops[n].id
    BY <1>1, <2>1, <2>2, Zenon
  <2>4. QED
    BY <1>7, <2>3, Zenon
<1>8. QED
  BY <1>6, <1>7

LEMMA LiveAtStart ==
  ASSUME NEW ops
  PROVE  LiveBefore(ops, 1) = {}
<1>1. 1..1 - 1 = {}
  OBVIOUS
<1>2. QED
  BY <1>1, Zenon DEF LiveBefore

(* A range that add_range does not object to has no end in an old one, and *)
(* is put before them: an old one can only be enclosed.                    *)
LEMMA AddKeeps ==
  ASSUME NEW rs \in Seq(Ranges), Nested(rs), NEW r \in Ranges,
         Objection(rs, r) = "none"
  PROVE  /\ <<r>> \o rs \in Seq(Ranges) /\ Nested(<<r>> \o rs)
         /\ \A j \in DOMAIN rs : rs[j].lo # r.lo
         /\ r.lo % Alignment = 0
<1>0. r.lo % Alignment = 0
  BY Zenon DEF Objection
<1>1. \A j \in DOMAIN rs : ~Overlaps(r, rs[j])
  BY Zenon DEF Objection
<1>2. Len(rs) \in Nat /\ DOMAIN rs = 1..Len(rs)
  OBVIOUS
<1>3. \A j \in 1..Len(rs) : rs[j] \in Ranges
  BY <1>2
<1> DEFINE new == <<r>> \o rs
<1>4. /\ new \in Seq(Ranges) /\ Len(new) = Len(rs) + 1 /\ new[1] = r
      /\ DOMAIN new = 1..Len(rs) + 1
      /\ \A j \in 1..Len(rs) : new[j + 1] = rs[j]
  OBVIOUS
<1> HIDE DEF new
<1>5. ASSUME NEW j \in DOMAIN new, NEW k \in DOMAIN new, j < k,
             Overlaps(new[k], new[j])
      PROVE  new[j].lo < new[k].lo /\ new[k].hi < new[j].hi
  <2>1. k - 1 \in 1..Len(rs) /\ new[k] = rs[k - 1]
    <3>1. k - 1 \in 1..Len(rs) /\ (k - 1) + 1 = k
      BY <1>2, <1>4, <1>5
    <3>2. QED
      BY <1>4, <3>1
  <2>2. CASE j = 1
    <3>1. ~Overlaps(r, rs[k - 1]) /\ Overlaps(rs[k - 1], r) /\ rs[k - 1] \in Ranges
      BY <1>1, <1>2, <1>3, <1>4, <1>5, <2>1, <2>2
    <3>2. \A o \in Ranges : ~Overlaps(r, o) /\ Overlaps(o, r) =>
                                r.lo < o.lo /\ o.hi < r.hi
      BY DEF Overlaps, Ranges
    <3>3. r.lo < rs[k - 1].lo /\ rs[k - 1].hi < r.hi
      BY <3>1, <3>2, Zenon
    <3>4. QED
      BY <1>4, <2>1, <2>2, <3>3, Zenon
  <2>3. CASE j # 1
    <3>1. j - 1 \in 1..Len(rs) /\ (j - 1) + 1 = j /\ j - 1 < k - 1
      BY <1>2, <1>4, <1>5, <2>3
    <3>2. new[j] = rs[j - 1]
      BY <1>4, <3>1
    <3>3. QED
      BY <1>2, <1>5, <2>1, <3>1, <3>2 DEF Nested
  <2>4. QED
    BY <2>2, <2>3
<1>6. ASSUME NEW j \in DOMAIN rs
      PROVE  rs[j].lo # r.lo
  <2>1. ~Overlaps(r, rs[j]) /\ rs[j] \in Ranges
    BY <1>1, <1>2, <1>3
  <2>2. QED
    BY <2>1 DEF Overlaps, Ranges
<1>7. QED
  BY <1>0, <1>4, <1>5, <1>6 DEF Nested, new

(* remove_range takes out the one record that begins at the address.       *)
LEMMA RemoveKeeps ==
  ASSUME NEW rs \in Seq(Ranges), Nested(rs), NEW F, Lists(rs, F), NEW e \in F,
         \A f \in F : f.lo = e.lo => f = e
  PROVE  /\ RemoveRange(rs, e.lo) \in Seq(Ranges) /\ Nested(RemoveRange(rs, e.lo))
         /\ Lists(RemoveRange(rs, e.lo), F \ {e})
<1>1. Len(rs) \in Nat /\ DOMAIN rs = 1..Len(rs)
  OBVIOUS
<1>2. PICK k \in DOMAIN rs : rs[k] = e
  BY DEF Lists
<1>3. \A j \in 1..Len(rs) : rs[j].lo = e.lo <=> j = k
  BY <1>1, <1>2, Zenon DEF Lists
<1>4. {j \in 1..Len(rs) : rs[j].lo = e.lo} = {k}
  BY <1>1, <1>2, <1>3
<1>5. Min({k}) = k
  <2>1. k \in Int
    BY <1>1
  <2>2. QED
    BY <2>1 DEF Min
<1>6. RemoveRange(rs, e.lo) = RemoveAt(rs, k)
  <2>1. SelectInSeq(rs, LAMBDA r : r.lo = e.lo) = k
    BY <1>4, <1>5, Zenon DEF SelectInSeq
  <2>2. \E j \in 1..Len(rs) : rs[j].lo = e.lo
    BY <1>1, <1>2
  <2>3. QED
    BY <2>1, <2>2, Zenon DEF RemoveRange, RemoveFirstMatch
<1>7. Without(rs, e) = RemoveAt(rs, k)
  <2>1. (CHOOSE j \in DOMAIN rs : rs[j] = e) = k
    BY <1>2, Zenon DEF Lists
  <2>2. QED
    BY <2>1, Zenon DEF Without
<1>8. /\ RemoveAt(rs, k) \in Seq(Ranges)
      /\ Lists(RemoveAt(rs, k), F \ {e})
  BY <1>7, WithoutFacts
<1>9. Nested(RemoveAt(rs, k))
  <2> DEFINE new == RemoveAt(rs, k)
  <2>1. /\ Len(new) = Len(rs) - 1 /\ DOMAIN new = 1..Len(rs) - 1
        /\ \A j \in 1..Len(rs) - 1 : new[j] = IF j < k THEN rs[j] ELSE rs[j + 1]
    <3>1. k \in 1..Len(rs)
      BY <1>1
    <3>2. /\ new \in Seq(Ranges) /\ Len(new) = Len(rs) - 1
          /\ \A j \in 1..Len(rs) - 1 : new[j] = IF j < k THEN rs[j] ELSE rs[j + 1]
      BY <3>1, RemoveAtFacts
    <3> HIDE DEF new
    <3>3. DOMAIN new = 1..Len(rs) - 1
      BY <3>2
    <3>4. QED
      BY <3>2, <3>3
  <2> HIDE DEF new
  <2>2. ASSUME NEW j \in DOMAIN new, NEW l \in DOMAIN new, j < l,
               Overlaps(new[l], new[j])
        PROVE  new[j].lo < new[l].lo /\ new[l].hi < new[j].hi
    <3>1. PICK a \in DOMAIN rs, b \in DOMAIN rs :
            a < b /\ new[j] = rs[a] /\ new[l] = rs[b]
      <4> DEFINE a == IF j < k THEN j ELSE j + 1
                 b == IF l < k THEN l ELSE l + 1
      <4>1. a \in DOMAIN rs /\ b \in DOMAIN rs /\ a < b
        BY <1>1, <2>1, <2>2
      <4>2. new[j] = rs[a] /\ new[l] = rs[b]
        BY <2>1
      <4>3. QED
        BY <4>1, <4>2
    <3>2. QED
      BY <2>2, <3>1 DEF Nested
  <2>3. QED
    BY <2>2 DEF Nested, new
<1>10. QED
  BY <1>6, <1>8, <1>9
-----------------------------------------------------------------------------
LEMMA ExtentFacts ==
  ASSUME NEW p \in Nat, NEW n \in Nat \ {0}
  PROVE  Extent(p, n) \in Ranges /\ Extent(p, n).lo = p
BY DEF Extent, Ranges

(* The operation the driver is at names a live request unless it is alloc. *)
LEMMA OpFacts ==
  ASSUME IInv, NEW type, AtOp(type)
  PROVE  /\ Op.type = type
         /\ type = "alloc" <=> Op.id \notin LiveIds
         /\ type # "free" => Op.size \in Nat \ {0}
<1>1. job \in Settings /\ trace \in DOMAIN Suite
  BY SuiteFacts DEF IInv
<1>2. i \in DOMAIN Suite[trace] /\ Op.type = type
  BY DEF AtOp
<1>3. WellFormed(Suite[trace])
  BY <1>1, MDriverAssumption, Zenon DEF Suite
<1>4. Op \in Ops(Suite)
  <2>1. Op \in ToSet(Suite[trace])
    BY <1>2 DEF ToSet, Op
  <2>2. ToSet(Suite[trace]) \in {ToSet(Suite[t]) : t \in DOMAIN Suite}
    BY <1>1
  <2>3. QED
    BY <2>1, <2>2 DEF Ops
<1>5. Op.type # "free" => Op.size \in Nat \ {0}
  BY <1>1, <1>4, MDriverAssumption, Zenon DEF Suite
<1>6. QED
  BY <1>2, <1>3, <1>5, Zenon DEF WellFormed, Op, LiveIds

LEMMA LiveAfter ==
  ASSUME i \in Nat \ {0}, Accept
  PROVE  LiveIds' = IF Op.type = "free" THEN LiveIds \ {Op.id}
                    ELSE LiveIds \cup {Op.id}
<1>1. i' = i + 1 /\ Suite' = Suite /\ trace' = trace
  BY DEF Accept, driver, Suite
<1>2. LiveIds' = LiveBefore(Suite[trace], i + 1)
  BY <1>1, Zenon DEF LiveIds
<1>3. QED
  BY <1>2, LiveStep DEF LiveIds, Op

(* malloc and realloc enter what add_range has accepted.                   *)
LEMMA EnterKeeps ==
  ASSUME TablesOK, NEW id, NEW p \in Nat, NEW n \in Nat \ {0},
         NEW rs \in Seq(Ranges), Nested(rs),
         Lists(rs, {Payload(x) : x \in LiveIds \ {id}}),
         Objection(rs, Extent(p, n)) = "none",
         ranges' = <<Extent(p, n)>> \o rs,
         blocks' = Store(blocks, id, p), sizes' = Store(sizes, id, n),
         LiveIds' = LiveIds \cup {id}, i' = i + 1
  PROVE  ranges' \in Seq(Ranges) /\ Nested(ranges') /\ TablesOK'
<1> DEFINE r == Extent(p, n)
           F == {Payload(x) : x \in LiveIds \ {id}}
<1>1. r \in Ranges /\ r.lo = p
  BY ExtentFacts
<1>2. /\ ranges' \in Seq(Ranges) /\ Nested(ranges')
      /\ \A j \in DOMAIN rs : rs[j].lo # p
      /\ p % Alignment = 0
  BY <1>1, AddKeeps
<1>3. /\ DOMAIN blocks = DOMAIN sizes /\ LiveIds \subseteq DOMAIN blocks
      /\ \A x \in LiveIds : blocks[x] \in Nat /\ sizes[x] \in Nat \ {0}
      /\ \A x \in LiveIds : blocks[x] % Alignment = 0
      /\ \A a, b \in LiveIds : blocks[a] = blocks[b] => a = b
      /\ i \in Nat \ {0}
  BY Zenon DEF TablesOK
<1>4. /\ DOMAIN blocks' = DOMAIN blocks \cup {id}
      /\ DOMAIN sizes' = DOMAIN sizes \cup {id}
      /\ blocks'[id] = p /\ sizes'[id] = n
      /\ \A x \in LiveIds \ {id} : blocks'[x] = blocks[x] /\ sizes'[x] = sizes[x]
  <2>1. /\ DOMAIN blocks' = DOMAIN blocks \cup {id} /\ blocks'[id] = p
        /\ \A x \in DOMAIN blocks : x # id => blocks'[x] = blocks[x]
    BY DEF Store
  <2>2. /\ DOMAIN sizes' = DOMAIN sizes \cup {id} /\ sizes'[id] = n
        /\ \A x \in DOMAIN sizes : x # id => sizes'[x] = sizes[x]
    BY DEF Store
  <2>3. QED
    BY <1>3, <2>1, <2>2
<1>5. \A x \in LiveIds \ {id} : blocks[x] # p
  <2> SUFFICES ASSUME NEW x \in LiveIds \ {id} PROVE blocks[x] # p
    OBVIOUS
  <2>1. Payload(x) \in F /\ Payload(x).lo = blocks[x]
    BY <1>3, ExtentFacts DEF Payload
  <2>2. PICK j \in DOMAIN rs : rs[j] = Payload(x)
    BY <2>1, Zenon DEF Lists
  <2>3. QED
    BY <1>2, <2>1, <2>2
<1>6. r \notin F
  <2>1. \A x \in LiveIds \ {id} : Payload(x).lo # p
    BY <1>3, <1>5, ExtentFacts DEF Payload
  <2>2. QED
    BY <1>1, <2>1, Zenon
<1>7. Payloads' = F \cup {r}
  <2>1. \A x \in LiveIds \ {id} : Extent(blocks'[x], sizes'[x]) = Payload(x)
    BY <1>4, Zenon DEF Payload
  <2>2. Extent(blocks'[id], sizes'[id]) = r
    BY <1>4, Zenon
  <2>3. Payloads' = {Extent(blocks'[x], sizes'[x]) : x \in LiveIds \cup {id}}
    BY Zenon DEF Payloads, Payload
  <2>4. QED
    BY <2>1, <2>2, <2>3
<1>8. Lists(ranges', Payloads')
  <2> HIDE DEF F, r
  <2>1. Lists(rs, F)
    BY Zenon DEF F
  <2>2. Lists(<<r>> \o rs, F \cup {r})
    BY <1>1, <1>6, <2>1, ConsFacts
  <2>3. QED
    BY <1>7, <2>2, Zenon DEF r
<1>9. /\ LiveIds' \subseteq DOMAIN blocks' /\ DOMAIN blocks' = DOMAIN sizes'
      /\ \A x \in LiveIds' : blocks'[x] \in Nat /\ sizes'[x] \in Nat \ {0}
      /\ \A a, b \in LiveIds' : blocks'[a] = blocks'[b] => a = b
  BY <1>3, <1>4, <1>5
<1>10. \A x \in LiveIds' : blocks'[x] % Alignment = 0
  BY <1>2, <1>3, <1>4
<1>11. i' \in Nat \ {0}
  BY <1>3
<1>12. TablesOK'
  BY <1>8, <1>9, <1>10, <1>11, Zenon DEF TablesOK
<1>13. QED
  BY <1>2, <1>12, Zenon

(* free and realloc take the payload of their request out of the list.     *)
LEMMA LeaveKeeps ==
  ASSUME TablesOK, ranges \in Seq(Ranges), Nested(ranges), NEW id \in LiveIds
  PROVE  LET rest == RemoveRange(ranges, blocks[id])
         IN  /\ rest \in Seq(Ranges) /\ Nested(rest)
             /\ Lists(rest, {Payload(x) : x \in LiveIds \ {id}})
<1> DEFINE e == Payload(id)
           rest == RemoveRange(ranges, blocks[id])
<1>1. \A x \in LiveIds : Payload(x).lo = blocks[x]
  BY ExtentFacts, Zenon DEF TablesOK, Payload
<1>2. e \in Payloads /\ e.lo = blocks[id]
  BY <1>1, Zenon DEF Payloads
<1>3. \A f \in Payloads : f.lo = e.lo => f = e
  <2>1. ASSUME NEW x \in LiveIds, Payload(x).lo = e.lo
        PROVE  Payload(x) = e
    <3>1. blocks[x] = blocks[id]
      BY <1>1, <1>2, <2>1, Zenon
    <3>2. x = id
      BY <3>1, Zenon DEF TablesOK
    <3>3. QED
      BY <3>2
  <2>2. QED
    BY <2>1, Zenon DEF Payloads
<1>4. {Payload(x) : x \in LiveIds \ {id}} = Payloads \ {e}
  <2>1. \A x \in LiveIds \ {id} : Payload(x) # e
    <3>1. \A x \in LiveIds \ {id} : x \in LiveIds /\ blocks[x] # blocks[id]
      BY Zenon DEF TablesOK
    <3>2. QED
      BY <1>1, <1>2, <3>1, Zenon
  <2>2. QED
    BY <2>1, SMT DEF Payloads
<1> HIDE DEF e
<1>5. Lists(ranges, Payloads)
  BY Zenon DEF TablesOK
<1>6. /\ RemoveRange(ranges, e.lo) \in Seq(Ranges)
      /\ Nested(RemoveRange(ranges, e.lo))
      /\ Lists(RemoveRange(ranges, e.lo), Payloads \ {e})
  BY <1>2, <1>3, <1>5, RemoveKeeps
<1>7. QED
  BY <1>2, <1>4, <1>6, Zenon
-----------------------------------------------------------------------------
(***************************************************************************)
(* The steps.  Outside eval_mm_valid the list is left alone or cleared.    *)
(***************************************************************************)
LeavesList ==
  ranges' = ranges /\ phase' # "valid" /\ (Before' => Before /\ sizes' = sizes)

StartsTrace ==
  /\ i' = 1 /\ phase' = "valid"
  /\ ranges' = << >> /\ blocks' = << >> /\ sizes' = << >>

LEMMA StartOK ==
  ASSUME StartsTrace
  PROVE  RInv'
<1>1. LiveIds' = {} /\ Payloads' = {}
  <2>1. LiveIds' = {}
    BY LiveAtStart DEF LiveIds, StartsTrace
  <2>2. QED
    BY <2>1 DEF Payloads
<1>2. /\ << >> \in Seq(Ranges) /\ DOMAIN << >> = {}
  OBVIOUS
<1>3. Nested(<< >>) /\ Lists(<< >>, {})
  BY <1>2 DEF Nested, Lists
<1>4. TablesOK'
  BY <1>1, <1>2, <1>3 DEF TablesOK, StartsTrace
<1>5. QED
  BY <1>2, <1>3, <1>4 DEF RInv, StartsTrace, Before

LEMMA MallocKeeps ==
  ASSUME IInv, RInv, NEW p \in Addr, ValidMalloc(p)
  PROVE  RInv'
<1>1. /\ phase = "valid" /\ AtOp("alloc") /\ TablesOK
      /\ ranges \in Seq(Ranges) /\ Nested(ranges)
  BY Zenon DEF ValidMalloc, RInv
<1>2. CASE Objection(ranges, Extent(p, Op.size)) # "none"
  <2>1. ranges' = ranges /\ phase' = "next"
    BY <1>2, Zenon DEF ValidMalloc, Complain
  <2>2. QED
    BY <1>1, <2>1 DEF RInv, Before
<1>3. CASE Objection(ranges, Extent(p, Op.size)) = "none"
  <2>1. /\ Accept /\ ranges' = <<Extent(p, Op.size)>> \o ranges
        /\ blocks' = Store(blocks, Op.id, p) /\ sizes' = Store(sizes, Op.id, Op.size)
    BY <1>3, Zenon DEF ValidMalloc
  <2>2. Op.id \notin LiveIds /\ Op.size \in Nat \ {0} /\ Op.type = "alloc" /\ p \in Nat
    BY <1>1, OpFacts, MDriverAssumption
  <2>3. LiveIds' = LiveIds \cup {Op.id} /\ i' = i + 1
    BY <1>1, <2>1, <2>2, LiveAfter DEF TablesOK, Accept
  <2>4. Lists(ranges, {Payload(x) : x \in LiveIds \ {Op.id}})
    <3>1. LiveIds \ {Op.id} = LiveIds
      BY <2>2
    <3>2. QED
      BY <1>1, <3>1, Zenon DEF TablesOK, Payloads
  <2>5. ranges' \in Seq(Ranges) /\ Nested(ranges') /\ TablesOK'
    BY <1>1, <1>3, <2>1, <2>2, <2>3, <2>4, EnterKeeps
  <2>6. phase' = "valid"
    BY <1>1, <2>1 DEF Accept, driver
  <2>7. QED
    BY <2>5, <2>6 DEF RInv, Before
<1>4. QED
  BY <1>2, <1>3

LEMMA ReallocKeeps ==
  ASSUME IInv, RInv, NEW q \in Addr, ValidRealloc(q)
  PROVE  RInv'
<1> DEFINE r == Extent(q, Op.size)
           rest == RemoveRange(ranges, blocks[Op.id])
<1>1. /\ phase = "valid" /\ AtOp("realloc") /\ TablesOK
      /\ ranges \in Seq(Ranges) /\ Nested(ranges)
  BY Zenon DEF ValidRealloc, RInv
<1>2. Op.id \in LiveIds /\ Op.size \in Nat \ {0} /\ Op.type = "realloc" /\ q \in Nat
  BY <1>1, OpFacts, MDriverAssumption
<1>3. /\ rest \in Seq(Ranges) /\ Nested(rest)
      /\ Lists(rest, {Payload(x) : x \in LiveIds \ {Op.id}})
  BY <1>1, <1>2, LeaveKeeps
<1>4. /\ ranges' = IF Objection(rest, r) = "none" THEN <<r>> \o rest ELSE rest
      /\ \/ phase' = "next"
         \/ /\ Objection(rest, r) = "none" /\ Accept
            /\ blocks' = Store(blocks, Op.id, q) /\ sizes' = Store(sizes, Op.id, Op.size)
  BY Zenon DEF ValidRealloc, Complain
<1>5. CASE phase' = "next"
  <2>1. r \in Ranges
    BY <1>2, ExtentFacts
  <2>2. Objection(rest, r) = "none" =>
          <<r>> \o rest \in Seq(Ranges) /\ Nested(<<r>> \o rest)
    <3> HIDE DEF r, rest
    <3>1. QED
      BY <1>3, <2>1, AddKeeps
  <2>3. ranges' \in Seq(Ranges) /\ Nested(ranges')
    BY <1>3, <1>4, <2>2, Zenon
  <2>4. QED
    BY <1>5, <2>3 DEF RInv, Before
<1>6. CASE phase' # "next"
  <2>1. /\ Objection(rest, r) = "none" /\ Accept /\ ranges' = <<r>> \o rest
        /\ blocks' = Store(blocks, Op.id, q) /\ sizes' = Store(sizes, Op.id, Op.size)
    BY <1>4, <1>6, Zenon
  <2>2. LiveIds' = LiveIds \cup {Op.id} /\ i' = i + 1
    BY <1>1, <1>2, <2>1, LiveAfter DEF TablesOK, Accept
  <2>3. ranges' \in Seq(Ranges) /\ Nested(ranges') /\ TablesOK'
    BY <1>1, <1>2, <1>3, <2>1, <2>2, EnterKeeps
  <2>4. phase' = "valid"
    BY <1>1, <2>1 DEF Accept, driver
  <2>5. QED
    BY <2>3, <2>4 DEF RInv, Before
<1>7. QED
  BY <1>5, <1>6

LEMMA FreeKeeps ==
  ASSUME IInv, RInv, ValidFree
  PROVE  RInv'
<1>1. /\ phase = "valid" /\ AtOp("free") /\ TablesOK /\ Accept
      /\ ranges \in Seq(Ranges) /\ Nested(ranges)
      /\ ranges' = RemoveRange(ranges, blocks[Op.id])
      /\ blocks' = blocks /\ sizes' = sizes
  BY Zenon DEF ValidFree, RInv
<1>2. Op.id \in LiveIds /\ Op.type = "free"
  BY <1>1, OpFacts
<1>3. /\ ranges' \in Seq(Ranges) /\ Nested(ranges')
      /\ Lists(ranges', {Payload(x) : x \in LiveIds \ {Op.id}})
  BY <1>1, <1>2, LeaveKeeps
<1>4. LiveIds' = LiveIds \ {Op.id} /\ i' = i + 1
  BY <1>1, <1>2, LiveAfter DEF TablesOK, Accept
<1>5. Payloads' = {Payload(x) : x \in LiveIds \ {Op.id}}
  BY <1>1, <1>4, Zenon DEF Payloads, Payload
<1>6. TablesOK'
  BY <1>1, <1>3, <1>4, <1>5 DEF TablesOK
<1>7. phase' = "valid"
  BY <1>1 DEF Accept, driver
<1>8. QED
  BY <1>3, <1>6, <1>7 DEF RInv, Before

LEMMA OthersKeep ==
  ASSUME RInv, LeavesList
  PROVE  RInv'
BY DEF RInv, LeavesList

LEMMA ListKeeps == IInv /\ RInv /\ [Next]_vars => RInv'
<1> SUFFICES ASSUME IInv, RInv, [Next]_vars PROVE RInv'
  OBVIOUS
<1>1. CASE LibcEvaluation
  <2>1. CASE LibcEnd /\ trace = LastTrace
    <3>1. StartsTrace
      BY <1>1, <2>1 DEF LibcEnd, RInv, Before, StartsTrace, LastTrace
    <3>2. QED
      BY <3>1, StartOK
  <2>2. CASE LibcEnd /\ trace # LastTrace
    <3>1. trace < LastTrace
      BY <2>2, SuiteFacts DEF IInv
    <3>2. LeavesList
      BY <2>2, <3>1 DEF LibcEnd, LeavesList, Before, LastTrace
    <3>3. QED
      BY <3>2, OthersKeep
  <2>3. CASE LibcAlloc \/ LibcRealloc \/ LibcFree
    <3>1. LeavesList
      BY <2>3 DEF LibcAlloc, LibcRealloc, LibcFree, Libc, LibcPhase, Accept, driver,
                  LeavesList, Before
    <3>2. QED
      BY <3>1, OthersKeep
  <2>4. CASE LibcRefuse \/ LibcAgain
    <3>1. LeavesList
      BY <2>4 DEF LibcRefuse, LibcAgain, LibcPhase, LeavesList, Before
    <3>2. QED
      BY <3>1, OthersKeep
  <2>5. QED
    BY <1>1, <2>1, <2>2, <2>3, <2>4 DEF LibcEvaluation
<1>2. CASE MmEvaluation
  <2>1. ASSUME NEW p \in Addr, ValidMalloc(p) \/ ValidRealloc(p)
        PROVE  RInv'
    BY <2>1, MallocKeeps, ReallocKeeps
  <2>2. ASSUME NEW p \in Addr,
               UtilMalloc(p) \/ UtilRealloc(p) \/ SpeedMalloc(p) \/ SpeedRealloc(p)
        PROVE  RInv'
    <3>1. LeavesList
      BY <2>2 DEF UtilMalloc, UtilRealloc, SpeedMalloc, SpeedRealloc, Accept,
                  driver, LeavesList, Before
    <3>2. QED
      BY <3>1, OthersKeep
  <2>3. CASE ValidFree
    BY <2>3, FreeKeeps
  <2>4. CASE UtilFree \/ SpeedFree \/ Refuse
    <3>1. LeavesList
      BY <2>4 DEF UtilFree, SpeedFree, Refuse, Complain, Accept, driver, LeavesList,
                  Before
    <3>2. QED
      BY <3>1, OthersKeep
  <2>5. CASE ValidEnd \/ UtilEnd \/ SpeedEnd \/ Finish
    <3>1. LeavesList
      BY <2>5 DEF ValidEnd, UtilEnd, SpeedEnd, Finish, Begin, LeavesList, Before
    <3>2. QED
      BY <3>1, OthersKeep
  <2>6. CASE NextTrace
    <3>1. StartsTrace
      BY <2>6 DEF NextTrace, Begin, StartsTrace
    <3>2. QED
      BY <3>1, StartOK
  <2>7. QED
    BY <1>2, <2>1, <2>2, <2>3, <2>4, <2>5, <2>6 DEF MmEvaluation
<1>3. CASE UNCHANGED vars
  <2>1. /\ ranges' = ranges /\ phase' = phase /\ sizes' = sizes /\ blocks' = blocks
        /\ i' = i /\ trace' = trace /\ job' = job
    BY <1>3 DEF vars, mmvars, driver
  <2>2. LiveIds' = LiveIds /\ Payloads' = Payloads
    BY <2>1 DEF LiveIds, Payloads, Payload, Suite
  <2>3. QED
    BY <2>1, <2>2 DEF RInv, TablesOK, Before
<1>4. QED
  BY <1>1, <1>2, <1>3 DEF Next

LEMMA ListInit == Init => RInv
<1> SUFFICES ASSUME Init PROVE RInv
  OBVIOUS
<1>1. /\ i = 1 /\ ranges = << >> /\ blocks = << >> /\ sizes = << >>
  BY DEF Init
<1>2. LiveIds = {} /\ Payloads = {}
  <2>1. LiveIds = {}
    BY <1>1, LiveAtStart DEF LiveIds
  <2>2. QED
    BY <2>1 DEF Payloads
<1>3. << >> \in Seq(Ranges) /\ DOMAIN << >> = {}
  OBVIOUS
<1>4. Nested(<< >>) /\ Lists(<< >>, {})
  BY <1>3 DEF Nested, Lists
<1>5. QED
  BY <1>1, <1>2, <1>3, <1>4 DEF RInv, TablesOK

(* Whatever addresses a package returns, and however many traces there are *)
(* of any length: the range list of eval_mm_valid is exactly the payloads  *)
(* of the requests that are live, and of two payloads that add_range has   *)
(* let pass and that overlap, the later one encloses the earlier one       *)
(* (lines 381-464).                                                        *)
THEOREM RangeListExact == Spec => []RangesOK
<1>1. RInv => RangesOK
  <2> SUFFICES ASSUME RInv PROVE RangesOK
    OBVIOUS
  <2>1. OverlapsEnclose
    BY Zenon DEF RInv, Nested, OverlapsEnclose
  <2>2. ASSUME phase = "valid"
        PROVE  /\ ToSet(ranges) = {Extent(blocks[id], sizes[id]) : id \in LiveIds}
               /\ \A j, k \in DOMAIN ranges : ranges[j] = ranges[k] => j = k
    <3>1. Lists(ranges, Payloads)
      BY <2>2, Zenon DEF RInv, TablesOK
    <3>2. Payloads = {Extent(blocks[id], sizes[id]) : id \in LiveIds}
      BY Zenon DEF Payloads, Payload
    <3>3. ToSet(ranges) = Payloads
      <4>1. /\ \A b \in Payloads : \E j \in DOMAIN ranges : ranges[j] = b
            /\ \A j \in DOMAIN ranges : ranges[j] \in Payloads
        BY <3>1, Zenon DEF Lists
      <4>2. QED
        BY <4>1 DEF ToSet
    <3>4. QED
      BY <3>1, <3>2, <3>3, Zenon DEF Lists
  <2>3. QED
    BY <2>1, <2>2, Zenon DEF RangesOK, RangesAreLive
<1>2. Init => IInv /\ RInv
  BY InitHolds, ListInit
<1>3. IInv /\ RInv /\ [Next]_vars => IInv' /\ RInv'
  BY StepKeeps, ListKeeps
<1>4. QED
  BY <1>1, <1>2, <1>3, PTL DEF Spec
-----------------------------------------------------------------------------
(***************************************************************************)
(* The driver with a package that keeps the promise of Allocator: it calls *)
(* free and realloc on live payloads only, and has nothing to object to.   *)
(***************************************************************************)
(* the addresses the driver holds for the requests that are live *)
Places == {blocks[id] : id \in LiveIds}

Distinct ==
  /\ LiveIds \subseteq DOMAIN blocks
  /\ \A a, b \in LiveIds : blocks[a] = blocks[b] => a = b

Owns == Distinct /\ DOMAIN held = Places

(* the driver's idea of a payload's size is the package's *)
KnowsSizes == \A id \in LiveIds : held[blocks[id]] = sizes[id]

Replaying == phase \in {"valid", "util", "speed"}

HInv ==
  /\ i \in Nat \ {0} /\ brk \in Addr
  /\ Honest /\ Replaying => Owns
  /\ Honest /\ phase = "valid" => KnowsSizes
  /\ Before => Distinct /\ Places \subseteq libc /\ held = << >>
-----------------------------------------------------------------------------
(* The driver's table when an address has been stored for a request.       *)
LEMMA StoreKeeps ==
  ASSUME Distinct, NEW id, NEW q, \A x \in LiveIds \ {id} : blocks[x] # q,
         blocks' = Store(blocks, id, q), LiveIds' = LiveIds \cup {id}
  PROVE  /\ Distinct'
         /\ Places' = {blocks[x] : x \in LiveIds \ {id}} \cup {q}
         /\ blocks'[id] = q /\ \A x \in LiveIds \ {id} : blocks'[x] = blocks[x]
<1>1. /\ DOMAIN blocks' = DOMAIN blocks \cup {id} /\ blocks'[id] = q
      /\ \A x \in DOMAIN blocks : x # id => blocks'[x] = blocks[x]
  BY DEF Store
<1>2. \A x \in LiveIds \ {id} : blocks'[x] = blocks[x]
  BY <1>1 DEF Distinct
<1>3. Distinct'
  <2>1. LiveIds' \subseteq DOMAIN blocks'
    BY <1>1 DEF Distinct
  <2>2. \A a, b \in LiveIds' : blocks'[a] = blocks'[b] => a = b
    BY <1>1, <1>2 DEF Distinct
  <2>3. QED
    BY <2>1, <2>2 DEF Distinct
<1>4. Places' = {blocks'[x] : x \in LiveIds \cup {id}}
  BY Zenon DEF Places
<1>5. QED
  BY <1>1, <1>2, <1>3, <1>4

(* All live requests but one hold all places but that one's.               *)
LEMMA OtherPlaces ==
  ASSUME Distinct, NEW id
  PROVE  /\ id \in LiveIds =>
              {blocks[x] : x \in LiveIds \ {id}} = Places \ {blocks[id]}
         /\ id \notin LiveIds => {blocks[x] : x \in LiveIds \ {id}} = Places
<1>1. CASE id \in LiveIds
  <2>1. \A x \in LiveIds \ {id} : blocks[x] # blocks[id]
    BY <1>1 DEF Distinct
  <2>2. QED
    BY <1>1, <2>1, Zenon DEF Places
<1>2. CASE id \notin LiveIds
  <2>1. LiveIds \ {id} = LiveIds
    BY <1>2
  <2>2. QED
    BY <1>2, <2>1, Zenon DEF Places
<1>3. QED
  BY <1>1, <1>2, Zenon

(* malloc of an honest package, in any of the three evaluations            *)
LEMMA MallocOwns ==
  ASSUME IInv, i \in Nat \ {0}, Owns, AtOp("alloc"), NEW p \in Addr,
         Package!Alloc(p, Op.size), Accept, blocks' = Store(blocks, Op.id, p)
  PROVE  /\ Owns'
         /\ /\ KnowsSizes /\ DOMAIN sizes = DOMAIN blocks
            /\ sizes' = Store(sizes, Op.id, Op.size)
            => KnowsSizes'
<1>1. Op.type = "alloc" /\ Op.id \notin LiveIds
  BY OpFacts
<1>2. LiveIds' = LiveIds \cup {Op.id} /\ LiveIds \ {Op.id} = LiveIds
  BY <1>1, LiveAfter
<1>3. /\ p \notin DOMAIN held
      /\ held' = [q \in DOMAIN held \cup {p} |-> IF q = p THEN Op.size ELSE held[q]]
  BY Zenon DEF Package!Alloc
<1>4. \A x \in LiveIds : blocks[x] \in DOMAIN held /\ blocks[x] # p
  BY <1>3, Zenon DEF Owns, Places
<1>5. /\ Distinct' /\ Places' = Places \cup {p}
      /\ blocks'[Op.id] = p /\ \A x \in LiveIds : blocks'[x] = blocks[x]
  <2>1. {blocks[x] : x \in LiveIds \ {Op.id}} = Places
    BY <1>1, OtherPlaces DEF Owns
  <2>2. /\ Distinct' /\ Places' = {blocks[x] : x \in LiveIds \ {Op.id}} \cup {p}
        /\ blocks'[Op.id] = p
        /\ \A x \in LiveIds \ {Op.id} : blocks'[x] = blocks[x]
    BY <1>2, <1>4, StoreKeeps DEF Owns
  <2>3. QED
    BY <1>2, <2>1, <2>2, Zenon
<1>6. DOMAIN held' = DOMAIN held \cup {p}
  BY <1>3
<1>7. Owns'
  BY <1>5, <1>6 DEF Owns
<1>8. ASSUME KnowsSizes, sizes' = Store(sizes, Op.id, Op.size),
             DOMAIN sizes = DOMAIN blocks
      PROVE  KnowsSizes'
  <2>1. /\ sizes'[Op.id] = Op.size
        /\ \A x \in LiveIds : sizes'[x] = sizes[x]
    BY <1>1, <1>8 DEF Store, Owns, Distinct
  <2>2. held'[p] = Op.size /\ \A x \in LiveIds : held'[blocks[x]] = held[blocks[x]]
    BY <1>3, <1>4
  <2>3. \A x \in LiveIds' : held'[blocks'[x]] = sizes'[x]
    <3>1. held'[blocks'[Op.id]] = sizes'[Op.id]
      BY <1>5, <2>1, <2>2
    <3>2. \A x \in LiveIds : held'[blocks'[x]] = sizes'[x]
      BY <1>5, <1>8, <2>1, <2>2 DEF KnowsSizes
    <3>3. QED
      BY <1>2, <3>1, <3>2
  <2>4. QED
    BY <2>3 DEF KnowsSizes
<1>9. QED
  BY <1>7, <1>8

(* realloc of an honest package: the payload stays where it is, or moves   *)
LEMMA ReallocOwns ==
  ASSUME IInv, i \in Nat \ {0}, Owns, AtOp("realloc"), NEW q \in Addr,
         \/ blocks[Op.id] = q /\ Package!Resize(blocks[Op.id], Op.size)
         \/ blocks[Op.id] # q /\ Package!Move(blocks[Op.id], q, Op.size),
         Accept, blocks' = Store(blocks, Op.id, q)
  PROVE  /\ Owns'
         /\ /\ KnowsSizes /\ DOMAIN sizes = DOMAIN blocks
            /\ sizes' = Store(sizes, Op.id, Op.size)
            => KnowsSizes'
<1> DEFINE p == blocks[Op.id]
<1>1. Op.type = "realloc" /\ Op.id \in LiveIds
  BY OpFacts
<1>2. LiveIds' = LiveIds \cup {Op.id}
  BY <1>1, LiveAfter
<1>3. \A x \in LiveIds \ {Op.id} : blocks[x] \in DOMAIN held \ {p}
  <2>1. \A x \in LiveIds : blocks[x] \in DOMAIN held
    BY Zenon DEF Owns, Places
  <2>2. \A x \in LiveIds \ {Op.id} : blocks[x] # p
    BY <1>1, Zenon DEF Owns, Distinct
  <2>3. QED
    BY <2>1, <2>2
<1>4. /\ DOMAIN held' = (DOMAIN held \ {p}) \cup {q} /\ q \notin DOMAIN held \ {p}
      /\ held'[q] = Op.size
      /\ \A a \in DOMAIN held \ {p} : held'[a] = held[a]
  <2>1. CASE p = q /\ Package!Resize(p, Op.size)
    <3>1. p \in DOMAIN held /\ held' = [held EXCEPT ![p] = Op.size]
      BY <2>1, Zenon DEF Package!Resize
    <3>2. QED
      BY <2>1, <3>1
  <2>2. CASE p # q /\ Package!Move(p, q, Op.size)
    <3>1. /\ q \notin DOMAIN held
          /\ held' = [a \in (DOMAIN held \ {p}) \cup {q} |->
                        IF a = q THEN Op.size ELSE held[a]]
      BY <2>2, Zenon DEF Package!Move
    <3>2. QED
      BY <3>1
  <2>3. QED
    BY <2>1, <2>2
<1>5. \A x \in LiveIds \ {Op.id} : blocks[x] # q
  BY <1>3, <1>4
<1>6. /\ Distinct' /\ Places' = (Places \ {p}) \cup {q}
      /\ blocks'[Op.id] = q
      /\ \A x \in LiveIds \ {Op.id} : blocks'[x] = blocks[x]
  <2>1. {blocks[x] : x \in LiveIds \ {Op.id}} = Places \ {p}
    BY <1>1, OtherPlaces DEF Owns
  <2>2. /\ Distinct' /\ Places' = {blocks[x] : x \in LiveIds \ {Op.id}} \cup {q}
        /\ blocks'[Op.id] = q
        /\ \A x \in LiveIds \ {Op.id} : blocks'[x] = blocks[x]
    BY <1>2, <1>5, StoreKeeps DEF Owns
  <2>3. QED
    BY <2>1, <2>2, Zenon
<1> HIDE DEF p
<1>7. Owns'
  BY <1>4, <1>6 DEF Owns
<1>8. ASSUME KnowsSizes, sizes' = Store(sizes, Op.id, Op.size),
             DOMAIN sizes = DOMAIN blocks
      PROVE  KnowsSizes'
  <2>1. /\ sizes'[Op.id] = Op.size
        /\ \A x \in LiveIds \ {Op.id} : sizes'[x] = sizes[x]
    BY <1>1, <1>8 DEF Store, Owns, Distinct
  <2>2. held'[blocks'[Op.id]] = sizes'[Op.id]
    BY <1>4, <1>6, <2>1
  <2>3. \A x \in LiveIds \ {Op.id} : held'[blocks'[x]] = sizes'[x]
    BY <1>3, <1>4, <1>6, <1>8, <2>1 DEF KnowsSizes
  <2>4. \A x \in LiveIds' : held'[blocks'[x]] = sizes'[x]
    BY <1>2, <2>2, <2>3
  <2>5. QED
    BY <2>4 DEF KnowsSizes
<1>9. QED
  BY <1>7, <1>8

(* free of an honest package                                               *)
LEMMA FreeOwns ==
  ASSUME IInv, i \in Nat \ {0}, Owns, AtOp("free"),
         Package!Free(blocks[Op.id]), Accept, blocks' = blocks
  PROVE  Owns' /\ (KnowsSizes /\ sizes' = sizes => KnowsSizes')
<1> DEFINE p == blocks[Op.id]
<1>1. Op.type = "free" /\ Op.id \in LiveIds
  BY OpFacts
<1>2. LiveIds' = LiveIds \ {Op.id}
  BY <1>1, LiveAfter
<1>3. /\ DOMAIN held' = DOMAIN held \ {p}
      /\ \A a \in DOMAIN held \ {p} : held'[a] = held[a]
  <2>1. held' = [a \in DOMAIN held \ {p} |-> held[a]]
    BY Zenon DEF Package!Free, Package!Restrict
  <2>2. QED
    BY <2>1
<1>4. Places' = Places \ {p}
  <2>1. Places' = {blocks[x] : x \in LiveIds \ {Op.id}}
    BY <1>2, Zenon DEF Places
  <2>2. QED
    BY <1>1, <2>1, OtherPlaces DEF Owns
<1>5. Distinct'
  BY <1>2 DEF Owns, Distinct
<1>6. \A x \in LiveIds' : blocks[x] \in DOMAIN held \ {p}
  <2>1. \A x \in LiveIds : blocks[x] \in DOMAIN held
    BY Zenon DEF Owns, Places
  <2>2. \A x \in LiveIds \ {Op.id} : blocks[x] # p
    BY <1>1, Zenon DEF Owns, Distinct
  <2>3. QED
    BY <1>2, <2>1, <2>2
<1>7. KnowsSizes /\ sizes' = sizes => KnowsSizes'
  BY <1>2, <1>3, <1>6 DEF KnowsSizes
<1>8. QED
  BY <1>3, <1>4, <1>5, <1>7 DEF Owns
-----------------------------------------------------------------------------
(***************************************************************************)
(* The steps.                                                              *)
(***************************************************************************)
Same == UNCHANGED <<job, phase>>

LEMMA Beginning ==
  ASSUME i' = 1, held' = << >>, brk' \in Addr
  PROVE  HInv'
<1>1. LiveIds' = {}
  <2>1. LiveIds' = LiveBefore(Suite'[trace'], 1)
    BY DEF LiveIds
  <2>2. QED
    BY <2>1, LiveAtStart
<1>2. Places' = {} /\ DOMAIN held' = {}
  BY <1>1 DEF Places
<1>3. QED
  BY <1>1, <1>2 DEF HInv, Owns, Distinct, KnowsSizes

(* A replay that goes on: what the package did, and i moved on.            *)
LEMMA GoesOn ==
  ASSUME HInv, Same, i' = i + 1, brk' \in Addr, ~Before,
         Honest /\ Replaying => Owns',
         Honest /\ phase = "valid" => KnowsSizes'
  PROVE  HInv'
<1>1. Honest' = Honest /\ phase' = phase /\ i' \in Nat \ {0}
  BY DEF Same, Honest, HInv
<1>2. QED
  BY <1>1 DEF HInv, Replaying, Before

LEMMA Ends ==
  ASSUME HInv, phase' \in {"next", "done", "exited"}, i' = i, brk' \in Addr
  PROVE  HInv'
BY DEF HInv, Replaying, Before

LEMMA MallocStep ==
  ASSUME IInv, RInv, HInv, NEW p \in Addr,
         ValidMalloc(p) \/ UtilMalloc(p) \/ SpeedMalloc(p)
  PROVE  HInv'
<1>1. /\ AtOp("alloc") /\ PackageMalloc(p, Op.size) /\ Replaying /\ ~Before
  BY DEF ValidMalloc, UtilMalloc, SpeedMalloc, Replaying, Before
<1>2. brk' \in Addr
  BY <1>1, Zenon DEF PackageMalloc, Anything, Package!Alloc
<1>3. \/ phase' = "next" /\ i' = i
      \/ /\ Accept /\ blocks' = Store(blocks, Op.id, p)
         /\ phase = "valid" => sizes' = Store(sizes, Op.id, Op.size)
  BY DEF ValidMalloc, UtilMalloc, SpeedMalloc, Complain
<1>4. CASE phase' = "next" /\ i' = i
  BY <1>2, <1>4, Ends
<1>5. CASE /\ Accept /\ blocks' = Store(blocks, Op.id, p)
           /\ phase = "valid" => sizes' = Store(sizes, Op.id, Op.size)
  <2>1. i' = i + 1 /\ Same
    BY <1>5 DEF Accept, driver, Same
  <2>2. ASSUME Honest
        PROVE  Owns' /\ (phase = "valid" => KnowsSizes')
    <3>1. Package!Alloc(p, Op.size) /\ Owns /\ i \in Nat \ {0}
      BY <1>1, <2>2 DEF PackageMalloc, HInv
    <3>2. phase = "valid" => KnowsSizes /\ DOMAIN sizes = DOMAIN blocks
      BY <2>2, Zenon DEF HInv, RInv, TablesOK
    <3>3. QED
      BY <1>1, <1>5, <3>1, <3>2, MallocOwns
  <2>3. QED
    BY <1>1, <1>2, <2>1, <2>2, GoesOn
<1>6. QED
  BY <1>3, <1>4, <1>5

LEMMA ReallocStep ==
  ASSUME IInv, RInv, HInv, NEW q \in Addr,
         ValidRealloc(q) \/ UtilRealloc(q) \/ SpeedRealloc(q)
  PROVE  HInv'
<1>1. /\ AtOp("realloc") /\ PackageRealloc(blocks[Op.id], q, Op.size)
      /\ Replaying /\ ~Before
  BY DEF ValidRealloc, UtilRealloc, SpeedRealloc, Replaying, Before
<1>2. brk' \in Addr
  <2>1. brk \in Addr
    BY DEF HInv
  <2>2. QED
    BY <1>1, <2>1, Zenon DEF PackageRealloc, Anything, Package!Move, Package!Resize
<1>3. \/ phase' = "next" /\ i' = i
      \/ /\ Accept /\ blocks' = Store(blocks, Op.id, q)
         /\ phase = "valid" => sizes' = Store(sizes, Op.id, Op.size)
  <2>1. CASE ValidRealloc(q)
    BY <2>1, Zenon DEF ValidRealloc, Complain
  <2>2. CASE UtilRealloc(q) \/ SpeedRealloc(q)
    BY <2>2 DEF UtilRealloc, SpeedRealloc
  <2>3. QED
    BY <2>1, <2>2
<1>4. CASE phase' = "next" /\ i' = i
  BY <1>2, <1>4, Ends
<1>5. CASE /\ Accept /\ blocks' = Store(blocks, Op.id, q)
           /\ phase = "valid" => sizes' = Store(sizes, Op.id, Op.size)
  <2>1. i' = i + 1 /\ Same
    BY <1>5 DEF Accept, driver, Same
  <2>2. ASSUME Honest
        PROVE  Owns' /\ (phase = "valid" => KnowsSizes')
    <3>1. /\ \/ blocks[Op.id] = q /\ Package!Resize(blocks[Op.id], Op.size)
             \/ blocks[Op.id] # q /\ Package!Move(blocks[Op.id], q, Op.size)
          /\ Owns /\ i \in Nat \ {0}
      BY <1>1, <2>2, Zenon DEF PackageRealloc, HInv
    <3>2. phase = "valid" => KnowsSizes /\ DOMAIN sizes = DOMAIN blocks
      BY <2>2, Zenon DEF HInv, RInv, TablesOK
    <3>3. QED
      BY <1>1, <1>5, <3>1, <3>2, ReallocOwns
  <2>3. QED
    BY <1>1, <1>2, <2>1, <2>2, GoesOn
<1>6. QED
  BY <1>3, <1>4, <1>5

LEMMA FreeStep ==
  ASSUME IInv, HInv, ValidFree \/ UtilFree \/ SpeedFree
  PROVE  HInv'
<1>1. /\ AtOp("free") /\ PackageFree(blocks[Op.id]) /\ Replaying /\ ~Before
      /\ Accept /\ blocks' = blocks /\ sizes' = sizes
  BY DEF ValidFree, UtilFree, SpeedFree, Replaying, Before
<1>2. brk' \in Addr
  <2>1. brk \in Addr
    BY DEF HInv
  <2>2. QED
    BY <1>1, <2>1, Zenon DEF PackageFree, Anything, Package!Free
<1>3. i' = i + 1 /\ Same
  BY <1>1 DEF Accept, driver, Same
<1>4. ASSUME Honest
      PROVE  Owns' /\ (phase = "valid" => KnowsSizes')
  <2>1. Package!Free(blocks[Op.id]) /\ Owns /\ i \in Nat \ {0}
    BY <1>1, <1>4 DEF PackageFree, HInv
  <2>2. phase = "valid" => KnowsSizes
    BY <1>4 DEF HInv
  <2>3. QED
    BY <1>1, <2>1, <2>2, FreeOwns
<1>5. QED
  BY <1>1, <1>2, <1>3, <1>4, GoesOn

(* The C library gives no block that is in use.                            *)
LEMMA LibcStep ==
  ASSUME IInv, HInv, LibcAlloc \/ LibcRealloc \/ LibcFree
  PROVE  HInv'
<1>1. /\ Before /\ Accept /\ i' = i + 1 /\ Same /\ held' = held /\ brk' = brk
  BY DEF LibcAlloc, LibcRealloc, LibcFree, Libc, LibcPhase, Accept, driver, Same, Before
<1>2. /\ Distinct /\ Places \subseteq libc /\ held = << >> /\ i \in Nat \ {0}
  BY <1>1 DEF HInv
<1>3. CASE LibcAlloc
  <2>1. PICK p \in LibcMalloc : libc' = libc \cup {p} /\ Libc(Op.id, p)
    BY <1>3 DEF LibcAlloc
  <2>2. AtOp("alloc") /\ blocks' = Store(blocks, Op.id, p) /\ p \notin libc
    BY <1>3, <2>1 DEF LibcAlloc, Libc, LibcMalloc
  <2>3. LiveIds' = LiveIds \cup {Op.id} /\ Op.id \notin LiveIds
    BY <1>1, <1>2, <2>2, OpFacts, LiveAfter
  <2>4. \A x \in LiveIds \ {Op.id} : blocks[x] # p
    BY <1>2, <2>2 DEF Places
  <2>5. Distinct' /\ Places' = Places \cup {p}
    BY <1>2, <2>2, <2>3, <2>4, StoreKeeps, OtherPlaces
  <2>6. Distinct' /\ Places' \subseteq libc'
    BY <1>2, <2>1, <2>5
  <2>7. QED
    BY <1>1, <1>2, <2>6 DEF HInv, Before, Replaying, Same
<1>4. CASE LibcRealloc
  <2> DEFINE p == blocks[Op.id]
  <2>1. PICK q \in LibcMalloc \cup {p} :
          libc' = (libc \ {p}) \cup {q} /\ Libc(Op.id, q)
    BY <1>4 DEF LibcRealloc
  <2>2. /\ AtOp("realloc") /\ blocks' = Store(blocks, Op.id, q)
        /\ q \notin libc \/ q = p
    BY <1>4, <2>1 DEF LibcRealloc, Libc, LibcMalloc
  <2>3. Op.id \in LiveIds /\ Op.type = "realloc"
    BY <2>2, OpFacts
  <2>4. LiveIds' = LiveIds \cup {Op.id}
    BY <1>1, <1>2, <2>3, LiveAfter
  <2>5. \A x \in LiveIds \ {Op.id} : blocks[x] # q
    BY <1>2, <2>2, <2>3 DEF Places, Distinct
  <2>6. Distinct' /\ Places' = (Places \ {p}) \cup {q}
    BY <1>2, <2>2, <2>3, <2>4, <2>5, StoreKeeps, OtherPlaces
  <2>7. Distinct' /\ Places' \subseteq libc'
    BY <1>2, <2>1, <2>6
  <2>8. QED
    BY <1>1, <1>2, <2>7 DEF HInv, Before, Replaying, Same
<1>5. CASE LibcFree
  <2> DEFINE p == blocks[Op.id]
  <2>1. /\ AtOp("free") /\ blocks' = Store(blocks, Op.id, p) /\ libc' = libc \ {p}
    BY <1>5 DEF LibcFree, Libc
  <2>2. Op.id \in LiveIds /\ Op.type = "free"
    BY <2>1, OpFacts
  <2>3. LiveIds' = LiveIds \ {Op.id}
    BY <1>1, <1>2, <2>2, LiveAfter
  <2>4. \A x \in LiveIds' : x \in DOMAIN blocks' /\ blocks'[x] = blocks[x]
    BY <1>2, <2>1, <2>3 DEF Store, Distinct
  <2>5. \A x \in LiveIds' : blocks[x] \in Places \ {p}
    <3>1. \A x \in LiveIds : blocks[x] \in Places
      BY Zenon DEF Places
    <3>2. \A x \in LiveIds' : x \in LiveIds /\ blocks[x] # p
      BY <1>2, <2>2, <2>3 DEF Distinct
    <3>3. QED
      BY <3>1, <3>2
  <2>6. Distinct'
    BY <1>2, <2>3, <2>4 DEF Distinct
  <2>7. Places' \subseteq libc'
    <3>1. \A x \in LiveIds' : blocks'[x] \in libc'
      BY <1>2, <2>1, <2>4, <2>5
    <3>2. QED
      BY <3>1 DEF Places
  <2>8. QED
    BY <1>1, <1>2, <2>6, <2>7 DEF HInv, Before, Replaying, Same
<1>6. QED
  BY <1>3, <1>4, <1>5

LEMMA HonestKeeps == IInv /\ RInv /\ HInv /\ [Next]_vars => HInv'
<1> SUFFICES ASSUME IInv, RInv, HInv, [Next]_vars PROVE HInv'
  OBVIOUS
<1>1. brk \in Addr
  BY DEF HInv
<1>2. CASE LibcEvaluation
  <2>1. CASE LibcRefuse
    BY <1>1, <2>1, Ends DEF LibcRefuse
  <2>2. CASE LibcAgain \/ LibcEnd
    <3>1. i' = 1 /\ held' = held /\ brk' = brk /\ Before
      BY <2>2 DEF LibcAgain, LibcEnd, LibcPhase, Before
    <3>2. QED
      BY <1>1, <3>1, Beginning DEF HInv
  <2>3. QED
    BY <1>2, <2>1, <2>2, LibcStep DEF LibcEvaluation
<1>3. CASE MmEvaluation
  <2>1. CASE Refuse
    BY <1>1, <2>1, Ends DEF Refuse, Complain
  <2>2. CASE ValidEnd \/ UtilEnd \/ NextTrace
    <3>1. i' = 1 /\ Package!Reset
      BY <2>2 DEF ValidEnd, UtilEnd, NextTrace, Begin
    <3>2. QED
      BY <3>1, Beginning DEF Package!Reset
  <2>3. CASE SpeedEnd
    <3>1. \/ i' = 1 /\ Package!Reset
          \/ phase' = "next" /\ i' = i /\ brk' = brk
      BY <2>3 DEF SpeedEnd, Begin
    <3>2. QED
      BY <1>1, <3>1, Beginning, Ends DEF Package!Reset
  <2>4. CASE Finish
    BY <1>1, <2>4, Ends DEF Finish
  <2>5. QED
    BY <1>3, <2>1, <2>2, <2>3, <2>4, MallocStep, ReallocStep, FreeStep
       DEF MmEvaluation
<1>4. CASE UNCHANGED vars
  <2>1. /\ phase' = phase /\ sizes' = sizes /\ blocks' = blocks /\ held' = held
        /\ i' = i /\ trace' = trace /\ job' = job /\ brk' = brk /\ libc' = libc
    BY <1>4 DEF vars, mmvars, driver
  <2>2. LiveIds' = LiveIds /\ Places' = Places /\ Honest' = Honest
    BY <2>1 DEF LiveIds, Places, Suite, Honest
  <2>3. QED
    BY <2>1, <2>2 DEF HInv, Replaying, Owns, Distinct, KnowsSizes, Before
<1>5. QED
  BY <1>2, <1>3, <1>4 DEF Next

LEMMA HonestInit == Init => HInv
<1> SUFFICES ASSUME Init PROVE HInv
  OBVIOUS
<1>1. i = 1 /\ held = << >> /\ brk \in Addr
  BY DEF Init, Package!Init
<1>2. LiveIds = {}
  BY <1>1, LiveAtStart DEF LiveIds
<1>3. Places = {} /\ DOMAIN held = {}
  BY <1>1, <1>2 DEF Places
<1>4. QED
  BY <1>1, <1>2, <1>3 DEF HInv, Owns, Distinct, KnowsSizes

LEMMA HonestInvariant == Spec => [](IInv /\ RInv /\ HInv)
<1>1. Init => IInv /\ RInv /\ HInv
  BY InitHolds, ListInit, HonestInit
<1>2. IInv /\ RInv /\ HInv /\ [Next]_vars => IInv' /\ RInv' /\ HInv'
  BY StepKeeps, ListKeeps, HonestKeeps
<1>3. QED
  BY <1>1, <1>2, PTL DEF Spec

(* In all three evaluations of an honest package, whatever it answers, the *)
(* blocks it has handed out are those the driver holds for the live        *)
(* requests, so that free and realloc are never called on another address; *)
(* the C library has at least those of its own evaluation (lines 577-826   *)
(* and 834-911).                                                           *)
THEOREM ContractKept == Spec => []ClientKeepsContract
<1>1. HInv => ClientKeepsContract
  <2> SUFFICES ASSUME HInv PROVE ClientKeepsContract
    OBVIOUS
  <2>1. ASSUME Honest, phase \in {"valid", "util", "speed"}
        PROVE  /\ LiveIds \subseteq DOMAIN blocks
               /\ DOMAIN held = {blocks[id] : id \in LiveIds}
    BY <2>1 DEF HInv, Replaying, Owns, Distinct, Places
  <2>2. ASSUME LibcPhase
        PROVE  /\ LiveIds \subseteq DOMAIN blocks
               /\ {blocks[id] : id \in LiveIds} \subseteq libc
               /\ \A a, b \in LiveIds : blocks[a] = blocks[b] => a = b
    BY <2>2 DEF LibcPhase, HInv, Before, Distinct, Places
  <2>3. QED
    BY <2>1, <2>2, Zenon DEF ClientKeepsContract
<1>2. QED
  BY <1>1, HonestInvariant, PTL
-----------------------------------------------------------------------------
(***************************************************************************)
(* Nothing to object to.                                                   *)
(***************************************************************************)
(* all request indices have a low byte that a char keeps (lines 625, 656)  *)
CharIds == \A s \in Settings : \A o \in Ops(s.suite) : o.id % 256 < 128

AInv == Honest => report \subseteq {"failed"}

(* add_range accepts a payload that is aligned, in the heap and apart from *)
(* the payloads in the list.                                               *)
LEMMA Accepted ==
  ASSUME NEW rs, NEW S, NEW p \in Nat, NEW n \in Nat \ {0},
         Lists(rs, {Payload(x) : x \in S}),
         \A x \in S : blocks[x] \in Nat /\ sizes[x] \in Nat \ {0},
         \A x \in S : p + n <= blocks[x] \/ blocks[x] + sizes[x] <= p,
         p % Alignment = 0, HeapStart <= p, p + n <= brk', brk' \in Addr
  PROVE  Objection(rs, Extent(p, n)) = "none"
<1> DEFINE r == Extent(p, n)
<1>1. r.lo = p /\ r.hi = p + n - 1
  BY DEF Extent
<1>2. InHeap(r)
  <2>1. brk' \in Nat /\ HeapStart \in Nat
    BY MDriverAssumption
  <2>2. QED
    BY <1>1, <2>1 DEF InHeap
<1>3. ASSUME NEW j \in DOMAIN rs
      PROVE  ~Overlaps(r, rs[j])
  <2>1. PICK x \in S : rs[j] = Payload(x)
    <3> DEFINE F == {Payload(x) : x \in S}
    <3>1. Lists(rs, F)
      OBVIOUS
    <3> HIDE DEF F
    <3>2. rs[j] \in F
      BY <3>1, Zenon DEF Lists
    <3>3. QED
      BY <3>2, SMT DEF F
  <2>2. rs[j].lo = blocks[x] /\ rs[j].hi = blocks[x] + sizes[x] - 1
    BY <2>1 DEF Payload, Extent
  <2>3. QED
    BY <1>1, <2>2 DEF Overlaps
<1>4. r.lo % Alignment = 0
  BY <1>1
<1> HIDE DEF r
<1>5. Objection(rs, r) = "none"
  BY <1>2, <1>3, <1>4, Zenon DEF Objection
<1>6. QED
  BY <1>5, Zenon DEF r

(* The other payloads of the range list are those the package has.         *)
LEMMA MallocAccepted ==
  ASSUME RInv, HInv, Honest, phase = "valid", NEW p \in Addr, NEW n \in Nat \ {0},
         Package!Alloc(p, n)
  PROVE  Objection(ranges, Extent(p, n)) = "none"
<1>1. TablesOK /\ Owns /\ KnowsSizes
  BY DEF RInv, HInv, Replaying
<1>2. /\ p % Alignment = 0 /\ HeapStart <= p /\ p + n <= brk' /\ brk' \in Addr
      /\ \A q \in DOMAIN held : p + n <= q \/ q + held[q] <= p
  BY Zenon DEF Package!Alloc, Package!Aligned, Package!Apart
<1>3. \A x \in LiveIds : blocks[x] \in DOMAIN held /\ held[blocks[x]] = sizes[x]
  BY <1>1, Zenon DEF Owns, Places, KnowsSizes
<1>4. /\ \A x \in LiveIds : blocks[x] \in Nat /\ sizes[x] \in Nat \ {0}
      /\ Lists(ranges, {Payload(x) : x \in LiveIds})
  BY <1>1, Zenon DEF TablesOK, Payloads
<1>5. \A x \in LiveIds : p + n <= blocks[x] \/ blocks[x] + sizes[x] <= p
  BY <1>2, <1>3, Zenon
<1>6. p \in Nat
  BY MDriverAssumption
<1>7. QED
  BY <1>2, <1>4, <1>5, <1>6, Accepted

LEMMA ReallocAccepted ==
  ASSUME RInv, HInv, Honest, phase = "valid", NEW id \in LiveIds,
         NEW q \in Addr, NEW n \in Nat \ {0},
         \/ blocks[id] = q /\ Package!Resize(blocks[id], n)
         \/ blocks[id] # q /\ Package!Move(blocks[id], q, n)
  PROVE  Objection(RemoveRange(ranges, blocks[id]), Extent(q, n)) = "none"
<1> DEFINE p == blocks[id]
           others == LiveIds \ {id}
<1>1. /\ TablesOK /\ Owns /\ KnowsSizes /\ brk \in Addr
      /\ ranges \in Seq(Ranges) /\ Nested(ranges)
  BY DEF RInv, HInv, Replaying
<1>2. p % Alignment = 0
  BY <1>1, Zenon DEF TablesOK
<1>3. /\ q % Alignment = 0 /\ HeapStart <= q /\ q + n <= brk' /\ brk' \in Addr
      /\ \A a \in DOMAIN held \ {p} : q + n <= a \/ a + held[a] <= q
  <2>1. CASE p = q /\ Package!Resize(p, n)
    <3>1. /\ HeapStart <= q /\ q + n <= brk /\ brk' = brk
          /\ \A a \in DOMAIN held \ {q} : q + n <= a \/ a + held[a] <= q
      BY <2>1, Zenon DEF Package!Resize, Package!InHeap, Package!Apart
    <3>2. QED
      BY <1>1, <1>2, <2>1, <3>1
  <2>2. CASE p # q /\ Package!Move(p, q, n)
    BY <2>2, Zenon DEF Package!Move, Package!Aligned, Package!Apart
  <2>3. QED
    BY <2>1, <2>2
<1>4. \A x \in LiveIds : blocks[x] \in DOMAIN held /\ held[blocks[x]] = sizes[x]
  BY <1>1, Zenon DEF Owns, Places, KnowsSizes
<1>5. \A x \in others : x \in LiveIds /\ blocks[x] # p
  BY <1>1, Zenon DEF Owns, Distinct
<1>6. /\ \A x \in others : blocks[x] \in Nat /\ sizes[x] \in Nat \ {0}
      /\ Lists(RemoveRange(ranges, p), {Payload(x) : x \in others})
  <2>1. Lists(RemoveRange(ranges, p), {Payload(x) : x \in others})
    BY <1>1, LeaveKeeps
  <2>2. QED
    BY <1>1, <1>5, <2>1, Zenon DEF TablesOK
<1>7. \A x \in others : q + n <= blocks[x] \/ blocks[x] + sizes[x] <= q
  <2>1. \A x \in others : blocks[x] \in DOMAIN held \ {p}
    BY <1>4, <1>5
  <2>2. QED
    BY <1>3, <1>4, <1>5, <2>1, Zenon
<1>8. q \in Nat
  BY MDriverAssumption
<1> HIDE DEF others
<1>9. QED
  BY <1>3, <1>6, <1>7, <1>8, Accepted

LEMMA CharReadsBack ==
  ASSUME IInv, CharIds, NEW type, AtOp(type)
  PROVE  ReadsBack(Op.id)
<1>1. job \in Settings /\ trace \in DOMAIN Suite
  BY SuiteFacts DEF IInv
<1>2. Op \in Ops(Suite)
  <2>1. Op \in ToSet(Suite[trace])
    BY DEF AtOp, ToSet, Op
  <2>2. ToSet(Suite[trace]) \in {ToSet(Suite[t]) : t \in DOMAIN Suite}
    BY <1>1
  <2>3. QED
    BY <2>1, <2>2 DEF Ops
<1>3. Op.id % 256 < 128
  BY <1>1, <1>2, Zenon DEF CharIds, Suite
<1>4. QED
  BY <1>3, Zenon DEF ReadsBack, SignedChar

LEMMA AcceptsHonest ==
  ASSUME CharIds, IInv, RInv, HInv, AInv, [Next]_vars
  PROVE  AInv'
<1> SUFFICES ASSUME Honest' PROVE report' \subseteq {"failed"}
  BY DEF AInv
<1>1. /\ job' = job /\ Honest /\ report \subseteq {"failed"}
  <2>1. job' = job
    <3>1. LibcEvaluation => job' = job
      BY LibcEffect DEF Stays, LibcMoves, Exits
    <3>2. MmEvaluation => job' = job
      BY MmEffect DEF Stays, OneError, FoundValid, LaterPhase, OnToNext, Exits
    <3>3. QED
      BY <3>1, <3>2 DEF Next, vars, mmvars, driver
  <2>2. QED
    BY <2>1 DEF AInv, Honest
<1>2. CASE report' = report \/ report' = report \cup {"failed"}
  BY <1>1, <1>2
<1>3. CASE LibcEvaluation
  <2>1. report' = report \/ report' = report \cup {"failed"}
    BY <1>3 DEF LibcEvaluation, LibcAlloc, LibcRealloc, LibcFree, LibcRefuse, LibcAgain,
                LibcEnd, Libc, Accept, driver
  <2>2. QED
    BY <1>2, <2>1
<1>4. ASSUME NEW p \in Addr, ValidMalloc(p)
      PROVE  report' = report
  <2>1. /\ phase = "valid" /\ AtOp("alloc") /\ PackageMalloc(p, Op.size)
    BY <1>4, Zenon DEF ValidMalloc
  <2>2. Op.size \in Nat \ {0} /\ Package!Alloc(p, Op.size)
    BY <1>1, <2>1, OpFacts DEF PackageMalloc
  <2>3. Objection(ranges, Extent(p, Op.size)) = "none"
    BY <1>1, <2>1, <2>2, MallocAccepted
  <2>4. Accept
    BY <1>4, <2>3, Zenon DEF ValidMalloc
  <2>5. QED
    BY <2>4 DEF Accept, driver
<1>5. ASSUME NEW q \in Addr, ValidRealloc(q)
      PROVE  report' = report
  <2> DEFINE r == Extent(q, Op.size)
             rest == RemoveRange(ranges, blocks[Op.id])
  <2>1. /\ phase = "valid" /\ AtOp("realloc")
        /\ PackageRealloc(blocks[Op.id], q, Op.size)
    BY <1>5, Zenon DEF ValidRealloc
  <2>2. Op.size \in Nat \ {0} /\ Op.id \in LiveIds /\ ReadsBack(Op.id)
    BY <2>1, OpFacts, CharReadsBack
  <2>3. \/ blocks[Op.id] = q /\ Package!Resize(blocks[Op.id], Op.size)
        \/ blocks[Op.id] # q /\ Package!Move(blocks[Op.id], q, Op.size)
    BY <1>1, <2>1, Zenon DEF PackageRealloc
  <2>4. Objection(rest, r) = "none"
    BY <1>1, <2>1, <2>2, <2>3, ReallocAccepted
  <2>5. PICK copied \in CopiesData :
          LET bad == IF Objection(rest, r) # "none" THEN Objection(rest, r)
                     ELSE IF copied /\ ReadsBack(Op.id) THEN "none"
                     ELSE "data"
          IN IF bad # "none" THEN Complain(bad) /\ UNCHANGED <<blocks, sizes>>
             ELSE Accept
    BY <1>5, Zenon DEF ValidRealloc
  <2>6. copied = TRUE
    BY <1>1, <2>5 DEF CopiesData
  <2>7. Accept
    BY <2>2, <2>4, <2>5, <2>6, Zenon
  <2>8. QED
    BY <2>7 DEF Accept, driver
<1>6. CASE /\ MmEvaluation
           /\ ~ \E p \in Addr : ValidMalloc(p) \/ ValidRealloc(p)
  <2>1. CASE \E p \in Addr : \/ UtilMalloc(p) \/ UtilRealloc(p)
                             \/ SpeedMalloc(p) \/ SpeedRealloc(p)
    BY <1>2, <2>1 DEF UtilMalloc, UtilRealloc, SpeedMalloc, SpeedRealloc, Accept, driver
  <2>2. CASE ValidFree \/ UtilFree \/ SpeedFree
    BY <1>2, <2>2 DEF ValidFree, UtilFree, SpeedFree, Accept, driver
  <2>3. CASE Refuse
    BY <1>2, <2>3 DEF Refuse, Complain
  <2>4. CASE ValidEnd \/ UtilEnd \/ SpeedEnd \/ NextTrace \/ Finish
    BY <1>2, <2>4 DEF ValidEnd, UtilEnd, SpeedEnd, NextTrace, Finish, Begin
  <2>5. QED
    BY <1>6, <2>1, <2>2, <2>3, <2>4 DEF MmEvaluation
<1>7. CASE UNCHANGED vars
  BY <1>2, <1>7 DEF vars, mmvars, driver
<1>8. QED
  BY <1>2, <1>3, <1>4, <1>5, <1>6, <1>7 DEF Next

(* A package that keeps the promise of Allocator, and answers as it likes  *)
(* otherwise, is found guilty of nothing but refusing a request: neither   *)
(* add_range nor the comparison of the copied bytes complains, provided no *)
(* request index has a low byte of 128 or more: as a char that one is      *)
(* negative (lines 381-429 and 577-684).                                   *)
THEOREM HonestPasses ==
  ASSUME CharIds
  PROVE  Spec => []HonestNeverAccused
<1>1. Init => AInv
  BY DEF Init, AInv
<1>2. AInv /\ IInv /\ RInv /\ HInv /\ [Next]_vars => AInv'
  BY AcceptsHonest
<1>3. AInv => HonestNeverAccused
  BY DEF AInv, HonestNeverAccused
<1>4. QED
  BY <1>1, <1>2, <1>3, HonestInvariant, PTL DEF Spec
-----------------------------------------------------------------------------
(***************************************************************************)
(* Space utilization: the bytes that a trace has live, and the counters of *)
(* eval_mm_util.                                                           *)
(***************************************************************************)
(* the bytes of a set of requests, numbered within each of them *)
Cells(S, table) == UNION {{x} \X (1..table[x]) : x \in S}

LEMMA CellsMember ==
  ASSUME NEW S, NEW table, NEW c
  PROVE  c \in Cells(S, table) <=>
           c = <<c[1], c[2]>> /\ c[1] \in S /\ c[2] \in 1..table[c[1]]
BY DEF Cells

(* one request more *)
LEMMA CellsWith ==
  ASSUME NEW S, NEW table, NEW id, id \notin S, NEW n \in Nat, table[id] = n,
         IsFiniteSet(Cells(S, table))
  PROVE  /\ Cells(S \cup {id}, table) = Cells(S, table) \cup ({id} \X (1..n))
         /\ IsFiniteSet(Cells(S \cup {id}, table))
         /\ Cardinality(Cells(S \cup {id}, table)) = Cardinality(Cells(S, table)) + n
<1> DEFINE A == Cells(S, table)
           B == {id} \X (1..n)
<1>1. Cells(S \cup {id}, table) = A \cup B
  BY DEF Cells
<1>2. A \cap B = {}
  BY DEF Cells
<1>3. IsFiniteSet(B) /\ Cardinality(B) = n
  <2>1. IsFiniteSet(1..n) /\ Cardinality(1..n) = n
    BY FS_Interval
  <2>2. IsFiniteSet({id}) /\ Cardinality({id}) = 1
    BY FS_Singleton
  <2>3. /\ IsFiniteSet({id} \X (1..n))
        /\ Cardinality({id} \X (1..n)) = Cardinality({id}) * Cardinality(1..n)
    BY <2>1, <2>2, FS_Product, Zenon
  <2>4. QED
    BY <2>1, <2>2, <2>3
<1> HIDE DEF A, B
<1>4. IsFiniteSet(A)
  BY Zenon DEF A
<1>5. /\ IsFiniteSet(A \cup B)
      /\ Cardinality(A \cup B) = Cardinality(A) + Cardinality(B) - Cardinality(A \cap B)
  BY <1>3, <1>4, FS_Union
<1>6. Cardinality({}) = 0 /\ Cardinality(A) \in Nat
  BY <1>4, FS_EmptySet, FS_CardinalityType
<1>7. Cardinality(A \cup B) = Cardinality(A) + n
  <2>1. Cardinality(A \cap B) = 0
    BY <1>2, <1>6, Zenon
  <2>2. QED
    BY <1>3, <1>5, <1>6, <2>1
<1>8. QED
  BY <1>1, <1>5, <1>7 DEF A, B

(* one request less *)
LEMMA CellsLess ==
  ASSUME NEW S, NEW table, NEW id \in S, table[id] \in Nat,
         IsFiniteSet(Cells(S, table))
  PROVE  /\ IsFiniteSet(Cells(S \ {id}, table))
         /\ Cardinality(Cells(S, table)) =
              Cardinality(Cells(S \ {id}, table)) + table[id]
<1> DEFINE R == S \ {id}
<1>1. Cells(R, table) \subseteq Cells(S, table)
  BY DEF Cells
<1>2. IsFiniteSet(Cells(R, table))
  BY <1>1, FS_Subset
<1>3. id \notin R /\ R \cup {id} = S
  OBVIOUS
<1> HIDE DEF R
<1>4. Cardinality(Cells(R \cup {id}, table)) = Cardinality(Cells(R, table)) + table[id]
  BY <1>2, <1>3, CellsWith
<1>5. QED
  BY <1>2, <1>3, <1>4 DEF R

(* What the next operation does to the requests whose latest operation is  *)
(* no free, and to their bytes.                                            *)
LEMMA LatestStep ==
  ASSUME NEW ops, NEW n \in Nat
  PROVE  Latest(ops, n + 1) =
           {j \in Latest(ops, n) : ops[j].id # ops[n + 1].id} \cup
           (IF ops[n + 1].type = "free" THEN {} ELSE {n + 1})
<1>1. 1..n + 1 = (1..n) \cup {n + 1} /\ n + 1 \notin 1..n
  OBVIOUS
<1>2. \A j \in 1..n : j + 1..n + 1 = (j + 1..n) \cup {n + 1}
  OBVIOUS
<1>3. (n + 1) + 1..n + 1 = {}
  OBVIOUS
<1>4. \A j \in 1..n : j \in Latest(ops, n + 1) <=>
                      j \in Latest(ops, n) /\ ops[j].id # ops[n + 1].id
  <2> SUFFICES ASSUME NEW j \in 1..n
               PROVE  j \in Latest(ops, n + 1) <=>
                        j \in Latest(ops, n) /\ ops[j].id # ops[n + 1].id
    OBVIOUS
  <2>1. j + 1..n + 1 = (j + 1..n) \cup {n + 1} /\ j \in 1..n + 1
    BY <1>1, <1>2
  <2>2. (\A l \in j + 1..n + 1 : ops[l].id # ops[j].id) <=>
          (\A l \in j + 1..n : ops[l].id # ops[j].id) /\ ops[n + 1].id # ops[j].id
    BY <2>1, Zenon
  <2>3. QED
    BY <2>1, <2>2, Zenon DEF Latest
<1>5. n + 1 \in Latest(ops, n + 1) <=> ops[n + 1].type # "free"
  BY <1>1, <1>3, Zenon DEF Latest
<1>6. Latest(ops, n) \subseteq 1..n /\ Latest(ops, n + 1) \subseteq 1..n + 1
  BY Zenon DEF Latest
<1>7. QED
  BY <1>1, <1>4, <1>5, <1>6

LEMMA BytesStep ==
  ASSUME NEW ops, NEW n \in Nat
  PROVE  Bytes(ops, n + 1) =
           {c \in Bytes(ops, n) : c[1] # ops[n + 1].id} \cup
           (IF ops[n + 1].type = "free" THEN {}
            ELSE {ops[n + 1].id} \X (1..ops[n + 1].size))
<1> DEFINE L == Latest(ops, n)
           m == n + 1
           id == ops[n + 1].id
           Of(j) == {ops[j].id} \X (1..ops[j].size)
<1>1. Latest(ops, n + 1) = {j \in L : ops[j].id # id} \cup
                             (IF ops[m].type = "free" THEN {} ELSE {m})
  BY LatestStep
<1>2. Bytes(ops, n) = UNION {Of(j) : j \in L}
  BY DEF Bytes
<1>3. Bytes(ops, n + 1) = UNION {Of(j) : j \in Latest(ops, n + 1)}
  BY DEF Bytes
<1>4. \A j : \A c \in Of(j) : c[1] = ops[j].id
  OBVIOUS
<1> HIDE DEF Of, L, m, id
<1>5. UNION {Of(j) : j \in {k \in L : ops[k].id # id}}
        = {c \in UNION {Of(j) : j \in L} : c[1] # id}
  BY <1>4
<1>6. UNION {Of(j) : j \in Latest(ops, n + 1)}
        = (UNION {Of(j) : j \in {k \in L : ops[k].id # id}}) \cup
          (IF ops[m].type = "free" THEN {} ELSE Of(m))
  BY <1>1
<1>7. QED
  BY <1>2, <1>3, <1>5, <1>6 DEF Of, m, id

-----------------------------------------------------------------------------
(* eval_mm_util's counters, in the middle of a trace *)
Counters ==
  LET ops == Suite[trace]
  IN /\ LiveIds \subseteq DOMAIN sizes
     /\ \A id \in LiveIds : sizes[id] \in Nat \ {0}
     /\ IsFiniteSet(Cells(LiveIds, sizes))
     /\ Bytes(ops, i - 1) = Cells(LiveIds, sizes)
     /\ total = Cardinality(Cells(LiveIds, sizes))
     /\ hwm \in Nat
     /\ \A n \in 0..i - 1 : LiveBytes(n) \in 0..hwm
     /\ \E n \in 0..i - 1 : LiveBytes(n) = hwm

(* what one operation of eval_mm_util does to them *)
Counts(type) ==
  /\ type \in {"alloc", "realloc", "free"} /\ AtOp(type) /\ Accept
  /\ sizes' = IF type = "free" THEN sizes ELSE Store(sizes, Op.id, Op.size)
  /\ total' = CASE type = "alloc"   -> total + Op.size
               [] type = "realloc" -> total + (Op.size - sizes[Op.id])
               [] type = "free"    -> total - sizes[Op.id]
  /\ hwm' = IF type # "free" /\ total' > hwm THEN total' ELSE hwm

LEMMA CountersStep ==
  ASSUME IInv, i \in Nat \ {0}, Counters, NEW type, Counts(type)
  PROVE  Counters' /\ total' = Cardinality(Cells(LiveIds', sizes')) /\ total' \in Nat
<1> DEFINE ops == Suite[trace]
           id == Op.id
<1>0. /\ type \in {"alloc", "realloc", "free"} /\ AtOp(type) /\ Accept
      /\ sizes' = IF type = "free" THEN sizes ELSE Store(sizes, Op.id, Op.size)
      /\ total' = CASE type = "alloc"   -> total + Op.size
                   [] type = "realloc" -> total + (Op.size - sizes[Op.id])
                   [] type = "free"    -> total - sizes[Op.id]
      /\ hwm' = IF type # "free" /\ total' > hwm THEN total' ELSE hwm
  BY Zenon DEF Counts
<1>1. /\ Op.type = type
      /\ type = "alloc" <=> Op.id \notin LiveIds
      /\ type # "free" => Op.size \in Nat \ {0}
  BY <1>0, OpFacts
<1>2. /\ LiveIds' = IF type = "free" THEN LiveIds \ {id} ELSE LiveIds \cup {id}
      /\ i' = i + 1 /\ Suite' = Suite /\ trace' = trace
  BY <1>0, <1>1, LiveAfter DEF Accept, driver, Suite
<1>3. /\ LiveIds \subseteq DOMAIN sizes
      /\ \A x \in LiveIds : sizes[x] \in Nat \ {0}
      /\ IsFiniteSet(Cells(LiveIds, sizes))
      /\ Bytes(ops, i - 1) = Cells(LiveIds, sizes)
      /\ total = Cardinality(Cells(LiveIds, sizes))
      /\ hwm \in Nat
      /\ \A n \in 0..i - 1 : LiveBytes(n) \in 0..hwm
      /\ \E n \in 0..i - 1 : LiveBytes(n) = hwm
  BY Zenon DEF Counters
<1>4. /\ \A x \in LiveIds \ {id} : sizes'[x] = sizes[x]
      /\ type # "free" => sizes'[id] = Op.size
      /\ LiveIds' \subseteq DOMAIN sizes'
  BY <1>0, <1>2, <1>3 DEF Store
<1>5. \A x \in LiveIds' : sizes'[x] \in Nat \ {0}
  BY <1>1, <1>2, <1>3, <1>4
<1>6. Bytes(ops, i) = Cells(LiveIds', sizes')
  <2> DEFINE m == i - 1
  <2>1. m \in Nat /\ m + 1 = i /\ ops[i] = Op
    BY DEF Op
  <2>2. Bytes(ops, m) = Cells(LiveIds, sizes)
    BY <1>3
  <2> HIDE DEF m, ops
  <2> HIDE DEF id
  <2>3. ops[m + 1].id = id /\ ops[m + 1].size = Op.size /\ ops[m + 1].type = type
    BY <1>1, <2>1 DEF id
  <2>4. Bytes(ops, m + 1) =
          {c \in Bytes(ops, m) : c[1] # id} \cup
          (IF type = "free" THEN {} ELSE {id} \X (1..Op.size))
    <3>1. Bytes(ops, m + 1) =
            {c \in Bytes(ops, m) : c[1] # ops[m + 1].id} \cup
            (IF ops[m + 1].type = "free" THEN {}
             ELSE {ops[m + 1].id} \X (1..ops[m + 1].size))
      BY <2>1, BytesStep
    <3>2. ops[m + 1].id = id /\ {ops[m + 1].id} \X (1..ops[m + 1].size) = {id} \X (1..Op.size)
      BY <2>3
    <3>3. {c \in Bytes(ops, m) : c[1] # ops[m + 1].id} = {c \in Bytes(ops, m) : c[1] # id}
      BY <2>3, Zenon
    <3>4. QED
      BY <2>3, <3>1, <3>2, <3>3, Zenon
  <2>5. {c \in Bytes(ops, m) : c[1] # id} = Cells(LiveIds \ {id}, sizes')
    BY <1>4, <2>2 DEF Cells
  <2>6. type # "free" => Cells(LiveIds \cup {id}, sizes') =
          Cells(LiveIds \ {id}, sizes') \cup ({id} \X (1..Op.size))
    BY <1>4 DEF Cells
  <2>7. QED
    BY <1>2, <2>1, <2>4, <2>5, <2>6
<1>7. /\ IsFiniteSet(Cells(LiveIds', sizes'))
      /\ total' = Cardinality(Cells(LiveIds', sizes'))
      /\ total' \in Nat /\ total \in Nat /\ (type = "free" => total' <= total)
  <2> DEFINE R == LiveIds \ {id}
             r == Cardinality(Cells(R, sizes))
  <2>1. IsFiniteSet(Cells(R, sizes)) /\ type # "free" =>
          /\ IsFiniteSet(Cells(LiveIds', sizes'))
          /\ Cardinality(Cells(LiveIds', sizes')) = r + Op.size
    <3> SUFFICES ASSUME IsFiniteSet(Cells(R, sizes)), type # "free"
                 PROVE  /\ IsFiniteSet(Cells(LiveIds', sizes'))
                        /\ Cardinality(Cells(LiveIds', sizes')) = r + Op.size
      OBVIOUS
    <3>1. Cells(R, sizes') = Cells(R, sizes)
      BY <1>4 DEF Cells
    <3>2. id \notin R /\ R \cup {id} = LiveIds' /\ Op.size \in Nat /\ sizes'[id] = Op.size
      BY <1>1, <1>2, <1>4
    <3> HIDE DEF R, id
    <3>3. IsFiniteSet(Cells(R, sizes'))
      BY <3>1
    <3>4. /\ IsFiniteSet(Cells(R \cup {id}, sizes'))
          /\ Cardinality(Cells(R \cup {id}, sizes')) = Cardinality(Cells(R, sizes')) + Op.size
      BY <3>2, <3>3, CellsWith
    <3>5. QED
      BY <3>1, <3>2, <3>4
  <2>2. CASE id \in LiveIds
    <3>1. /\ IsFiniteSet(Cells(R, sizes)) /\ total = r + sizes[id]
          /\ sizes[id] \in Nat
      <4>1. sizes[id] \in Nat
        BY <1>3, <2>2
      <4> HIDE DEF id
      <4>2. QED
        BY <1>3, <2>2, <4>1, CellsLess
    <3>2. r \in Nat
      BY <3>1, FS_CardinalityType
    <3> HIDE DEF r
    <3>3. /\ total \in Nat
          /\ type = "free" => total' = r /\ LiveIds' = R /\ sizes' = sizes
          /\ type # "free" => total' = r + Op.size
      BY <1>0, <1>1, <1>2, <2>2, <3>1, <3>2
    <3>4. CASE type = "free"
      BY <1>2, <3>1, <3>2, <3>3, <3>4 DEF r
    <3>5. CASE type # "free"
      BY <1>1, <3>1, <3>2, <3>3, <2>1, <3>5 DEF r
    <3>6. QED
      BY <3>4, <3>5
  <2>3. CASE id \notin LiveIds
    <3>1. R = LiveIds /\ type = "alloc" /\ total' = total + Op.size
      BY <1>0, <1>1, <2>3
    <3>2. IsFiniteSet(Cells(R, sizes)) /\ r = total /\ r \in Nat
      BY <1>3, <3>1, FS_CardinalityType
    <3> HIDE DEF R, r
    <3>3. /\ IsFiniteSet(Cells(LiveIds', sizes'))
          /\ Cardinality(Cells(LiveIds', sizes')) = r + Op.size
      BY <2>1, <3>1, <3>2 DEF r
    <3>4. QED
      BY <1>1, <3>1, <3>2, <3>3
  <2>4. QED
    BY <2>2, <2>3
<1>8. /\ \A n : LiveBytes(n)' = LiveBytes(n)
      /\ LiveBytes(i) = total' /\ LiveBytes(i - 1) = total
  <2>1. Suite'[trace'] = Suite[trace]
    BY <1>2
  <2>2. \A n : LiveBytes(n)' = LiveBytes(n)
    BY <2>1 DEF LiveBytes
  <2>3. QED
    BY <1>3, <1>6, <1>7, <2>2 DEF LiveBytes
<1>9. /\ hwm' \in Nat
      /\ \A n \in 0..i' - 1 : LiveBytes(n) \in 0..hwm'
      /\ \E n \in 0..i' - 1 : LiveBytes(n) = hwm'
  <2>1. 0..i' - 1 = (0..i - 1) \cup {i} /\ i - 1 \in 0..i - 1
    BY <1>2
  <2>2. total <= hwm
    BY <1>3, <1>8, <2>1
  <2>3. hwm' \in Nat /\ hwm <= hwm' /\ total' <= hwm' /\ hwm' \in {hwm, total'}
    BY <1>0, <1>3, <1>7, <2>2
  <2>4. QED
    BY <1>3, <1>7, <1>8, <2>1, <2>2, <2>3
<1>10. Counters'
  <2>1. /\ \A n \in 0..i' - 1 : LiveBytes(n)' \in 0..hwm'
        /\ \E n \in 0..i' - 1 : LiveBytes(n)' = hwm'
    BY <1>8, <1>9
  <2>2. Bytes(Suite'[trace'], i' - 1) = Cells(LiveIds', sizes')
    BY <1>2, <1>6
  <2>3. QED
    BY <1>4, <1>5, <1>7, <1>9, <2>1, <2>2, Zenon DEF Counters
<1>11. QED
  BY <1>7, <1>10

-----------------------------------------------------------------------------
(* every request of the first n operations has an entry in the tables *)
Stored(n) ==
  \A k \in 1..n : Suite[trace][k].type # "free" => Suite[trace][k].id \in DOMAIN sizes

(* trace->blocks and trace->block_sizes *)
Tables ==
  /\ ~Before /\ phase # "exited" => DOMAIN blocks = DOMAIN sizes
  /\ \A id \in DOMAIN blocks : blocks[id] \in Addr \cup LibcAddr
  /\ phase = "util" => Stored(i - 1)
  /\ phase = "speed" => Stored(Len(Suite[trace]))

UInv ==
  /\ i \in 1..Len(Suite[trace]) + 1 /\ round \in 0..SpeedRuns
  /\ libc \subseteq LibcAddr /\ errors <= LastTrace
  /\ Tables
  /\ total \in Nat /\ hwm \in Nat
  /\ phase = "util" => Counters

LEMMA TraceLength ==
  ASSUME NEW s \in Settings, NEW t \in 1..Len(s.suite)
  PROVE  /\ Len(s.suite[t]) \in Nat
         /\ DOMAIN s.suite[t] = 1..Len(s.suite[t])
<1>1. WellFormed(s.suite[t])
  BY MDriverAssumption, Zenon
<1>2. QED
  BY <1>1, Zenon DEF WellFormed

LEMMA PositionKeeps ==
  ASSUME IInv, HInv, UInv, [Next]_vars
  PROVE  i' \in 1..Len(Suite'[trace']) + 1 /\ round' \in 0..SpeedRuns
<1>1. IInv'
  BY StepKeeps
<1>2. /\ Len(Suite[trace]) \in Nat /\ DOMAIN Suite[trace] = 1..Len(Suite[trace])
      /\ Len(Suite'[trace']) \in Nat
  BY <1>1, TraceLength DEF IInv, LastTrace, Suite
<1>3. i \in 1..Len(Suite[trace]) + 1 /\ round \in 0..SpeedRuns /\ SpeedRuns \in Nat \ {0}
  BY MDriverAssumption DEF UInv
<1>4. job' = job /\ trace' = trace => Suite'[trace'] = Suite[trace]
  BY DEF Suite
<1>5. CASE i' = 1 /\ round' \in {0, 1, round}
  BY <1>2, <1>3, <1>5
<1>6. CASE i' = 1 /\ round < SpeedRuns /\ round' = round + 1
  BY <1>2, <1>3, <1>6
<1>7. CASE job' = job /\ trace' = trace /\ i' = i /\ round' = round
  BY <1>3, <1>4, <1>7
<1>8. CASE Accept /\ i \in DOMAIN Suite[trace]
  BY <1>2, <1>3, <1>4, <1>8 DEF Accept, driver
<1>9. CASE LibcEvaluation
  <2>1. CASE LibcAlloc \/ LibcRealloc \/ LibcFree
    BY <1>8, <2>1 DEF LibcAlloc, LibcRealloc, LibcFree, Libc, AtOp
  <2>2. CASE LibcRefuse \/ LibcAgain \/ LibcEnd
    BY <1>5, <1>6, <1>7, <2>2 DEF LibcRefuse, LibcAgain, LibcEnd
  <2>3. QED
    BY <1>9, <2>1, <2>2 DEF LibcEvaluation
<1>10. CASE MmEvaluation
  <2>1. ASSUME NEW p \in Addr, ValidMalloc(p)
        PROVE  (Accept /\ i \in DOMAIN Suite[trace])
               \/ (job' = job /\ trace' = trace /\ i' = i /\ round' = round)
    BY <2>1 DEF ValidMalloc, Complain, AtOp
  <2>2. ASSUME NEW p \in Addr, ValidRealloc(p)
        PROVE  (Accept /\ i \in DOMAIN Suite[trace])
               \/ (job' = job /\ trace' = trace /\ i' = i /\ round' = round)
    BY <2>2, Zenon DEF ValidRealloc, Complain, AtOp
  <2>3. ASSUME NEW p \in Addr,
               UtilMalloc(p) \/ UtilRealloc(p) \/ SpeedMalloc(p) \/ SpeedRealloc(p)
        PROVE  Accept /\ i \in DOMAIN Suite[trace]
    BY <2>3 DEF UtilMalloc, UtilRealloc, SpeedMalloc, SpeedRealloc, AtOp
  <2>4. CASE ValidFree \/ UtilFree \/ SpeedFree
    BY <1>8, <2>4 DEF ValidFree, UtilFree, SpeedFree, AtOp
  <2>5. CASE Refuse \/ Finish
    BY <1>7, <2>5 DEF Refuse, Complain, Finish
  <2>6. CASE ValidEnd \/ UtilEnd \/ NextTrace
    BY <1>5, <2>6 DEF ValidEnd, UtilEnd, NextTrace, Begin
  <2>7. CASE SpeedEnd
    BY <1>6, <1>7, <2>7 DEF SpeedEnd, Begin
  <2>8. QED
    BY <1>7, <1>8, <1>10, <2>1, <2>2, <2>3, <2>4, <2>5, <2>6, <2>7 DEF MmEvaluation
<1>11. CASE UNCHANGED vars
  BY <1>7, <1>11 DEF vars, mmvars, driver
<1>12. QED
  BY <1>9, <1>10, <1>11 DEF Next

(* No trace counts for more than one error, whatever ends the program.     *)
LEMMA ErrorsBounded ==
  ASSUME IInv, UInv, [Next]_vars
  PROVE  errors' <= LastTrace'
<1>1. IInv'
  BY StepKeeps
<1>2. LastTrace' \in Nat /\ LastTrace \in Nat /\ LastTrace >= 1
  <2>1. job \in Settings /\ job' \in Settings
    BY <1>1 DEF IInv
  <2>2. \A s \in Settings : Len(s.suite) \in Nat \ {0}
    BY MDriverAssumption
  <2>3. QED
    BY <2>1, <2>2 DEF LastTrace, Suite
<1>3. CASE phase' # "exited"
  <2>1. Cardinality(valid') \in Nat
    <3>1. valid' \subseteq 1..trace' /\ trace' \in Nat
      BY <1>1, <1>2 DEF IInv
    <3>2. QED
      BY <3>1, TracesFinite
  <2>2. /\ trace' \in 1..LastTrace' /\ errors' \in Nat
        /\ \/ errors' = 0
           \/ errors' + Cardinality(valid') \in {trace' - 1, trace'}
    BY <1>1, <1>3 DEF IInv, Passed, Before
  <2>3. QED
    BY <1>2, <2>1, <2>2
<1>4. CASE phase' = "exited"
  <2>1. errors <= LastTrace
    BY DEF UInv
  <2>2. \/ errors' = errors /\ LastTrace' = LastTrace
        \/ errors' = errors + 1 /\ errors = 0 /\ LastTrace' = LastTrace
    <3>1. CASE LibcRefuse
      BY <3>1 DEF LibcRefuse, LibcPhase, IInv, Before, LastTrace, Suite
    <3>2. CASE Refuse
      BY <1>4, <3>2 DEF Refuse, Complain, LastTrace, Suite
    <3>3. CASE UNCHANGED vars
      BY <3>3 DEF vars, mmvars, driver, LastTrace, Suite
    <3>4. CASE Stays
      BY <3>4 DEF Stays, LastTrace, Suite
    <3>5. QED
      <4>1. ASSUME LibcEvaluation, ~LibcRefuse
            PROVE  phase' # "exited" \/ Stays
        <5>1. CASE LibcAlloc \/ LibcRealloc \/ LibcFree
          BY <5>1 DEF LibcAlloc, LibcRealloc, LibcFree, Libc, Accept, driver, Stays
        <5>2. CASE LibcAgain \/ LibcEnd
          BY <5>2 DEF LibcAgain, LibcEnd
        <5>3. QED
          BY <4>1, <5>1, <5>2 DEF LibcEvaluation
      <4>2. ASSUME MmEvaluation, ~Refuse
            PROVE  phase' # "exited" \/ Stays
        <5>1. ASSUME NEW p \in Addr, ValidMalloc(p)
              PROVE  Stays \/ phase' = "next"
          BY <5>1 DEF ValidMalloc, Accept, Complain, driver, Stays
        <5>2. ASSUME NEW p \in Addr, ValidRealloc(p)
              PROVE  Stays \/ phase' = "next"
          BY <5>2 DEF ValidRealloc, Accept, Complain, driver, Stays
        <5>3. ASSUME NEW p \in Addr,
                     UtilMalloc(p) \/ UtilRealloc(p) \/ SpeedMalloc(p) \/ SpeedRealloc(p)
              PROVE  Stays
          BY <5>3 DEF UtilMalloc, UtilRealloc, SpeedMalloc, SpeedRealloc, Accept,
                      driver, Stays
        <5>4. CASE ValidFree \/ UtilFree \/ SpeedFree
          BY <5>4 DEF ValidFree, UtilFree, SpeedFree, Accept, driver, Stays
        <5>5. CASE ValidEnd \/ UtilEnd \/ SpeedEnd \/ NextTrace \/ Finish
          BY <5>5 DEF ValidEnd, UtilEnd, SpeedEnd, NextTrace, Finish, Begin
        <5>6. QED
          BY <4>2, <5>1, <5>2, <5>3, <5>4, <5>5 DEF MmEvaluation
      <4>3. QED
        BY <1>4, <3>1, <3>2, <3>3, <3>4, <4>1, <4>2 DEF Next
  <2>3. QED
    BY <1>2, <2>1, <2>2
<1>5. QED
  BY <1>3, <1>4

(* The C library's blocks are its own, wherever the driver keeps them.     *)
LEMMA LibraryKeeps ==
  ASSUME IInv, HInv, UInv, [Next]_vars
  PROVE  libc' \subseteq LibcAddr
<1>1. libc \subseteq LibcAddr
  BY DEF UInv
<1>2. CASE libc' = libc
  BY <1>1, <1>2
<1>3. CASE LibcAlloc
  BY <1>1, <1>3 DEF LibcAlloc, LibcMalloc
<1>4. CASE LibcRealloc
  <2>1. Op.id \in LiveIds /\ Before
    BY <1>4, OpFacts DEF LibcRealloc, LibcPhase, Before
  <2>2. blocks[Op.id] \in libc
    <3>1. blocks[Op.id] \in Places
      BY <2>1 DEF Places
    <3>2. QED
      BY <2>1, <3>1 DEF HInv
  <2>3. QED
    BY <1>1, <1>4, <2>2 DEF LibcRealloc, LibcMalloc
<1>5. CASE LibcFree
  BY <1>1, <1>5 DEF LibcFree
<1>6. CASE LibcRefuse \/ LibcAgain \/ LibcEnd
  BY <1>2, <1>6 DEF LibcRefuse, LibcAgain, LibcEnd
<1>7. QED
  BY <1>2, <1>3, <1>4, <1>5, <1>6 DEF Next, LibcEvaluation, vars

LEMMA TablesKeep ==
  ASSUME IInv, RInv, HInv, UInv, [Next]_vars
  PROVE  Tables'
<1>1. /\ Len(Suite[trace]) \in Nat /\ DOMAIN Suite[trace] = 1..Len(Suite[trace])
      /\ i \in 1..Len(Suite[trace]) + 1
  BY TraceLength DEF IInv, LastTrace, Suite, UInv
<1>2. /\ ~Before /\ phase # "exited" => DOMAIN blocks = DOMAIN sizes
      /\ \A id \in DOMAIN blocks : blocks[id] \in Addr \cup LibcAddr
      /\ phase = "util" => Stored(i - 1)
      /\ phase = "speed" => Stored(Len(Suite[trace]))
  BY DEF UInv, Tables
<1> DEFINE ValuesOK == \A id \in DOMAIN blocks' : blocks'[id] \in Addr \cup LibcAddr
<1>3. ASSUME NEW id, NEW q \in Addr \cup LibcAddr, blocks' = Store(blocks, id, q)
      PROVE  ValuesOK
  BY <1>2, <1>3 DEF Store
<1>4. CASE blocks' = blocks /\ sizes' = sizes /\ phase' \in {"next", "done", "exited"}
           /\ ((~Before /\ phase # "exited") \/ phase' = "exited")
  BY <1>2, <1>4 DEF Tables, Before
<1>5. Accept => Suite'[trace'] = Suite[trace] /\ phase' = phase /\ i' - 1 = i
  BY <1>1 DEF Accept, driver, Suite
<1>6. CASE LibcEvaluation
  <2>1. CASE LibcAlloc \/ LibcRealloc \/ LibcFree
    <3>1. PICK q \in LibcAddr \cup {blocks[Op.id]} :
            blocks' = Store(blocks, Op.id, q) /\ Before /\ Accept
      BY <2>1 DEF LibcAlloc, LibcRealloc, LibcFree, Libc, LibcMalloc, LibcPhase, Before
    <3>2. q \in Addr \cup LibcAddr
      <4>1. LibcAlloc => \E p \in LibcAddr : blocks' = Store(blocks, Op.id, p)
        BY DEF LibcAlloc, LibcMalloc, Libc
      <4>2. ~LibcAlloc => Op.id \in DOMAIN blocks
        BY <2>1 DEF LibcRealloc, LibcFree
      <4>3. q = blocks'[Op.id]
        BY <3>1 DEF Store
      <4>4. QED
        BY <1>2, <3>1, <4>1, <4>2, <4>3 DEF Store
    <3>3. ValuesOK
      BY <1>3, <3>1, <3>2
    <3>4. Before' /\ phase' # "util" /\ phase' # "speed"
      BY <1>5, <3>1 DEF Before
    <3>5. QED
      BY <3>3, <3>4 DEF Tables
  <2>2. CASE LibcRefuse
    BY <1>4, <2>2 DEF LibcRefuse
  <2>3. CASE LibcAgain
    BY <1>2, <2>3 DEF LibcAgain, Tables, Before
  <2>4. CASE LibcEnd
    <3>1. /\ blocks' = << >> /\ sizes' = sizes /\ sizes = << >>
          /\ phase' \in {"libc_valid", "valid"}
      BY <2>4 DEF LibcEnd, RInv, Before
    <3>2. QED
      BY <3>1 DEF Tables
  <2>5. QED
    BY <1>6, <2>1, <2>2, <2>3, <2>4 DEF LibcEvaluation
<1>7. ASSUME NEW p \in Addr, NEW type, AtOp(type), Accept, type # "free",
             \/ phase \in {"valid", "util"} /\ sizes' = Store(sizes, Op.id, Op.size)
             \/ phase = "speed" /\ sizes' = sizes,
             blocks' = Store(blocks, Op.id, p)
      PROVE  Tables'
  <2>1. ValuesOK /\ DOMAIN blocks = DOMAIN sizes
    BY <1>2, <1>3, <1>7 DEF Before
  <2>2. /\ DOMAIN blocks' = DOMAIN blocks \cup {Op.id}
        /\ i \in DOMAIN Suite[trace] /\ Suite[trace][i] = Op /\ Op.type # "free"
    BY <1>7 DEF AtOp, Op, Store
  <2>3. CASE phase \in {"valid", "util"}
    <3>1. DOMAIN sizes' = DOMAIN sizes \cup {Op.id}
      BY <1>7, <2>3 DEF Store
    <3>2. phase = "util" => Stored(i - 1)'
      <4>1. i' - 1 = i /\ 1..i = (1..i - 1) \cup {i}
        BY <1>1, <1>5, <1>7
      <4>2. QED
        BY <1>2, <1>5, <1>7, <2>2, <3>1, <4>1 DEF Stored
    <3>3. QED
      BY <1>5, <1>7, <2>1, <2>2, <2>3, <3>1, <3>2 DEF Tables, Stored
  <2>4. CASE phase = "speed"
    <3>1. sizes' = sizes
      BY <1>7, <2>4
    <3>2. Op.id \in DOMAIN sizes
      BY <1>1, <1>2, <2>2, <2>4 DEF Stored
    <3>3. Stored(Len(Suite[trace]))'
      BY <1>2, <1>5, <1>7, <2>4, <3>1 DEF Stored
    <3>4. QED
      BY <1>5, <1>7, <2>1, <2>2, <2>4, <3>1, <3>2, <3>3 DEF Tables
  <2>5. QED
    BY <1>7, <2>3, <2>4
<1>8. CASE MmEvaluation
  <2>1. ASSUME NEW p \in Addr, ValidMalloc(p)
        PROVE  Tables'
    <3>1. phase = "valid" /\ AtOp("alloc")
      BY <2>1 DEF ValidMalloc
    <3>2. \/ phase' = "next" /\ blocks' = blocks /\ sizes' = sizes
          \/ /\ Accept /\ blocks' = Store(blocks, Op.id, p)
             /\ sizes' = Store(sizes, Op.id, Op.size)
      BY <2>1 DEF ValidMalloc, Complain
    <3>3. QED
      BY <1>4, <1>7, <3>1, <3>2 DEF Before
  <2>2. ASSUME NEW q \in Addr, ValidRealloc(q)
        PROVE  Tables'
    <3>1. phase = "valid" /\ AtOp("realloc")
      BY <2>2, Zenon DEF ValidRealloc
    <3>2. \/ phase' = "next" /\ blocks' = blocks /\ sizes' = sizes
          \/ /\ Accept /\ blocks' = Store(blocks, Op.id, q)
             /\ sizes' = Store(sizes, Op.id, Op.size)
      BY <2>2, Zenon DEF ValidRealloc, Complain
    <3>3. QED
      BY <1>4, <1>7, <3>1, <3>2 DEF Before
  <2>3. ASSUME NEW p \in Addr,
               UtilMalloc(p) \/ UtilRealloc(p) \/ SpeedMalloc(p) \/ SpeedRealloc(p)
        PROVE  Tables'
    <3>1. /\ AtOp("alloc") \/ AtOp("realloc")
          /\ Accept /\ blocks' = Store(blocks, Op.id, p)
          /\ \/ phase = "util" /\ sizes' = Store(sizes, Op.id, Op.size)
             \/ phase = "speed" /\ sizes' = sizes
      BY <2>3 DEF UtilMalloc, UtilRealloc, SpeedMalloc, SpeedRealloc
    <3>2. QED
      BY <1>7, <3>1
  <2>4. CASE ValidFree \/ UtilFree \/ SpeedFree
    <3>1. /\ AtOp("free") /\ Accept /\ blocks' = blocks /\ sizes' = sizes
          /\ phase \in {"valid", "util", "speed"}
      BY <2>4 DEF ValidFree, UtilFree, SpeedFree
    <3>2. phase = "util" => Stored(i - 1)'
      <4>1. i' - 1 = i /\ 1..i = (1..i - 1) \cup {i} /\ Suite[trace][i].type = "free"
        BY <1>1, <1>5, <3>1 DEF AtOp, Op
      <4>2. QED
        BY <1>2, <1>5, <3>1, <4>1 DEF Stored
    <3>3. QED
      BY <1>2, <1>5, <3>1, <3>2 DEF Tables, Stored, Before
  <2>5. CASE Refuse \/ Finish
    BY <1>4, <2>5 DEF Refuse, Finish, Complain, Before
  <2>6. CASE ValidEnd
    <3>1. blocks' = blocks /\ sizes' = sizes /\ phase' = "util" /\ i' = 1 /\ phase = "valid"
      BY <2>6 DEF ValidEnd, Begin
    <3>2. Stored(i - 1)'
      <4>1. 1..i' - 1 = {}
        BY <3>1
      <4>2. QED
        BY <4>1 DEF Stored
    <3>3. QED
      BY <1>2, <3>1, <3>2 DEF Tables, Before
  <2>7. CASE UtilEnd \/ SpeedEnd
    <3>1. /\ blocks' = blocks /\ sizes' = sizes /\ Suite' = Suite /\ trace' = trace
          /\ phase' \in {"speed", "next"} /\ phase \in {"util", "speed"}
          /\ phase = "util" => i = Len(Suite[trace]) + 1
      BY <2>7 DEF UtilEnd, SpeedEnd, Begin, AtEnd, Suite
    <3>2. Stored(Len(Suite[trace]))
      <4>1. phase = "util" => i - 1 = Len(Suite[trace])
        BY <1>1, <3>1
      <4>2. QED
        BY <1>2, <3>1, <4>1
    <3>3. Stored(Len(Suite[trace]))'
      BY <3>1, <3>2 DEF Stored
    <3>4. QED
      BY <1>2, <3>1, <3>3 DEF Tables, Before
  <2>8. CASE NextTrace
    BY <2>8 DEF NextTrace, Begin, Tables
  <2>9. QED
    BY <1>8, <2>1, <2>2, <2>3, <2>4, <2>5, <2>6, <2>7, <2>8 DEF MmEvaluation
<1>9. CASE UNCHANGED vars
  <2>1. /\ phase' = phase /\ sizes' = sizes /\ blocks' = blocks
        /\ i' = i /\ trace' = trace /\ job' = job
    BY <1>9 DEF vars, mmvars, driver
  <2>2. QED
    BY <1>2, <2>1 DEF Tables, Stored, Suite, Before
<1>10. QED
  BY <1>6, <1>8, <1>9 DEF Next

LEMMA CountersStart ==
  ASSUME i' = 1, total' = 0, hwm' = 0
  PROVE  Counters'
<1>1. LiveIds' = {}
  <2>1. LiveIds' = LiveBefore(Suite'[trace'], 1)
    BY DEF LiveIds
  <2>2. QED
    BY <2>1, LiveAtStart
<1>2. \A table : Cells({}, table) = {}
  BY DEF Cells
<1>3. \A ops : Bytes(ops, 0) = {}
  <2>1. \A ops : Latest(ops, 0) = {}
    BY DEF Latest
  <2>2. QED
    BY <2>1 DEF Bytes
<1>4. IsFiniteSet({}) /\ Cardinality({}) = 0
  BY FS_EmptySet
<1>5. i' - 1 = 0 /\ 0..i' - 1 = {0}
  OBVIOUS
<1>6. LiveBytes(0)' = 0
  BY <1>3, <1>4 DEF LiveBytes
<1>7. /\ \A n \in 0..i' - 1 : LiveBytes(n)' \in 0..hwm'
      /\ \E n \in 0..i' - 1 : LiveBytes(n)' = hwm'
  BY <1>5, <1>6
<1>8. /\ Bytes(Suite'[trace'], i' - 1) = Cells(LiveIds', sizes')
      /\ IsFiniteSet(Cells(LiveIds', sizes'))
      /\ total' = Cardinality(Cells(LiveIds', sizes'))
  BY <1>1, <1>2, <1>3, <1>4, <1>5
<1>9. /\ LiveIds' \subseteq DOMAIN sizes' /\ hwm' \in Nat
      /\ \A id \in LiveIds' : sizes'[id] \in Nat \ {0}
  BY <1>1
<1>10. QED
  BY <1>7, <1>8, <1>9, Zenon DEF Counters

LEMMA CountersKeep ==
  ASSUME IInv, HInv, UInv, [Next]_vars
  PROVE  total' \in Nat /\ hwm' \in Nat /\ (phase' = "util" => Counters')
<1>1. /\ total \in Nat /\ hwm \in Nat /\ i \in Nat \ {0}
      /\ phase = "util" => Counters
  BY DEF UInv, HInv
<1>2. CASE total' = total /\ hwm' = hwm /\ phase' # "util"
  BY <1>1, <1>2
<1>3. ASSUME NEW type, Counts(type), phase = "util"
      PROVE  total' \in Nat /\ hwm' \in Nat /\ Counters'
  <2>1. Counters' /\ total' \in Nat
    BY <1>1, <1>3, CountersStep
  <2>2. hwm' = IF type # "free" /\ total' > hwm THEN total' ELSE hwm
    BY <1>3 DEF Counts
  <2>3. QED
    BY <1>1, <2>1, <2>2
<1>4. CASE LibcEvaluation
  BY <1>2, <1>4 DEF LibcEvaluation, LibcAlloc, LibcRealloc, LibcFree, Libc, Accept,
                    driver, LibcPhase, LibcRefuse, LibcAgain, LibcEnd
<1>5. CASE MmEvaluation
  <2>1. ASSUME NEW p \in Addr, ValidMalloc(p)
        PROVE  total' = total /\ hwm' = hwm /\ phase' # "util"
    BY <2>1 DEF ValidMalloc, Accept, Complain, driver
  <2>2. ASSUME NEW p \in Addr, ValidRealloc(p)
        PROVE  total' = total /\ hwm' = hwm /\ phase' # "util"
    BY <2>2 DEF ValidRealloc, Accept, Complain, driver
  <2>3. ASSUME NEW p \in Addr, SpeedMalloc(p) \/ SpeedRealloc(p)
        PROVE  total' = total /\ hwm' = hwm /\ phase' # "util"
    BY <2>3 DEF SpeedMalloc, SpeedRealloc, Accept, driver
  <2>4. CASE ValidFree \/ SpeedFree \/ Refuse
    BY <1>2, <2>4 DEF ValidFree, SpeedFree, Accept, driver, Refuse, Complain
  <2>5. CASE UtilEnd \/ SpeedEnd \/ NextTrace \/ Finish
    BY <1>2, <2>5 DEF UtilEnd, SpeedEnd, NextTrace, Finish, Begin
  <2>6. CASE ValidEnd
    BY <2>6, CountersStart DEF ValidEnd, Begin
  <2>7. ASSUME NEW p \in Addr, UtilMalloc(p)
        PROVE  Counts("alloc") /\ phase = "util"
    BY <2>7 DEF UtilMalloc, Counts, Count
  <2>8. ASSUME NEW p \in Addr, UtilRealloc(p)
        PROVE  Counts("realloc") /\ phase = "util"
    BY <2>8 DEF UtilRealloc, Counts, Count
  <2>9. CASE UtilFree
    <3>1. Counts("free") /\ phase = "util"
      BY <2>9 DEF UtilFree, Counts
    <3>2. QED
      BY <1>3, <3>1
  <2>10. QED
    BY <1>2, <1>3, <1>5, <2>1, <2>2, <2>3, <2>4, <2>5, <2>6, <2>7, <2>8, <2>9
       DEF MmEvaluation
<1>6. CASE UNCHANGED vars
  <2>1. /\ phase' = phase /\ sizes' = sizes /\ i' = i /\ trace' = trace /\ job' = job
        /\ total' = total /\ hwm' = hwm
    BY <1>6 DEF vars, mmvars, driver
  <2>2. LiveIds' = LiveIds /\ Suite'[trace'] = Suite[trace]
    BY <2>1 DEF LiveIds, Suite
  <2>3. \A n : LiveBytes(n)' = LiveBytes(n)
    BY <2>2 DEF LiveBytes
  <2>4. QED
    BY <1>1, <2>1, <2>2, <2>3 DEF Counters
<1>7. QED
  BY <1>4, <1>5, <1>6 DEF Next

LEMMA UtilKeeps == IInv /\ RInv /\ HInv /\ UInv /\ [Next]_vars => UInv'
<1> SUFFICES ASSUME IInv, RInv, HInv, UInv, [Next]_vars PROVE UInv'
  OBVIOUS
<1>1. QED
  BY PositionKeeps, LibraryKeeps, ErrorsBounded, TablesKeep, CountersKeep DEF UInv

LEMMA UtilInit == Init => UInv
<1> SUFFICES ASSUME Init PROVE UInv
  OBVIOUS
<1>1. /\ i = 1 /\ round = 0 /\ libc = {} /\ errors = 0 /\ total = 0 /\ hwm = 0
      /\ phase \in {"libc_valid", "valid"} /\ blocks = << >> /\ sizes = << >>
      /\ trace = 1 /\ job \in Settings
  BY DEF Init
<1>2. Tables
  BY <1>1 DEF Tables
<1>3. LastTrace \in Nat /\ LastTrace >= 1
  BY <1>1, SuiteFacts
<1>4. Len(Suite[trace]) \in Nat
  BY <1>1, <1>3, TraceLength DEF LastTrace, Suite
<1>5. SpeedRuns \in Nat
  BY MDriverAssumption
<1>6. QED
  BY <1>1, <1>2, <1>3, <1>4, <1>5 DEF UInv
-----------------------------------------------------------------------------
(***************************************************************************)
(* With an honest package: the live payloads lie side by side in the heap. *)
(***************************************************************************)
Beside(S, at, size, top) ==
  /\ \A x \in S : /\ at[x] \in Nat /\ size[x] \in Nat
                  /\ HeapStart <= at[x] /\ at[x] + size[x] <= top
  /\ \A x, y \in S : x # y =>
       at[x] + size[x] <= at[y] \/ at[y] + size[y] <= at[x]

SideBySide == Beside(LiveIds, blocks, sizes, brk)

PInv ==
  Honest /\ phase = "util" =>
    /\ KnowsSizes /\ SideBySide
    /\ brk >= HeapStart /\ hwm <= brk - HeapStart

(* a byte of the heap belongs to one payload at most *)
LEMMA FitsInHeap ==
  ASSUME NEW S, NEW at, NEW size, NEW top \in Nat, top >= HeapStart,
         Beside(S, at, size, top)
  PROVE  Cardinality(Cells(S, size)) <= top - HeapStart
<1> DEFINE C == Cells(S, size)
           H == 1..top - HeapStart
           f == [c \in C |-> at[c[1]] + c[2] - HeapStart]
<1>1. HeapStart \in Nat
  BY MDriverAssumption
<1>2. \A c \in C : c = <<c[1], c[2]>> /\ c[1] \in S /\ c[2] \in 1..size[c[1]]
  BY CellsMember
<1>3. \A c \in C : f[c] \in H
  <2> SUFFICES ASSUME NEW c \in C PROVE at[c[1]] + c[2] - HeapStart \in H
    OBVIOUS
  <2>1. /\ c[1] \in S /\ c[2] \in 1..size[c[1]]
        /\ at[c[1]] \in Nat /\ size[c[1]] \in Nat
        /\ HeapStart <= at[c[1]] /\ at[c[1]] + size[c[1]] <= top
    BY <1>2 DEF Beside
  <2>2. QED
    BY <1>1, <2>1
<1>4. ASSUME NEW c \in C, NEW d \in C, f[c] = f[d]
      PROVE  c = d
  <2>1. /\ c = <<c[1], c[2]>> /\ c[1] \in S /\ c[2] \in 1..size[c[1]]
        /\ d = <<d[1], d[2]>> /\ d[1] \in S /\ d[2] \in 1..size[d[1]]
        /\ at[c[1]] \in Nat /\ size[c[1]] \in Nat
        /\ at[d[1]] \in Nat /\ size[d[1]] \in Nat
    BY <1>2 DEF Beside
  <2>2. at[c[1]] + c[2] = at[d[1]] + d[2]
    BY <1>1, <1>4, <2>1
  <2>3. c[1] = d[1]
    <3>1. c[1] # d[1] => \/ at[c[1]] + size[c[1]] <= at[d[1]]
                         \/ at[d[1]] + size[d[1]] <= at[c[1]]
      BY <2>1 DEF Beside
    <3>2. QED
      BY <2>1, <2>2, <3>1
  <2>4. c[2] = d[2]
    BY <2>1, <2>2, <2>3
  <2>5. QED
    BY <2>1, <2>3, <2>4
<1>5. f \in Injection(C, H)
  <2>1. f \in [C -> H]
    BY <1>3
  <2>2. \A c, d \in C : f[c] = f[d] => c = d
    BY <1>4
  <2> HIDE DEF f, C, H
  <2>3. QED
    BY <2>1, <2>2 DEF Injection, IsInjective
<1>6. IsFiniteSet(H) /\ Cardinality(H) = top - HeapStart
  <2>1. top - HeapStart \in Nat
    BY <1>1
  <2>2. QED
    BY <2>1, FS_Interval
<1>7. QED
  <2> HIDE DEF f, C, H
  <2>1. Cardinality(C) <= Cardinality(H)
    BY <1>5, <1>6, FS_Injection
  <2>2. QED
    BY <1>6, <2>1 DEF C

LEMMA NewPlace ==
  ASSUME IInv, HInv, UInv, PInv, Honest, phase = "util", NEW p \in Addr,
         UtilMalloc(p) \/ UtilRealloc(p)
  PROVE  /\ brk' \in Nat /\ brk' >= brk /\ brk \in Nat
         /\ KnowsSizes' /\ Owns'
         /\ Beside(LiveIds', blocks', sizes', brk')
<1>1. /\ KnowsSizes /\ SideBySide /\ Owns /\ Distinct
      /\ i \in Nat \ {0} /\ brk \in Addr /\ DOMAIN sizes = DOMAIN blocks
  BY DEF PInv, HInv, Replaying, Owns, UInv, Tables, Before
<1>2. /\ Accept /\ blocks' = Store(blocks, Op.id, p)
      /\ sizes' = Store(sizes, Op.id, Op.size)
      /\ \/ AtOp("alloc") /\ Package!Alloc(p, Op.size)
         \/ /\ AtOp("realloc")
            /\ \/ blocks[Op.id] = p /\ Package!Resize(blocks[Op.id], Op.size)
               \/ blocks[Op.id] # p /\ Package!Move(blocks[Op.id], p, Op.size)
  BY DEF UtilMalloc, UtilRealloc, PackageMalloc, PackageRealloc
<1>3. /\ Op.type # "free" /\ Op.size \in Nat \ {0}
      /\ AtOp("alloc") => Op.id \notin LiveIds
      /\ AtOp("realloc") => Op.id \in LiveIds
      /\ LiveIds' = LiveIds \cup {Op.id}
  <2>1. /\ Op.type # "free" /\ Op.size \in Nat \ {0}
        /\ AtOp("alloc") => Op.id \notin LiveIds
        /\ AtOp("realloc") => Op.id \in LiveIds
    BY <1>2, OpFacts
  <2>2. QED
    BY <1>1, <1>2, <2>1, LiveAfter
<1>4. KnowsSizes' /\ Owns'
  <2>1. CASE AtOp("alloc") /\ Package!Alloc(p, Op.size)
    BY <1>1, <1>2, <2>1, MallocOwns
  <2>2. CASE /\ AtOp("realloc")
             /\ \/ blocks[Op.id] = p /\ Package!Resize(blocks[Op.id], Op.size)
                \/ blocks[Op.id] # p /\ Package!Move(blocks[Op.id], p, Op.size)
    BY <1>1, <1>2, <2>2, ReallocOwns
  <2>3. QED
    BY <1>2, <2>1, <2>2
<1>5. \A x \in LiveIds : blocks[x] \in DOMAIN held /\ held[blocks[x]] = sizes[x]
  BY <1>1, Zenon DEF Owns, Places, KnowsSizes
<1>6. /\ HeapStart <= p /\ p + Op.size <= brk' /\ brk' \in Addr /\ brk' >= brk
      /\ \A x \in LiveIds \ {Op.id} :
           p + Op.size <= blocks[x] \/ blocks[x] + sizes[x] <= p
  <2>0. brk \in Nat
    BY <1>1, MDriverAssumption
  <2>1. CASE AtOp("alloc") /\ Package!Alloc(p, Op.size)
    <3>1. /\ HeapStart <= p /\ p + Op.size <= brk' /\ brk' \in Addr /\ brk' >= brk
          /\ \A q \in DOMAIN held : p + Op.size <= q \/ q + held[q] <= p
      BY <2>1, Zenon DEF Package!Alloc, Package!Apart
    <3>2. QED
      BY <1>5, <3>1
  <2>2. CASE AtOp("realloc") /\ blocks[Op.id] = p /\ Package!Resize(p, Op.size)
    <3>1. /\ HeapStart <= p /\ p + Op.size <= brk /\ brk' = brk
          /\ \A q \in DOMAIN held \ {p} : p + Op.size <= q \/ q + held[q] <= p
      BY <2>2, Zenon DEF Package!Resize, Package!InHeap, Package!Apart
    <3>2. \A x \in LiveIds \ {Op.id} : blocks[x] \in DOMAIN held \ {p}
      BY <1>1, <1>3, <1>5, <2>2 DEF Distinct
    <3>3. QED
      BY <1>1, <1>5, <2>0, <3>1, <3>2
  <2>3. CASE AtOp("realloc") /\ Package!Move(blocks[Op.id], p, Op.size)
    <3> DEFINE o == blocks[Op.id]
    <3>1. /\ HeapStart <= p /\ p + Op.size <= brk' /\ brk' \in Addr /\ brk' >= brk
          /\ \A q \in DOMAIN held \ {o} : p + Op.size <= q \/ q + held[q] <= p
      BY <2>3, Zenon DEF Package!Move, Package!Apart
    <3>2. \A x \in LiveIds \ {Op.id} : blocks[x] \in DOMAIN held \ {o}
      BY <1>1, <1>3, <1>5, <2>3 DEF Distinct
    <3>3. QED
      BY <1>5, <3>1, <3>2
  <2>4. QED
    BY <1>2, <2>1, <2>2, <2>3
<1>7. brk \in Nat /\ brk' \in Nat /\ p \in Nat /\ Op.size \in Nat
  BY <1>1, <1>3, <1>6, MDriverAssumption
<1>8. /\ blocks'[Op.id] = p /\ sizes'[Op.id] = Op.size
      /\ \A x \in LiveIds \ {Op.id} : blocks'[x] = blocks[x] /\ sizes'[x] = sizes[x]
  <2>1. LiveIds \subseteq DOMAIN blocks
    BY <1>1 DEF Distinct
  <2>2. QED
    BY <1>1, <1>2, <2>1 DEF Store
<1>9. Beside(LiveIds \cup {Op.id}, blocks', sizes', brk')
  <2>1. /\ HeapStart \in Nat
        /\ \A x \in LiveIds : /\ blocks[x] \in Nat /\ sizes[x] \in Nat
                              /\ HeapStart <= blocks[x] /\ blocks[x] + sizes[x] <= brk
        /\ \A x, y \in LiveIds : x # y =>
             blocks[x] + sizes[x] <= blocks[y] \/ blocks[y] + sizes[y] <= blocks[x]
    BY <1>1, MDriverAssumption, Zenon DEF SideBySide, Beside
  <2> DEFINE id == Op.id
             At(x) == blocks'[x]
             Size(x) == sizes'[x]
  <2>2. \A x \in LiveIds \cup {id} :
           /\ At(x) \in Nat /\ Size(x) \in Nat
           /\ HeapStart <= At(x) /\ At(x) + Size(x) <= brk'
    BY <1>6, <1>7, <1>8, <2>1
  <2>3. ASSUME NEW x \in LiveIds \cup {id}, NEW y \in LiveIds \cup {id}, x # y
        PROVE  At(x) + Size(x) <= At(y) \/ At(y) + Size(y) <= At(x)
    <3>1. CASE x = id
      BY <1>6, <1>8, <2>3, <3>1
    <3>2. CASE y = id
      BY <1>6, <1>8, <2>3, <3>2
    <3>3. CASE x # id /\ y # id
      BY <1>8, <2>1, <2>3, <3>3
    <3>4. QED
      BY <3>1, <3>2, <3>3
  <2>4. QED
    BY <2>2, <2>3 DEF Beside
<1>10. QED
  BY <1>3, <1>4, <1>6, <1>7, <1>9

LEMMA Room ==
  ASSUME NEW top \in Nat, NEW start \in Nat, top >= start
  PROVE  0 <= top - start
OBVIOUS

LEMMA HeapKeeps ==
  ASSUME IInv, RInv, HInv, UInv, PInv, [Next]_vars
  PROVE  PInv'
<1> SUFFICES ASSUME Honest', phase' = "util"
             PROVE  /\ KnowsSizes' /\ SideBySide'
                    /\ brk' >= HeapStart /\ hwm' <= brk' - HeapStart
  BY DEF PInv
<1>1. /\ UInv' /\ HInv'
  BY UtilKeeps, HonestKeeps
<1>2. HeapStart \in Nat /\ Addr \subseteq Nat
  BY MDriverAssumption
<1>3. job' = job /\ Honest
  <2>1. LibcEvaluation => job' = job
    BY LibcEffect DEF Stays, LibcMoves, Exits
  <2>2. MmEvaluation => job' = job
    BY MmEffect DEF Stays, OneError, FoundValid, LaterPhase, OnToNext, Exits
  <2>3. job' = job
    BY <2>1, <2>2 DEF Next, vars, mmvars, driver
  <2>4. QED
    BY <2>3 DEF Honest
<1>4. SideBySide' <=> Beside(LiveIds', blocks', sizes', brk')
  BY DEF SideBySide
<1>5. ASSUME Beside(LiveIds', blocks', sizes', brk'), brk' \in Nat, brk' >= HeapStart
      PROVE  Cardinality(Cells(LiveIds', sizes')) <= brk' - HeapStart
  BY <1>5, FitsInHeap
<1>6. CASE ValidEnd
  <2>1. /\ i' = 1 /\ hwm' = 0 /\ brk' >= HeapStart /\ brk' \in Addr
    BY <1>6 DEF ValidEnd, Begin, Package!Reset
  <2>2. LiveIds' = {}
    <3>1. LiveIds' = LiveBefore(Suite'[trace'], 1)
      BY <2>1 DEF LiveIds
    <3>2. QED
      BY <3>1, LiveAtStart
  <2>3. KnowsSizes' /\ SideBySide'
    <3>1. Beside(LiveIds', blocks', sizes', brk')
      BY <2>2 DEF Beside
    <3>2. KnowsSizes'
      BY <2>2 DEF KnowsSizes
    <3>3. QED
      BY <1>4, <3>1, <3>2, Zenon
  <2>4. hwm' <= brk' - HeapStart
    <3>1. brk' \in Nat /\ brk' >= HeapStart /\ HeapStart \in Nat /\ hwm' = 0
      BY <1>2, <2>1
    <3>2. QED
      BY <3>1, Room
  <2>5. QED
    BY <2>1, <2>3, <2>4
<1>7. ASSUME NEW p \in Addr, UtilMalloc(p) \/ UtilRealloc(p)
      PROVE  /\ KnowsSizes' /\ SideBySide'
             /\ brk' >= HeapStart /\ hwm' <= brk' - HeapStart
  <2>1. phase = "util"
    BY <1>7 DEF UtilMalloc, UtilRealloc
  <2>2. /\ brk' \in Nat /\ brk' >= brk /\ brk \in Nat /\ KnowsSizes'
        /\ Beside(LiveIds', blocks', sizes', brk')
    BY <1>3, <1>7, <2>1, NewPlace
  <2>3. brk >= HeapStart /\ hwm <= brk - HeapStart
    BY <1>3, <2>1 DEF PInv
  <2>4. /\ hwm \in Nat /\ hwm' = IF total' > hwm THEN total' ELSE hwm
    BY <1>7 DEF UInv, UtilMalloc, UtilRealloc, Count
  <2>5. total' = Cardinality(Cells(LiveIds', sizes')) /\ total' \in Nat
    BY <1>1 DEF UInv, Counters
  <2>6. total' <= brk' - HeapStart
    BY <1>2, <1>5, <2>2, <2>3, <2>5
  <2>7. hwm' <= brk' - HeapStart /\ brk' >= HeapStart
    BY <1>2, <2>2, <2>3, <2>4, <2>5, <2>6
  <2>8. QED
    BY <1>4, <2>2, <2>7, Zenon
<1>8. CASE UtilFree
  <2>1. /\ phase = "util" /\ AtOp("free") /\ Package!Free(blocks[Op.id]) /\ Accept
        /\ blocks' = blocks /\ sizes' = sizes /\ hwm' = hwm
    BY <1>3, <1>8 DEF UtilFree, PackageFree
  <2>2. /\ KnowsSizes /\ SideBySide /\ Owns /\ i \in Nat \ {0}
        /\ brk >= HeapStart /\ hwm <= brk - HeapStart
    BY <1>3, <2>1 DEF PInv, HInv, Replaying
  <2>3. KnowsSizes'
    BY <2>1, <2>2, FreeOwns
  <2>4. brk' = brk
    BY <2>1 DEF Package!Free
  <2>5. LiveIds' \subseteq LiveIds
    <3>1. Op.type = "free"
      BY <2>1, OpFacts
    <3>2. QED
      BY <2>1, <2>2, <3>1, LiveAfter
  <2>6. SideBySide'
    BY <2>1, <2>2, <2>4, <2>5 DEF SideBySide, Beside
  <2>7. QED
    BY <2>1, <2>2, <2>3, <2>4, <2>6
<1>9. CASE UNCHANGED vars
  <2>1. /\ phase' = phase /\ sizes' = sizes /\ blocks' = blocks /\ held' = held
        /\ i' = i /\ trace' = trace /\ job' = job /\ brk' = brk /\ hwm' = hwm
    BY <1>9 DEF vars, mmvars, driver
  <2>2. LiveIds' = LiveIds
    BY <2>1 DEF LiveIds, Suite
  <2>3. QED
    BY <1>3, <2>1, <2>2 DEF PInv, KnowsSizes, SideBySide
<1>10. CASE LibcEvaluation
  <2>1. phase' # "util"
    BY <1>10 DEF LibcEvaluation, LibcAlloc, LibcRealloc, LibcFree, Libc, Accept,
                 driver, LibcPhase, LibcRefuse, LibcAgain, LibcEnd
  <2>2. QED
    BY <2>1
<1>11. CASE /\ MmEvaluation /\ ~ValidEnd /\ ~UtilFree
            /\ ~ \E p \in Addr : UtilMalloc(p) \/ UtilRealloc(p)
  <2>1. CASE \E p \in Addr : ValidMalloc(p) \/ SpeedMalloc(p) \/ SpeedRealloc(p)
    BY <2>1 DEF ValidMalloc, SpeedMalloc, SpeedRealloc, Accept, Complain, driver
  <2>2. CASE \E q \in Addr : ValidRealloc(q)
    BY <2>2 DEF ValidRealloc, Accept, Complain, driver
  <2>3. CASE ValidFree \/ SpeedFree \/ Refuse
    BY <2>3 DEF ValidFree, SpeedFree, Refuse, Accept, Complain, driver
  <2>4. CASE UtilEnd \/ SpeedEnd \/ NextTrace \/ Finish
    BY <2>4 DEF UtilEnd, SpeedEnd, NextTrace, Finish, Begin
  <2>5. QED
    BY <1>11, <2>1, <2>2, <2>3, <2>4 DEF MmEvaluation
<1>12. QED
  BY <1>6, <1>7, <1>8, <1>9, <1>10, <1>11 DEF Next

LEMMA UtilInvariant == Spec => [](IInv /\ RInv /\ HInv /\ UInv /\ PInv)
<1>1. Init => IInv /\ RInv /\ HInv /\ UInv /\ PInv
  <2>1. Init => phase # "util"
    BY DEF Init
  <2>2. QED
    BY <2>1, InitHolds, ListInit, HonestInit, UtilInit DEF PInv
<1>2. IInv /\ RInv /\ HInv /\ UInv /\ PInv /\ [Next]_vars
        => IInv' /\ RInv' /\ HInv' /\ UInv' /\ PInv'
  BY StepKeeps, ListKeeps, HonestKeeps, UtilKeeps, HeapKeeps
<1>3. QED
  BY <1>1, <1>2, PTL DEF Spec

(* The two parts of the quotient of line 777, for any number of traces of  *)
(* any length.  For any package, honest or not, max_total_size of a trace  *)
(* that eval_mm_util has replayed is the largest number of bytes that are  *)
(* live at the same time, which total_size tracks although it only adds    *)
(* differences up (lines 716-769); and with a package that keeps its       *)
(* promise it never exceeds the heap, so that utilization is at most 1.    *)
THEOREM UtilizationSound == Spec => []UtilOK
<1>1. IInv /\ RInv /\ UInv => TypeOK
  <2> SUFFICES ASSUME IInv, RInv, UInv PROVE TypeOK
    OBVIOUS
  <2>1. job \in Settings /\ LastTrace \in Nat /\ DOMAIN Suite = 1..LastTrace
    BY SuiteFacts DEF IInv
  <2>2. \A j \in DOMAIN ranges : ranges[j].lo \in Nat /\ ranges[j].hi \in Nat
    <3>1. ranges \in Seq(Ranges)
      BY DEF RInv
    <3>2. \A j \in DOMAIN ranges : ranges[j] \in Ranges
      BY <3>1
    <3>3. QED
      BY <3>2 DEF Ranges
  <2>3. ~LibcPhase => /\ DOMAIN blocks = DOMAIN sizes \/ phase = "exited"
                      /\ \A id \in DOMAIN blocks : blocks[id] \in Addr \cup LibcAddr
    BY Zenon DEF UInv, Tables, LibcPhase, Before
  <2>4. errors \in 0..Len(Suite)
    <3>1. errors \in Nat /\ errors <= LastTrace
      BY DEF IInv, UInv
    <3>2. QED
      BY <2>1, <3>1 DEF LastTrace
  <2>5. trace \in DOMAIN Suite /\ valid \subseteq DOMAIN Suite
    BY <2>1 DEF IInv
  <2>6. QED
    BY <2>1, <2>2, <2>3, <2>4, <2>5 DEF TypeOK, IInv, UInv
<1>2. IInv /\ UInv => HwmIsMax
  <2> SUFFICES ASSUME IInv, UInv, phase = "util", AtEnd
               PROVE  /\ \A n \in 0..Len(Suite[trace]) : LiveBytes(n) <= hwm
                      /\ \E n \in 0..Len(Suite[trace]) : LiveBytes(n) = hwm
    BY DEF HwmIsMax
  <2>1. Counters /\ i - 1 = Len(Suite[trace])
    <3>1. Len(Suite[trace]) \in Nat
      BY TraceLength DEF IInv, LastTrace, Suite
    <3>2. QED
      BY <3>1 DEF UInv, AtEnd
  <2>2. QED
    BY <2>1 DEF Counters
<1>3. PInv => UtilAtMostOne
  BY DEF PInv, UtilAtMostOne
<1>4. QED
  BY <1>1, <1>2, <1>3, UtilInvariant, PTL DEF UtilOK

-----------------------------------------------------------------------------
(***************************************************************************)
(* What the driver may conclude from the promise of Allocator alone:       *)
(* whichever package keeps it, the payloads in use are safe.               *)
(***************************************************************************)
(* the sizes the traces ask for                                            *)
Asked == UNION {{o.size : o \in {p \in Ops(s.suite) : p.type # "free"}} :
                  s \in Settings}

LEMMA AskedNumbers == Asked \subseteq Nat
BY MDriverAssumption DEF Asked

(* The invariant is inductive once addresses and sizes are numbers.        *)
PromiseInv ==
  /\ DOMAIN held \subseteq Addr /\ held \in [DOMAIN held -> Asked]
  /\ brk \in Addr
  /\ Package!PayloadsSafe

(* Every step that the promise allows (the calls of mdriver.c:597-680)     *)
(* keeps the payloads apart: a new or grown payload is compared with all   *)
(* the others, and the heap shrinks only when there are none.              *)
LEMMA PromiseStepSafe ==
  ASSUME PromiseInv, [Package!Next]_(Package!vars)
  PROVE  PromiseInv'
<1>0. /\ Addr \subseteq Nat /\ Asked \subseteq Nat /\ HeapStart \in Nat
      /\ brk \in Nat /\ DOMAIN held \subseteq Nat
      /\ \A p \in DOMAIN held : held[p] \in Asked /\ held[p] \in Nat
  BY AskedNumbers, MDriverAssumption DEF PromiseInv
<1>1. ASSUME NEW p \in Addr, NEW n \in Asked, Package!Alloc(p, n)
      PROVE  PromiseInv'
  <2>1. /\ DOMAIN held' = DOMAIN held \cup {p} /\ held'[p] = n
        /\ \A q \in DOMAIN held : held'[q] = held[q]
        /\ brk' \in Addr /\ brk' >= brk
    BY <1>1 DEF Package!Alloc
  <2>2. held' \in [DOMAIN held' -> Asked]
    BY <1>0, <1>1 DEF Package!Alloc
  <2>3. \A q \in DOMAIN held' : Package!Aligned(q) /\ HeapStart <= q /\ q + held'[q] <= brk'
    BY <1>0, <1>1, <2>1 DEF Package!Alloc, PromiseInv, Package!PayloadsSafe, Package!InHeap
  <2>4. \A q, r \in DOMAIN held' : q # r => Package!Apart(q, held'[q], r, held'[r])
    BY <1>0, <1>1, <2>1 DEF Package!Alloc, PromiseInv, Package!PayloadsSafe, Package!Apart
  <2>5. QED
    BY <2>1, <2>2, <2>3, <2>4 DEF PromiseInv, Package!PayloadsSafe, Package!InHeap
<1>2. ASSUME NEW p \in Addr, NEW n \in Asked, Package!Resize(p, n)
      PROVE  PromiseInv'
  <2>1. /\ DOMAIN held' = DOMAIN held /\ held'[p] = n /\ p \in DOMAIN held
        /\ \A q \in DOMAIN held \ {p} : held'[q] = held[q]
        /\ brk' = brk
    BY <1>2 DEF Package!Resize
  <2>2. held' \in [DOMAIN held' -> Asked]
    BY <1>0, <1>2 DEF Package!Resize
  <2>3. \A q \in DOMAIN held' : Package!Aligned(q) /\ HeapStart <= q /\ q + held'[q] <= brk'
    BY <1>0, <1>2, <2>1 DEF Package!Resize, PromiseInv, Package!PayloadsSafe, Package!InHeap
  <2>4. \A q, r \in DOMAIN held' : q # r => Package!Apart(q, held'[q], r, held'[r])
    BY <1>0, <1>2, <2>1 DEF Package!Resize, PromiseInv, Package!PayloadsSafe, Package!Apart
  <2>5. QED
    BY <2>1, <2>2, <2>3, <2>4 DEF PromiseInv, Package!PayloadsSafe, Package!InHeap
<1>3. ASSUME NEW p \in Addr, NEW q \in Addr, NEW n \in Asked, Package!Move(p, q, n)
      PROVE  PromiseInv'
  <2>1. /\ DOMAIN held' = (DOMAIN held \ {p}) \cup {q} /\ held'[q] = n
        /\ \A r \in DOMAIN held \ {p} : held'[r] = held[r]
        /\ brk' \in Addr /\ brk' >= brk
    BY <1>3 DEF Package!Move
  <2>2. held' \in [DOMAIN held' -> Asked]
    BY <1>0, <1>3 DEF Package!Move
  <2>3. \A r \in DOMAIN held' : Package!Aligned(r) /\ HeapStart <= r /\ r + held'[r] <= brk'
    BY <1>0, <1>3, <2>1 DEF Package!Move, PromiseInv, Package!PayloadsSafe, Package!InHeap
  <2>4. \A r, s \in DOMAIN held' : r # s => Package!Apart(r, held'[r], s, held'[s])
    BY <1>0, <1>3, <2>1 DEF Package!Move, PromiseInv, Package!PayloadsSafe, Package!Apart
  <2>5. QED
    BY <2>1, <2>2, <2>3, <2>4 DEF PromiseInv, Package!PayloadsSafe, Package!InHeap
<1>4. ASSUME NEW p \in Addr, Package!Free(p)
      PROVE  PromiseInv'
  <2>1. /\ DOMAIN held' = DOMAIN held \ {p} /\ brk' = brk
        /\ \A q \in DOMAIN held' : held'[q] = held[q]
        /\ held' \in [DOMAIN held' -> Asked]
    BY <1>0, <1>4 DEF Package!Free, Package!Restrict
  <2>2. QED
    BY <2>1 DEF PromiseInv, Package!PayloadsSafe, Package!InHeap, Package!Aligned
<1>5. CASE Package!Reset
  <2>1. DOMAIN held' = {} /\ held' \in [DOMAIN held' -> Asked] /\ brk' \in Addr
    BY <1>5 DEF Package!Reset
  <2>2. QED
    BY <2>1 DEF PromiseInv, Package!PayloadsSafe
<1>6. CASE UNCHANGED Package!vars
  BY <1>6 DEF Package!vars, PromiseInv, Package!PayloadsSafe,
             Package!InHeap, Package!Aligned, Package!Apart
<1>7. QED
  BY <1>1, <1>2, <1>3, <1>4, <1>5, <1>6 DEF Package!Next, Asked

(* A client of any package that keeps the promise has its payloads         *)
(* aligned, inside the heap and pairwise disjoint at all times: the tests  *)
(* add_range makes of one payload (mdriver.c:381-429) hold of all.         *)
THEOREM PromiseIsSafe == Package!Spec => []Package!PayloadsSafe
<1>1. Package!Init => PromiseInv
  BY DEF Package!Init, PromiseInv, Package!PayloadsSafe
<1>2. PromiseInv /\ [Package!Next]_(Package!vars) => PromiseInv'
  BY PromiseStepSafe
<1>3. PromiseInv => Package!PayloadsSafe
  BY DEF PromiseInv
<1>4. QED
  BY <1>1, <1>2, <1>3, PTL DEF Package!Spec

-----------------------------------------------------------------------------
(***************************************************************************)
(* A package the driver is built with, mm-original.c, keeps the promise    *)
(* until a sum wraps: the payloads lie one behind the other below the      *)
(* break, each behind the cell with its size, and nobody writes a cell     *)
(* that is not part of its own payload.                                    *)
(***************************************************************************)
CONSTANTS HeapMax, WordMod, Requests, Marks

VARIABLES memBrk, mem, live, wrote, wrapped

Bump == INSTANCE BumpAllocator WITH brk <- memBrk

(* one payload behind the other, a cell between them, the break at the end *)
Layout ==
  /\ \A p \in DOMAIN live : /\ p \in Nat /\ p % Bump!ALIGNMENT = 0
                            /\ HeapStart + Bump!SIZE_T_SIZE <= p
                            /\ p + live[p] <= memBrk
  /\ \A p, q \in DOMAIN live : p < q => p + live[p] <= q - Bump!SIZE_T_SIZE

WroteOK ==
  /\ wrote \in [DOMAIN wrote -> [mark : Marks, size : Nat]]
  /\ \A p \in DOMAIN wrote : wrote[p].size <= live[p]

BumpInv ==
  /\ Bump!TypeOK
  /\ ~wrapped => Layout /\ WroteOK
  /\ Bump!HeadersAgree
  /\ Bump!ContentsKept

(* A sum that stays in the word is not changed by it.                      *)
LEMMA ModSmall ==
  ASSUME Bump!BumpAssumption, NEW x \in Nat, x < WordMod
  PROVE  x % WordMod = x
BY DEF Bump!BumpAssumption

(* The rounded size holds the request and the cell before it (line 61).    *)
LEMMA NewSizeFacts ==
  ASSUME Bump!BumpAssumption, NEW size \in Nat,
         size + Bump!SIZE_T_SIZE + (Bump!ALIGNMENT - 1) < WordMod
  PROVE  /\ Bump!NewSize(size) \in Nat
         /\ Bump!NewSize(size) % Bump!ALIGNMENT = 0
         /\ size + Bump!SIZE_T_SIZE <= Bump!NewSize(size)
         /\ Bump!NewSize(size)
              <= size + Bump!SIZE_T_SIZE + (Bump!ALIGNMENT - 1)
<1>1. (size + Bump!SIZE_T_SIZE + (Bump!ALIGNMENT - 1)) % WordMod
        = size + Bump!SIZE_T_SIZE + (Bump!ALIGNMENT - 1)
  BY ModSmall DEF Bump!SIZE_T_SIZE, Bump!ALIGNMENT
<1>2. Bump!NewSize(size) = ((size + 15) \div 8) * 8
  BY <1>1 DEF Bump!NewSize, Bump!SIZE_T_SIZE, Bump!ALIGNMENT
<1>3. QED
  BY <1>2 DEF Bump!SIZE_T_SIZE, Bump!ALIGNMENT

(* What mem_sbrk has done when it grants and no sum has wrapped (58-69).   *)
LEMMA GrantFacts ==
  ASSUME Bump!BumpAssumption, BumpInv, NEW size \in Requests, Bump!Grant(size),
         ~wrapped'
  PROVE  /\ memBrk \in Nat /\ HeapStart <= memBrk
         /\ memBrk % Bump!ALIGNMENT = 0
         /\ memBrk' \in Nat /\ memBrk' % Bump!ALIGNMENT = 0
         /\ memBrk' <= HeapMax
         /\ Bump!NewPtr % Bump!ALIGNMENT = 0 /\ memBrk \in Bump!Cells
         /\ Bump!NewPtr + size <= memBrk' /\ HeapStart <= memBrk'
<1>1. /\ memBrk \in Nat /\ HeapStart <= memBrk
      /\ memBrk % Bump!ALIGNMENT = 0 /\ size \in Nat
      /\ HeapStart \in Nat /\ WordMod \in Nat /\ HeapMax \in Nat
  BY DEF Bump!BumpAssumption, BumpInv, Bump!TypeOK, Bump!Grant
<1>2. memBrk + size + Bump!SIZE_T_SIZE + (Bump!ALIGNMENT - 1) < WordMod
  <2>1. ~Bump!Wraps(size)
    BY Zenon DEF Bump!Grant
  <2>2. QED
    BY <1>1, <2>1 DEF Bump!Wraps, Bump!SIZE_T_SIZE, Bump!ALIGNMENT
<1>3. /\ Bump!NewSize(size) \in Nat /\ Bump!NewSize(size) % Bump!ALIGNMENT = 0
      /\ size + Bump!SIZE_T_SIZE <= Bump!NewSize(size)
      /\ Bump!NewSize(size) <= size + Bump!SIZE_T_SIZE + (Bump!ALIGNMENT - 1)
  BY <1>1, <1>2, NewSizeFacts DEF Bump!SIZE_T_SIZE, Bump!ALIGNMENT
<1>4. (memBrk + Bump!NewSize(size)) % WordMod = memBrk + Bump!NewSize(size)
  <2>1. /\ memBrk + Bump!NewSize(size) \in Nat
        /\ memBrk + Bump!NewSize(size) < WordMod
    BY <1>1, <1>2, <1>3 DEF Bump!SIZE_T_SIZE, Bump!ALIGNMENT
  <2>2. QED
    BY <2>1, ModSmall
<1>5. memBrk' = memBrk + Bump!NewSize(size) /\ memBrk' <= HeapMax
  BY <1>4 DEF Bump!Grant, Bump!SbrkGrants
<1>6. QED
  BY <1>1, <1>3, <1>5
     DEF Bump!NewPtr, Bump!Cells, Bump!SIZE_T_SIZE, Bump!ALIGNMENT

-----------------------------------------------------------------------------
(***************************************************************************)
(* Each action keeps the invariant.                                        *)
(***************************************************************************)
(* mm_malloc (59-69).                                                      *)
LEMMA BumpMallocKeeps ==
  ASSUME Bump!BumpAssumption, BumpInv, NEW size \in Requests, Bump!Malloc(size)
  PROVE  BumpInv'
<1>1. /\ memBrk' \in 0..HeapMax /\ wrapped' \in BOOLEAN /\ ~wrapped
      /\ mem' = Bump!StoreSize(mem, size) /\ wrote' = wrote
      /\ live' = Bump!AddLive(live, Bump!NewPtr, size)
  <2>1. (memBrk + Bump!NewSize(size)) % WordMod \in Nat
    BY DEF Bump!BumpAssumption, BumpInv, Bump!TypeOK, Bump!NewSize,
           Bump!SIZE_T_SIZE, Bump!ALIGNMENT
  <2>2. QED
    BY <2>1 DEF Bump!Malloc, Bump!Grant, Bump!SbrkGrants, Bump!Wraps
<1>2. /\ mem' \in [Bump!Cells -> Requests \cup {0} \cup Marks]
      /\ live' \in [DOMAIN live' -> Requests]
      /\ DOMAIN live' = DOMAIN live \cup {Bump!NewPtr}
      /\ live'[Bump!NewPtr] = size
      /\ \A p \in DOMAIN live \ {Bump!NewPtr} : live'[p] = live[p]
  BY <1>1 DEF BumpInv, Bump!TypeOK, Bump!StoreSize, Bump!AddLive
<1>3. CASE wrapped'
  BY <1>1, <1>2, <1>3
     DEF BumpInv, Bump!TypeOK, Bump!HeadersAgree, Bump!ContentsKept
<1>4. CASE ~wrapped'
  <2>1. /\ memBrk \in Nat /\ HeapStart <= memBrk /\ memBrk % Bump!ALIGNMENT = 0
        /\ memBrk' \in Nat /\ memBrk' % Bump!ALIGNMENT = 0
        /\ memBrk' <= HeapMax
        /\ Bump!NewPtr % Bump!ALIGNMENT = 0 /\ memBrk \in Bump!Cells
        /\ Bump!NewPtr + size <= memBrk' /\ HeapStart <= memBrk'
    BY <1>4, GrantFacts DEF Bump!Malloc
  <2>2. /\ Bump!NewPtr = memBrk + 8 /\ size \in Nat /\ HeapStart \in Nat
        /\ \A p \in DOMAIN live : live[p] \in Nat
    BY DEF Bump!BumpAssumption, Bump!NewPtr, Bump!SIZE_T_SIZE, BumpInv,
           Bump!TypeOK
  <2>3. Layout /\ WroteOK
    BY <1>1 DEF BumpInv
  <2>4. \A p \in DOMAIN live :
          p < Bump!NewPtr /\ p + live[p] <= memBrk /\ p # Bump!NewPtr
    BY <2>1, <2>2, <2>3 DEF Layout
  <2>5. Layout'
    BY <1>2, <2>1, <2>2, <2>3, <2>4 DEF Layout, Bump!SIZE_T_SIZE
  <2>6. WroteOK'
    BY <1>1, <1>2, <2>3, <2>4 DEF WroteOK, BumpInv, Bump!TypeOK
  <2>7. Bump!HeadersAgree'
    <3>1. ASSUME NEW p \in DOMAIN live
          PROVE  /\ p - Bump!SIZE_T_SIZE \in Bump!Cells
                 /\ p - Bump!SIZE_T_SIZE < memBrk
      <4>1. /\ p \in Nat /\ p % 8 = 0 /\ HeapStart + 8 <= p /\ p <= memBrk
            /\ memBrk < HeapMax
        BY <2>1, <2>2, <2>3
           DEF Bump!BumpAssumption, Layout, Bump!Cells, Bump!SIZE_T_SIZE,
               Bump!ALIGNMENT
      <4>2. /\ p - 8 \in Nat /\ (p - 8) % 8 = 0 /\ HeapStart <= p - 8
            /\ p - 8 < memBrk /\ p - 8 <= HeapMax - 1 /\ HeapMax \in Nat
        BY <2>1, <2>2, <4>1 DEF Bump!BumpAssumption, Bump!ALIGNMENT
      <4>3. QED
        BY <2>2, <4>2 DEF Bump!Cells, Bump!SIZE_T_SIZE, Bump!ALIGNMENT
    <3>2. Bump!NewPtr - Bump!SIZE_T_SIZE = memBrk
      BY <2>1 DEF Bump!NewPtr, Bump!SIZE_T_SIZE
    <3>3. QED
      BY <1>1, <1>2, <2>1, <2>4, <3>1, <3>2
         DEF BumpInv, Bump!HeadersAgree, Bump!StoreSize
  <2>8. Bump!ContentsKept'
    <3>1. ASSUME NEW p \in DOMAIN wrote,
                 NEW a \in Bump!CellsOf(p, wrote[p].size)
          PROVE  a \in Bump!Cells /\ a # memBrk
      BY <2>1, <2>2, <2>3, <2>4
         DEF Bump!BumpAssumption, WroteOK, BumpInv, Bump!TypeOK, Bump!CellsOf,
             Bump!Cells, Layout
    <3>2. QED
      BY <1>1, <3>1
         DEF BumpInv, Bump!ContentsKept, Bump!StoreSize, Bump!CellsOf
  <2>9. QED
    BY <1>1, <1>2, <2>1, <2>5, <2>6, <2>7, <2>8 DEF BumpInv, Bump!TypeOK
<1>5. QED
  BY <1>3, <1>4

(* mm_free does nothing (74-76); the client forgets the payload.           *)
LEMMA BumpFreeKeeps ==
  ASSUME Bump!BumpAssumption, BumpInv, NEW p \in DOMAIN live, Bump!Free(p)
  PROVE  BumpInv'
<1>1. /\ DOMAIN live' = DOMAIN live \ {p}
      /\ \A q \in DOMAIN live' : live'[q] = live[q]
      /\ live' \in [DOMAIN live' -> Requests]
  BY DEF Bump!Free, Bump!Without, Bump!Restrict, BumpInv, Bump!TypeOK
<1>2. /\ DOMAIN wrote' = DOMAIN wrote \ {p}
      /\ \A q \in DOMAIN wrote' : wrote'[q] = wrote[q]
      /\ ~wrapped => wrote' \in [DOMAIN wrote' -> [mark : Marks, size : Nat]]
  BY DEF Bump!Free, Bump!Without, Bump!Restrict, BumpInv, WroteOK
<1>3. Bump!TypeOK'
  BY <1>1, <1>2 DEF Bump!Free, BumpInv, Bump!TypeOK
<1>4. ~wrapped' => Layout' /\ WroteOK'
  BY <1>1, <1>2 DEF Bump!Free, BumpInv, Bump!TypeOK, Layout, WroteOK
<1>5. Bump!HeadersAgree' /\ Bump!ContentsKept'
  BY <1>1, <1>2
     DEF Bump!Free, BumpInv, Bump!HeadersAgree, Bump!ContentsKept, Bump!CellsOf
<1>6. QED
  BY <1>3, <1>4, <1>5 DEF BumpInv

(* A client writes its payload and nothing else: not the cell before       *)
(* another payload (line 66), not another payload.                         *)
LEMMA BumpFillKeeps ==
  ASSUME Bump!BumpAssumption, BumpInv, NEW p \in DOMAIN live,
         NEW mark \in Marks, Bump!Fill(p, mark)
  PROVE  BumpInv'
<1>1. /\ ~wrapped /\ Layout /\ WroteOK /\ p \in Nat /\ live[p] \in Nat
      /\ \A q \in DOMAIN live : live[q] \in Nat
  BY DEF Bump!BumpAssumption, Bump!Fill, BumpInv, Bump!TypeOK, Layout
<1>2. /\ mem' \in [Bump!Cells -> Requests \cup {0} \cup Marks]
      /\ \A a \in Bump!Cells :
           mem'[a] = IF a \in Bump!CellsOf(p, live[p]) THEN mark ELSE mem[a]
      /\ live' = live /\ memBrk' = memBrk /\ wrapped' = wrapped
  BY DEF Bump!Fill, BumpInv, Bump!TypeOK
<1>3. /\ DOMAIN wrote' = DOMAIN wrote \cup {p}
      /\ wrote'[p] = [mark |-> mark, size |-> live[p]]
      /\ \A q \in DOMAIN wrote \ {p} : wrote'[q] = wrote[q]
      /\ wrote' \in [DOMAIN wrote' -> [mark : Marks, size : Nat]]
  BY <1>1 DEF Bump!Fill, Bump!AddLive, WroteOK
<1>4. Bump!TypeOK' /\ Layout' /\ WroteOK'
  BY <1>1, <1>2, <1>3 DEF BumpInv, Bump!TypeOK, Layout, WroteOK
<1>5. Bump!HeadersAgree'
  <2>1. ASSUME NEW q \in DOMAIN live
        PROVE  /\ q - Bump!SIZE_T_SIZE \in Bump!Cells
               /\ q - Bump!SIZE_T_SIZE \notin Bump!CellsOf(p, live[p])
    <3>1. /\ q \in Nat /\ q % 8 = 0 /\ HeapStart + 8 <= q /\ q <= HeapMax
          /\ p = q \/ q < p \/ p + live[p] <= q - 8
      BY <1>1
         DEF Bump!BumpAssumption, Layout, BumpInv, Bump!TypeOK,
             Bump!SIZE_T_SIZE, Bump!ALIGNMENT
    <3>2. QED
      BY <1>1, <3>1
         DEF Bump!BumpAssumption, Bump!Cells, Bump!CellsOf, Bump!SIZE_T_SIZE,
             Bump!ALIGNMENT
  <2>2. QED
    BY <1>1, <1>2, <2>1 DEF BumpInv, Bump!HeadersAgree
<1>6. Bump!ContentsKept'
  <2>1. ASSUME NEW q \in DOMAIN wrote \ {p},
               NEW a \in Bump!CellsOf(q, wrote[q].size)
        PROVE  a \in Bump!Cells /\ a \notin Bump!CellsOf(p, live[p])
    <3>1. /\ q \in Nat /\ live[q] \in Nat /\ wrote[q].size \in Nat
          /\ wrote[q].size <= live[q]
          /\ p + live[p] <= q - 8 \/ q + live[q] <= p - 8
      BY <1>1 DEF Layout, WroteOK, BumpInv, Bump!TypeOK, Bump!SIZE_T_SIZE
    <3>2. a \in Bump!Cells /\ a \in Nat /\ q <= a /\ a < q + wrote[q].size
      BY DEF Bump!BumpAssumption, Bump!Cells, Bump!CellsOf
    <3>3. QED
      BY <1>1, <3>1, <3>2 DEF Bump!CellsOf
  <2>2. QED
    BY <1>1, <1>2, <1>3, <2>1 DEF BumpInv, Bump!ContentsKept, Bump!CellsOf
<1>7. QED
  BY <1>4, <1>5, <1>6 DEF BumpInv

(* mm_realloc (81-96): the copy reads the old payload, for as long as the  *)
(* size before it says, and writes the new one.                            *)
LEMMA BumpReallocKeeps ==
  ASSUME Bump!BumpAssumption, BumpInv, NEW p \in DOMAIN live,
         NEW size \in Requests, Bump!Realloc(p, size)
  PROVE  BumpInv'
<1> DEFINE k == Bump!MinOf(live[p], size)
<1>1. /\ ~wrapped /\ Layout /\ WroteOK /\ wrapped' \in BOOLEAN
      /\ memBrk' \in 0..HeapMax
  <2>1. (memBrk + Bump!NewSize(size)) % WordMod \in Nat
    BY DEF Bump!BumpAssumption, BumpInv, Bump!TypeOK, Bump!NewSize,
           Bump!SIZE_T_SIZE, Bump!ALIGNMENT
  <2>2. ~wrapped /\ Layout /\ WroteOK
    BY DEF Bump!Realloc, Bump!Grant, BumpInv
  <2>3. QED
    BY <2>1, <2>2 DEF Bump!Realloc, Bump!Grant, Bump!SbrkGrants, Bump!Wraps
<1>2. /\ p \in Nat /\ p % 8 = 0 /\ size \in Nat /\ HeapStart \in Nat
      /\ memBrk \in Nat /\ Bump!NewPtr = memBrk + 8 /\ p + live[p] <= memBrk
      /\ HeapStart + 8 <= p /\ live[p] \in Nat
      /\ \A q \in DOMAIN live : /\ q \in Nat /\ live[q] \in Nat /\ q % 8 = 0
                                /\ q + live[q] <= memBrk /\ HeapStart + 8 <= q
                                /\ q # Bump!NewPtr
  BY <1>1
     DEF Bump!BumpAssumption, Layout, BumpInv, Bump!TypeOK, Bump!NewPtr,
         Bump!SIZE_T_SIZE, Bump!ALIGNMENT
<1>3. /\ k \in Nat /\ k <= live[p] /\ k <= size
      /\ mem' = Bump!Memcpy(Bump!StoreSize(mem, size), Bump!NewPtr, p, k)
  <2>1. mem[p - Bump!SIZE_T_SIZE] = live[p]
    BY <1>1 DEF BumpInv, Bump!HeadersAgree
  <2>2. QED
    BY <1>2, <2>1 DEF Bump!Realloc, Bump!MinOf
<1>4. /\ DOMAIN live' = (DOMAIN live \ {p}) \cup {Bump!NewPtr}
      /\ live'[Bump!NewPtr] = size
      /\ \A q \in DOMAIN live \ {p} : live'[q] = live[q]
      /\ live' \in [DOMAIN live' -> Requests]
  BY <1>2
     DEF Bump!Realloc, Bump!AddLive, Bump!Without, Bump!Restrict, BumpInv,
         Bump!TypeOK
<1>5. mem' \in [Bump!Cells -> Requests \cup {0} \cup Marks]
  BY <1>3 DEF Bump!Memcpy, Bump!StoreSize, BumpInv, Bump!TypeOK
<1>6. /\ DOMAIN wrote' \subseteq DOMAIN live'
      /\ Bump!NewPtr \notin DOMAIN wrote
      /\ \A q \in DOMAIN wrote' \ {Bump!NewPtr} :
           q \in DOMAIN wrote \ {p} /\ wrote'[q] = wrote[q]
      /\ Bump!NewPtr \in DOMAIN wrote' =>
           /\ p \in DOMAIN wrote /\ wrote'[Bump!NewPtr].mark = wrote[p].mark
           /\ wrote'[Bump!NewPtr] =
                [mark |-> wrote[p].mark,
                 size |-> Bump!MinOf(wrote[p].size, size)]
  <2>1. DOMAIN wrote \subseteq DOMAIN live
    BY DEF BumpInv, Bump!TypeOK
  <2>2. CASE p \in DOMAIN wrote
    BY <1>2, <1>4, <2>1, <2>2
       DEF Bump!Realloc, Bump!AddLive, Bump!Without, Bump!Restrict
  <2>3. CASE p \notin DOMAIN wrote
    BY <1>2, <1>4, <2>1, <2>3 DEF Bump!Realloc
  <2>4. QED
    BY <2>2, <2>3
<1>7. CASE wrapped'
  BY <1>1, <1>4, <1>5, <1>6, <1>7
     DEF BumpInv, Bump!TypeOK, Bump!HeadersAgree, Bump!ContentsKept
<1>8. CASE ~wrapped'
  <2>1. /\ HeapStart <= memBrk /\ memBrk % 8 = 0
        /\ memBrk' \in Nat /\ memBrk' % 8 = 0 /\ memBrk' <= HeapMax
        /\ Bump!NewPtr % 8 = 0 /\ memBrk \in Bump!Cells
        /\ Bump!NewPtr + size <= memBrk' /\ HeapStart <= memBrk'
    BY <1>8, GrantFacts DEF Bump!Realloc, Bump!ALIGNMENT
  <2>2. Layout'
    BY <1>1, <1>2, <1>4, <2>1 DEF Layout, Bump!SIZE_T_SIZE, Bump!ALIGNMENT
  <2>3. Bump!NewPtr \in DOMAIN wrote' =>
          /\ wrote[p].size \in Nat /\ wrote'[Bump!NewPtr].size \in Nat
          /\ wrote'[Bump!NewPtr] \in [mark : Marks, size : Nat]
          /\ wrote'[Bump!NewPtr].size <= k
          /\ wrote'[Bump!NewPtr].size <= wrote[p].size
    BY <1>1, <1>2, <1>6 DEF WroteOK, Bump!MinOf
  <2>4. WroteOK'
    <3>1. wrote' \in [DOMAIN wrote' -> [mark : Marks, size : Nat]]
      <4>1. \A q \in DOMAIN wrote' : wrote'[q] \in [mark : Marks, size : Nat]
        BY <1>1, <1>6, <2>3 DEF WroteOK
      <4>2. wrote' = [q \in DOMAIN wrote' |-> wrote'[q]]
        <5>1. CASE p \in DOMAIN wrote
          BY <5>1 DEF Bump!Realloc, Bump!AddLive
        <5>2. CASE p \notin DOMAIN wrote
          BY <1>1, <5>2 DEF Bump!Realloc, WroteOK
        <5>3. QED
          BY <5>1, <5>2
      <4>3. QED
        BY <4>1, <4>2
    <3>2. ASSUME NEW q \in DOMAIN wrote'
          PROVE  wrote'[q].size <= live'[q]
      BY <1>1, <1>2, <1>3, <1>4, <1>6, <2>3 DEF WroteOK, BumpInv, Bump!TypeOK
    <3>3. QED
      BY <3>1, <3>2 DEF WroteOK
  <2>5. ASSUME NEW a \in Bump!Cells, a < memBrk
        PROVE  mem'[a] = mem[a]
    BY <1>2, <1>3, <2>1, <2>5
       DEF Bump!BumpAssumption, Bump!Memcpy, Bump!StoreSize, Bump!CellsOf,
           Bump!Cells
  <2>6. mem'[memBrk] = size
    BY <1>2, <1>3, <2>1 DEF Bump!Memcpy, Bump!StoreSize, Bump!CellsOf
  <2>7. Bump!HeadersAgree'
    <3>1. ASSUME NEW q \in DOMAIN live
          PROVE  /\ q - Bump!SIZE_T_SIZE \in Bump!Cells
                 /\ q - Bump!SIZE_T_SIZE < memBrk
      <4>1. memBrk < HeapMax
        BY <1>2, <2>1 DEF Bump!BumpAssumption, Bump!Cells
      <4>2. /\ q \in Nat /\ q % 8 = 0 /\ HeapStart + 8 <= q /\ q <= memBrk
        BY <1>2
      <4>3. /\ q - 8 \in Nat /\ (q - 8) % 8 = 0 /\ HeapStart <= q - 8
            /\ q - 8 < memBrk /\ q - 8 <= HeapMax - 1 /\ HeapMax \in Nat
        BY <1>2, <2>1, <4>1, <4>2 DEF Bump!BumpAssumption
      <4>4. QED
        BY <1>2, <4>3 DEF Bump!Cells, Bump!SIZE_T_SIZE, Bump!ALIGNMENT
    <3>2. Bump!NewPtr - Bump!SIZE_T_SIZE = memBrk
      BY <1>2 DEF Bump!SIZE_T_SIZE
    <3>3. QED
      BY <1>1, <1>4, <2>5, <2>6, <3>1, <3>2 DEF BumpInv, Bump!HeadersAgree
  <2>8. Bump!ContentsKept'
    <3>1. ASSUME NEW q \in DOMAIN wrote \ {p},
                 NEW a \in Bump!CellsOf(q, wrote[q].size)
          PROVE  a \in Bump!Cells /\ mem'[a] = wrote[q].mark
      <4>1. a \in Bump!Cells /\ a \in Nat /\ q <= a /\ a < q + wrote[q].size
        BY DEF Bump!BumpAssumption, Bump!Cells, Bump!CellsOf
      <4>2. /\ q \in DOMAIN live /\ wrote[q].size \in Nat
            /\ wrote[q].size <= live[q]
        BY <1>1 DEF WroteOK, BumpInv, Bump!TypeOK
      <4>3. a < memBrk
        BY <1>2, <4>1, <4>2
      <4>4. QED
        BY <1>1, <2>5, <4>1, <4>3 DEF BumpInv, Bump!ContentsKept
    <3>2. ASSUME Bump!NewPtr \in DOMAIN wrote',
                 NEW a \in Bump!CellsOf(Bump!NewPtr, wrote'[Bump!NewPtr].size)
          PROVE  mem'[a] = wrote'[Bump!NewPtr].mark
      <4> DEFINE b == a - Bump!NewPtr + p
      <4>1. /\ a \in Bump!Cells /\ a \in Nat /\ a % 8 = 0
            /\ Bump!NewPtr <= a /\ a < Bump!NewPtr + wrote'[Bump!NewPtr].size
        BY DEF Bump!BumpAssumption, Bump!Cells, Bump!CellsOf, Bump!ALIGNMENT
      <4>2. /\ b \in Nat /\ b % 8 = 0 /\ p <= b /\ b < p + wrote[p].size
            /\ a < Bump!NewPtr + k
        BY <1>2, <1>3, <2>1, <2>3, <3>2, <4>1
      <4>3. /\ wrote[p].size <= live[p] /\ wrote[p].size \in Nat
            /\ p \in DOMAIN wrote
        BY <1>1, <1>6, <3>2 DEF WroteOK
      <4>4. /\ b < memBrk /\ b \in Bump!Cells
            /\ b \in Bump!CellsOf(p, wrote[p].size)
        BY <1>2, <2>1, <4>2, <4>3
           DEF Bump!BumpAssumption, Bump!Cells, Bump!CellsOf, Bump!ALIGNMENT
      <4>5. mem'[a] = mem[b]
        BY <1>2, <1>3, <4>1, <4>2, <4>4
           DEF Bump!Memcpy, Bump!StoreSize, Bump!CellsOf
      <4>6. QED
        BY <1>1, <1>6, <3>2, <4>3, <4>4, <4>5 DEF BumpInv, Bump!ContentsKept
    <3>3. QED
      BY <1>6, <3>1, <3>2 DEF Bump!ContentsKept, Bump!CellsOf
  <2>9. QED
    BY <1>1, <1>4, <1>5, <1>6, <2>1, <2>2, <2>4, <2>7, <2>8
       DEF BumpInv, Bump!TypeOK, Bump!ALIGNMENT
<1>9. QED
  BY <1>7, <1>8

LEMMA BumpStepKeeps ==
  ASSUME Bump!BumpAssumption, BumpInv, [Bump!Next]_(Bump!vars)
  PROVE  BumpInv'
<1>1. ASSUME NEW size \in Requests, Bump!Malloc(size)
      PROVE  BumpInv'
  BY <1>1, BumpMallocKeeps
<1>2. ASSUME NEW size \in Requests, Bump!Refuse(size)
      PROVE  UNCHANGED Bump!vars
  BY <1>2 DEF Bump!Refuse
<1>3. ASSUME NEW p \in DOMAIN live, Bump!Free(p)
      PROVE  BumpInv'
  BY <1>3, BumpFreeKeeps
<1>4. ASSUME NEW p \in DOMAIN live, NEW size \in Requests,
             Bump!Realloc(p, size)
      PROVE  BumpInv'
  BY <1>4, BumpReallocKeeps
<1>5. ASSUME NEW p \in DOMAIN live, NEW mark \in Marks, Bump!Fill(p, mark)
      PROVE  BumpInv'
  BY <1>5, BumpFillKeeps
<1>6. CASE Bump!Reset
  <2>1. /\ DOMAIN live' = {} /\ DOMAIN wrote' = {} /\ ~wrapped'
        /\ live' = << >> /\ wrote' = << >> /\ memBrk' = HeapStart /\ mem' = mem
    BY <1>6 DEF Bump!Reset
  <2>2. Bump!TypeOK'
    <3>1. live' \in [DOMAIN live' -> Requests]
      BY <2>1
    <3>4. wrapped' \in BOOLEAN
      BY <1>6 DEF Bump!Reset
    <3>2. /\ memBrk' \in 0..HeapMax /\ HeapStart <= memBrk'
          /\ memBrk' % Bump!ALIGNMENT = 0
      BY <2>1 DEF Bump!BumpAssumption, Bump!ALIGNMENT
    <3>3. QED
      BY <2>1, <3>1, <3>2, <3>4 DEF BumpInv, Bump!TypeOK
  <2>3. QED
    BY <2>1, <2>2
       DEF BumpInv, Layout, WroteOK, Bump!HeadersAgree, Bump!ContentsKept
<1>7. CASE UNCHANGED Bump!vars
  BY <1>7
     DEF Bump!vars, BumpInv, Bump!TypeOK, Layout, WroteOK, Bump!HeadersAgree,
         Bump!ContentsKept, Bump!CellsOf
<1>8. QED
  BY <1>1, <1>2, <1>3, <1>4, <1>5, <1>6, <1>7 DEF Bump!Next

LEMMA BumpInitKeeps ==
  ASSUME Bump!BumpAssumption, Bump!Init
  PROVE  BumpInv
<1>1. /\ DOMAIN live = {} /\ DOMAIN wrote = {} /\ memBrk = HeapStart
      /\ live = << >> /\ wrote = << >> /\ wrapped = FALSE
      /\ mem = [a \in Bump!Cells |-> 0]
  BY DEF Bump!Init
<1>2. Bump!TypeOK
  <2>1. live \in [DOMAIN live -> Requests]
    BY <1>1
  <2>2. /\ memBrk \in 0..HeapMax /\ HeapStart <= memBrk
        /\ memBrk % Bump!ALIGNMENT = 0
    BY <1>1 DEF Bump!BumpAssumption, Bump!ALIGNMENT
  <2>3. mem \in [Bump!Cells -> Requests \cup {0} \cup Marks]
    BY <1>1
  <2>4. QED
    BY <1>1, <2>1, <2>2, <2>3 DEF Bump!TypeOK
<1>3. QED
  BY <1>1, <1>2
     DEF BumpInv, Layout, WroteOK, Bump!HeadersAgree, Bump!ContentsKept

-----------------------------------------------------------------------------
(***************************************************************************)
(* The theorems.                                                           *)
(***************************************************************************)
(* For every heap, word and set of requests, mm_realloc reads in front of  *)
(* a payload the size it was allocated for (line 90), and a payload keeps  *)
(* what its client wrote, through realloc as far as it fits (93).          *)
THEOREM BumpSafe ==
  ASSUME Bump!BumpAssumption
  PROVE  Bump!Spec => []Bump!PayloadsSafe
<1>1. BumpInv => Bump!PayloadsSafe
  BY DEF BumpInv, Bump!PayloadsSafe
<1>2. QED
  BY <1>1, BumpInitKeeps, BumpStepKeeps, PTL DEF Bump!Spec

LEMMA InAddr ==
  ASSUME Bump!BumpAssumption, NEW a \in Nat, HeapStart <= a, a <= HeapMax,
         a % 8 = 0
  PROVE  a \in Bump!Cells \cup {HeapMax}
BY DEF Bump!BumpAssumption, Bump!Cells, Bump!ALIGNMENT

(* A call that is granted without a wrap, refused or free is a call that   *)
(* Allocator allows.                                                       *)
LEMMA BumpStepImplements ==
  ASSUME Bump!BumpAssumption, BumpInv, [Bump!Next]_(Bump!vars)
  PROVE  [wrapped' \/ Bump!Package!Next]_<<live, memBrk>>
<1>1. ASSUME NEW size \in Requests, Bump!Malloc(size), ~wrapped'
      PROVE  Bump!Package!Next
  <2>1. /\ memBrk \in Nat /\ HeapStart <= memBrk /\ memBrk % 8 = 0
        /\ memBrk' \in Nat /\ memBrk' % 8 = 0 /\ memBrk' <= HeapMax
        /\ Bump!NewPtr % 8 = 0 /\ memBrk \in Bump!Cells
        /\ Bump!NewPtr + size <= memBrk' /\ HeapStart <= memBrk'
    BY <1>1, GrantFacts DEF Bump!Malloc, Bump!ALIGNMENT
  <2>2. /\ Bump!NewPtr = memBrk + 8 /\ size \in Nat
        /\ HeapStart \in Nat /\ HeapMax \in Nat /\ HeapMax % 8 = 0
        /\ \A p \in DOMAIN live :
             p \in Nat /\ live[p] \in Nat /\ p + live[p] <= memBrk
    BY <1>1
       DEF Bump!BumpAssumption, Bump!Malloc, Bump!Grant, BumpInv, Bump!TypeOK,
           Layout, Bump!NewPtr, Bump!SIZE_T_SIZE, Bump!ALIGNMENT
  <2>3. /\ Bump!NewPtr \in Bump!Cells \cup {HeapMax}
        /\ memBrk' \in Bump!Cells \cup {HeapMax}
    <3>1. /\ Bump!NewPtr \in Nat /\ HeapStart <= Bump!NewPtr
          /\ Bump!NewPtr <= HeapMax
      BY <2>1, <2>2
    <3>2. QED
      BY <2>1, <3>1, InAddr
  <2>4. /\ Bump!NewPtr \notin DOMAIN live
        /\ \A q \in DOMAIN live :
             Bump!Package!Apart(Bump!NewPtr, size, q, live[q])
    BY <2>1, <2>2 DEF Bump!Package!Apart
  <2>5. live' = [q \in DOMAIN live \cup {Bump!NewPtr} |->
                   IF q = Bump!NewPtr THEN size ELSE live[q]]
    BY <1>1 DEF Bump!Malloc, Bump!AddLive
  <2>6. Bump!Package!Alloc(Bump!NewPtr, size)
    BY <2>1, <2>2, <2>3, <2>4, <2>5
       DEF Bump!Package!Alloc, Bump!Package!Aligned, Bump!ALIGNMENT
  <2>7. QED
    BY <2>3, <2>6 DEF Bump!Package!Next
<1>2. ASSUME NEW p \in DOMAIN live, NEW size \in Requests,
             Bump!Realloc(p, size), ~wrapped'
      PROVE  Bump!Package!Next
  <2>1. /\ memBrk \in Nat /\ HeapStart <= memBrk /\ memBrk % 8 = 0
        /\ memBrk' \in Nat /\ memBrk' % 8 = 0 /\ memBrk' <= HeapMax
        /\ Bump!NewPtr % 8 = 0 /\ memBrk \in Bump!Cells
        /\ Bump!NewPtr + size <= memBrk' /\ HeapStart <= memBrk'
    BY <1>2, GrantFacts DEF Bump!Realloc, Bump!ALIGNMENT
  <2>2. /\ Bump!NewPtr = memBrk + 8 /\ size \in Nat
        /\ HeapStart \in Nat /\ HeapMax \in Nat /\ HeapMax % 8 = 0
        /\ \A q \in DOMAIN live : /\ q \in Nat /\ live[q] \in Nat
                                  /\ q + live[q] <= memBrk
                                  /\ q % 8 = 0 /\ HeapStart <= q
    BY <1>2
       DEF Bump!BumpAssumption, Bump!Realloc, Bump!Grant, BumpInv, Bump!TypeOK,
           Layout, Bump!NewPtr, Bump!SIZE_T_SIZE, Bump!ALIGNMENT
  <2>3. /\ Bump!NewPtr \in Bump!Cells \cup {HeapMax}
        /\ memBrk' \in Bump!Cells \cup {HeapMax}
        /\ p \in Bump!Cells \cup {HeapMax}
    <3>1. /\ Bump!NewPtr \in Nat /\ HeapStart <= Bump!NewPtr
          /\ Bump!NewPtr <= HeapMax
      BY <2>1, <2>2
    <3>2. p \in Nat /\ p % 8 = 0 /\ HeapStart <= p /\ p <= HeapMax
      BY <2>1, <2>2
    <3>3. QED
      BY <2>1, <3>1, <3>2, InAddr
  <2>4. /\ Bump!NewPtr \notin DOMAIN live
        /\ \A q \in DOMAIN live :
             Bump!Package!Apart(Bump!NewPtr, size, q, live[q])
    BY <2>1, <2>2 DEF Bump!Package!Apart
  <2>5. live' = [q \in (DOMAIN live \ {p}) \cup {Bump!NewPtr} |->
                   IF q = Bump!NewPtr THEN size ELSE live[q]]
    BY <1>2, <2>4 DEF Bump!Realloc, Bump!AddLive, Bump!Without, Bump!Restrict
  <2>6. Bump!Package!Move(p, Bump!NewPtr, size)
    BY <2>1, <2>2, <2>3, <2>4, <2>5
       DEF Bump!Package!Move, Bump!Package!Aligned, Bump!ALIGNMENT
  <2>7. QED
    BY <2>3, <2>6 DEF Bump!Package!Next
<1>3. ASSUME NEW p \in DOMAIN live, Bump!Free(p)
      PROVE  Bump!Package!Next
  <2>1. /\ p \in Nat /\ p % 8 = 0 /\ HeapStart <= p /\ p <= HeapMax
    BY <1>3
       DEF Bump!BumpAssumption, Bump!Free, BumpInv, Bump!TypeOK, Layout,
           Bump!SIZE_T_SIZE, Bump!ALIGNMENT
  <2>2. p \in Bump!Cells \cup {HeapMax}
    BY <2>1 DEF Bump!BumpAssumption, Bump!Cells, Bump!ALIGNMENT
  <2>3. Bump!Package!Free(p)
    BY <1>3
       DEF Bump!Free, Bump!Without, Bump!Restrict, Bump!Package!Free,
           Bump!Package!Restrict
  <2>4. QED
    BY <2>2, <2>3 DEF Bump!Package!Next
<1>4. CASE Bump!Reset
  <2>1. HeapStart \in Bump!Cells \cup {HeapMax}
    BY DEF Bump!BumpAssumption, Bump!Cells, Bump!ALIGNMENT
  <2>2. Bump!Package!Reset
    BY <1>4, <2>1 DEF Bump!Reset, Bump!Package!Reset
  <2>3. QED
    BY <2>2 DEF Bump!Package!Next
<1>5. ASSUME NEW size \in Requests, Bump!Refuse(size)
      PROVE  UNCHANGED <<live, memBrk>>
  BY <1>5 DEF Bump!Refuse, Bump!vars
<1>6. ASSUME NEW p \in DOMAIN live, NEW mark \in Marks, Bump!Fill(p, mark)
      PROVE  UNCHANGED <<live, memBrk>>
  BY <1>6 DEF Bump!Fill
<1>7. CASE UNCHANGED Bump!vars
  BY <1>7 DEF Bump!vars
<1>8. QED
  BY <1>1, <1>2, <1>3, <1>4, <1>5, <1>6, <1>7 DEF Bump!Next

(* mm-original.c keeps the promise of Allocator, for every heap and word,  *)
(* until a request is granted although a sum of lines 61-62 wrapped.       *)
THEOREM BumpKeepsPromise ==
  ASSUME Bump!BumpAssumption
  PROVE  Bump!Spec => Bump!PromiseUntilWrap
<1>1. Bump!Init => Bump!Package!Init
  BY DEF Bump!BumpAssumption, Bump!Init, Bump!Package!Init, Bump!Cells,
         Bump!ALIGNMENT
<1>2. QED
  BY <1>1, BumpInitKeeps, BumpStepKeeps, BumpStepImplements, PTL
     DEF Bump!Spec, Bump!PromiseUntilWrap
=============================================================================
