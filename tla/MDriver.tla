------------------------------ MODULE MDriver ------------------------------
(***************************************************************************)
(* "Efficient Mallocs/mdriver.c": the driver replays traces of requests on *)
(* a malloc package.  Each trace is first checked for correctness          *)
(* (eval_mm_valid), with a list of the payloads' ranges, and if it passes, *)
(* replayed for space utilization (eval_mm_util) and, several times, for   *)
(* speed (eval_mm_speed).  With -l, the C library's malloc is put through  *)
(* the traces before (eval_libc_valid, eval_libc_speed).                   *)
(*                                                                         *)
(* An honest package is the one that Allocator promises, so that this      *)
(* module is the composition of the driver and any correct package; any    *)
(* other returns whatever it likes.  Either may also refuse a request.     *)
(***************************************************************************)
EXTENDS Integers, Sequences, SequencesExt, FiniteSetsExt

CONSTANTS
  Settings,   \* [suite: traces of [type, id, size], honest, libc: BOOLEAN]
  Addr, HeapStart, Alignment,
  LibcAddr,   \* blocks the C library has
  SpeedRuns   \* bound: times fsecs calls eval_mm_speed or eval_libc_speed

Ops(suite) == UNION {ToSet(suite[t]) : t \in DOMAIN suite}

(* the requests of a trace that are allocated before operation n *)
LiveBefore(ops, n) ==
  {ops[j].id : j \in {k \in 1..n - 1 :
     /\ ops[k].type # "free"
     /\ \A l \in k + 1..n - 1 : ops[l].id = ops[k].id => ops[l].type # "free"}}

(* realloc and free name a request that is allocated, alloc one that is not *)
WellFormed(ops) ==
  /\ Len(ops) \in Nat /\ DOMAIN ops = 1..Len(ops)
  /\ \A n \in DOMAIN ops :
       ops[n].type = "alloc" <=> ops[n].id \notin LiveBefore(ops, n)

ASSUME MDriverAssumption ==
  /\ Addr \subseteq Nat /\ HeapStart \in Nat
  /\ \A s \in Settings :
       /\ s.honest \in BOOLEAN /\ s.libc \in BOOLEAN
       /\ Len(s.suite) \in Nat \ {0} /\ DOMAIN s.suite = 1..Len(s.suite)
       /\ \A t \in DOMAIN s.suite : WellFormed(s.suite[t])
       /\ \A o \in Ops(s.suite) : /\ o.type \in {"alloc", "realloc", "free"}
                                  /\ o.id \in Nat
                                  /\ o.type # "free" => o.size \in Nat \ {0}
  /\ SpeedRuns \in Nat \ {0}

VARIABLES
  job,     \* the package and the trace files of this run of the driver
  trace,   \* tracenum
  phase,   \* the function the driver is in
  i,       \* the operation it is at
  round,   \* calls of eval_mm_speed for this trace
  ranges,  \* the range list: sequence of [lo, hi]
  blocks,  \* trace->blocks
  sizes,   \* trace->block_sizes
  total,   \* total_size of eval_mm_util
  hwm,     \* max_total_size
  errors,  \* errors found
  report,  \* the kinds of messages malloc_error has printed
  valid,   \* the traces with mm_stats[].valid set
  held,    \* the package's own record of what it has handed out
  brk,     \* mem_heap_hi() + 1
  libc     \* what the C library has handed out to the evaluation of it

driver == <<job, trace, phase, round, errors, report, valid>>
mmvars == <<driver, i, ranges, blocks, sizes, total, hwm, held, brk>>
vars == <<mmvars, libc>>

Suite == job.suite

Honest == job.honest

Package == INSTANCE Allocator
  WITH Requests <- UNION {{o.size : o \in {p \in Ops(s.suite) : p.type # "free"}} :
                            s \in Settings},
       live <- held

Op == Suite[trace][i]

AtOp(type) == i \in DOMAIN Suite[trace] /\ Op.type = type

AtEnd == i = Len(Suite[trace]) + 1

Store(table, id, v) ==
  [j \in DOMAIN table \cup {id} |-> IF j = id THEN v ELSE table[j]]

(***************************************************************************)
(* The range list.                                                         *)
(***************************************************************************)
Extent(lo, size) == [lo |-> lo, hi |-> lo + size - 1]

InHeap(r) == /\ HeapStart <= r.lo /\ r.lo < brk'
             /\ HeapStart <= r.hi /\ r.hi < brk'

(* does an end of the new range lie in the old one? *)
Overlaps(new, old) ==
  \/ new.lo >= old.lo /\ new.lo <= old.hi
  \/ new.hi >= old.lo /\ new.hi <= old.hi

(* add_range's verdict on a new payload *)
Objection(rs, r) ==
  CASE r.lo % Alignment # 0 -> "alignment"
    [] r.lo % Alignment = 0 /\ ~InHeap(r) -> "outside"
    [] r.lo % Alignment = 0 /\ InHeap(r) /\
       (\E j \in DOMAIN rs : Overlaps(r, rs[j])) -> "overlap"
    [] OTHER -> "none"

RemoveRange(rs, lo) == RemoveFirstMatch(rs, LAMBDA r : r.lo = lo)

(* char is signed: what memset wrote is read back as a negative number *)
SignedChar(byte) == IF byte < 128 THEN byte ELSE byte - 256

ReadsBack(id) == SignedChar(id % 256) = id % 256
-----------------------------------------------------------------------------
(***************************************************************************)
(* What the package may do.                                                *)
(***************************************************************************)
Anything == UNCHANGED held /\ brk' \in {a \in Addr : a >= brk}

PackageMalloc(p, n) ==
  IF Honest THEN Package!Alloc(p, n) ELSE Anything

PackageRealloc(p, q, n) ==
  IF Honest THEN \/ p = q /\ Package!Resize(p, n)
                 \/ p # q /\ Package!Move(p, q, n)
            ELSE Anything

PackageFree(p) == IF Honest THEN Package!Free(p) ELSE Anything

(* an honest package copies the old payload into the new one *)
CopiesData == IF Honest THEN {TRUE} ELSE BOOLEAN
(* a block of the C library, none that is in use *)
LibcMalloc == {p \in LibcAddr : p \notin libc}

Accept == i' = i + 1 /\ UNCHANGED driver
-----------------------------------------------------------------------------
(***************************************************************************)
(* eval_libc_valid and eval_libc_speed: the same loop, which checks        *)
(* nothing.  Blocks a trace does not free stay with the C library.         *)
(***************************************************************************)
LibcPhase == phase \in {"libc_valid", "libc_speed"}

Libc(id, p) ==
  /\ blocks' = Store(blocks, id, p)
  /\ Accept
  /\ UNCHANGED <<ranges, sizes, total, hwm, held, brk>>

LibcAlloc ==
  /\ LibcPhase /\ AtOp("alloc")
  /\ \E p \in LibcMalloc : libc' = libc \cup {p} /\ Libc(Op.id, p)

LibcRealloc ==
  /\ LibcPhase /\ AtOp("realloc") /\ Op.id \in DOMAIN blocks
  /\ \E q \in LibcMalloc \cup {blocks[Op.id]} :
       libc' = (libc \ {blocks[Op.id]}) \cup {q} /\ Libc(Op.id, q)

LibcFree ==
  /\ LibcPhase /\ AtOp("free") /\ Op.id \in DOMAIN blocks
  /\ libc' = libc \ {blocks[Op.id]}
  /\ Libc(Op.id, blocks[Op.id])

(* NULL ends the program, in the first evaluation after a message *)
LibcRefuse ==
  /\ LibcPhase /\ (AtOp("alloc") \/ AtOp("realloc"))
  /\ phase' = "exited"
  /\ IF phase = "libc_valid"
     THEN errors' = errors + 1 /\ report' = report \cup {"failed"}
     ELSE UNCHANGED <<errors, report>>
  /\ UNCHANGED <<job, trace, round, valid, i, ranges, blocks, sizes, total, hwm,
                 held, brk, libc>>

(* the next call of eval_libc_speed, *)
LibcAgain ==
  /\ LibcPhase /\ AtEnd /\ round < SpeedRuns
  /\ phase' = "libc_speed" /\ i' = 1 /\ round' = round + 1
  /\ UNCHANGED <<job, trace, errors, report, valid, ranges, blocks, sizes, total,
                 hwm, held, brk, libc>>

(* the next trace, or after the last of them the first for mm malloc *)
LibcEnd ==
  /\ phase = "libc_speed" /\ AtEnd /\ round = SpeedRuns
  /\ IF trace < Len(Suite) THEN trace' = trace + 1 /\ phase' = "libc_valid"
                           ELSE trace' = 1 /\ phase' = "valid"
  /\ i' = 1 /\ round' = 0 /\ blocks' = << >>
  /\ UNCHANGED <<job, errors, report, valid, ranges, sizes, total, hwm, held, brk, libc>>

LibcEvaluation ==
  LibcAlloc \/ LibcRealloc \/ LibcFree \/ LibcRefuse \/ LibcAgain \/ LibcEnd
-----------------------------------------------------------------------------
(* mem_reset_brk and mm_init, with which each of the evaluations begins;   *)
(* the heap only grows from its start *)
Begin(ph) ==
  /\ phase' = ph
  /\ i' = 1
  /\ Package!Reset /\ brk' >= HeapStart
  /\ UNCHANGED <<errors, report>>

(* mutant: the message is printed, the error is not counted *)
ComplainUncounted(what) ==
  /\ report' = report \cup {what}
  /\ phase' = "next"
  /\ UNCHANGED <<job, trace, round, valid, errors, i>>

Complain(what) ==
  /\ errors' = errors + 1
  /\ report' = report \cup {what}
  /\ phase' = "next"
  /\ UNCHANGED <<job, trace, round, valid, i>>

(***************************************************************************)
(* eval_mm_valid.                                                          *)
(***************************************************************************)
ValidMalloc(p) ==
  LET r == Extent(p, Op.size)
  IN /\ phase = "valid" /\ AtOp("alloc")
     /\ PackageMalloc(p, Op.size)
     /\ IF Objection(ranges, r) # "none"
        THEN /\ Complain(Objection(ranges, r))
             /\ UNCHANGED <<ranges, blocks, sizes>>
        ELSE /\ Accept
             /\ ranges' = <<r>> \o ranges
             /\ blocks' = Store(blocks, Op.id, p)
             /\ sizes' = Store(sizes, Op.id, Op.size)
     /\ UNCHANGED <<total, hwm>>

(* mutant: the new range is added while the old one is still listed *)
ValidReallocKeeps(q) ==
  LET r == Extent(q, Op.size)
  IN /\ phase = "valid" /\ AtOp("realloc") /\ Op.id \in DOMAIN blocks
     /\ PackageRealloc(blocks[Op.id], q, Op.size)
     /\ \E copied \in CopiesData :
          LET bad == IF Objection(ranges, r) # "none" THEN Objection(ranges, r)
                     ELSE IF copied /\ ReadsBack(Op.id) THEN "none"
                     ELSE "data"
          IN /\ ranges' = IF Objection(ranges, r) = "none"
                          THEN <<r>> \o ranges ELSE ranges
             /\ IF bad # "none"
                THEN Complain(bad) /\ UNCHANGED <<blocks, sizes>>
                ELSE /\ Accept
                     /\ blocks' = Store(blocks, Op.id, q)
                     /\ sizes' = Store(sizes, Op.id, Op.size)
     /\ UNCHANGED <<total, hwm>>

ValidRealloc(q) ==
  LET r    == Extent(q, Op.size)
      rest == RemoveRange(ranges, blocks[Op.id])
  IN /\ phase = "valid" /\ AtOp("realloc") /\ Op.id \in DOMAIN blocks
     /\ PackageRealloc(blocks[Op.id], q, Op.size)
     /\ \E copied \in CopiesData :
          LET bad == IF Objection(rest, r) # "none" THEN Objection(rest, r)
                     ELSE IF copied /\ ReadsBack(Op.id) THEN "none"
                     ELSE "data"
          IN /\ ranges' = IF Objection(rest, r) = "none"
                          THEN <<r>> \o rest ELSE rest
             /\ IF bad # "none"
                THEN Complain(bad) /\ UNCHANGED <<blocks, sizes>>
                ELSE /\ Accept
                     /\ blocks' = Store(blocks, Op.id, q)
                     /\ sizes' = Store(sizes, Op.id, Op.size)
     /\ UNCHANGED <<total, hwm>>

ValidFree ==
  /\ phase = "valid" /\ AtOp("free") /\ Op.id \in DOMAIN blocks
  /\ PackageFree(blocks[Op.id])
  /\ ranges' = RemoveRange(ranges, blocks[Op.id])
  /\ Accept
  /\ UNCHANGED <<blocks, sizes, total, hwm>>

(* -1 from mm_init, or a NULL from mm_malloc or mm_realloc: an error of  *)
(* the trace in the first phase, the end of the program in the others    *)
Refuse ==
  /\ i = 1 \/ AtOp("alloc") \/ AtOp("realloc")
  /\ \/ phase = "valid" /\ Complain("failed")
     \/ /\ phase \in {"util", "speed"}
        /\ phase' = "exited"
        /\ UNCHANGED <<job, trace, round, errors, report, valid, i>>
  /\ UNCHANGED <<ranges, blocks, sizes, total, hwm, held, brk>>

(* mutant: max_total_size keeps the value of the trace before *)
ValidEndKeepsHwm ==
  /\ phase = "valid" /\ AtEnd
  /\ valid' = valid \cup {trace}
  /\ Begin("util")
  /\ total' = 0
  /\ UNCHANGED <<job, trace, round, ranges, blocks, sizes, hwm>>

ValidEnd ==
  /\ phase = "valid" /\ AtEnd
  /\ valid' = valid \cup {trace}
  /\ Begin("util")
  /\ total' = 0 /\ hwm' = 0
  /\ UNCHANGED <<job, trace, round, ranges, blocks, sizes>>
-----------------------------------------------------------------------------
(***************************************************************************)
(* eval_mm_util: the sizes are added up, nothing is checked.               *)
(***************************************************************************)
Count(n) ==
  /\ total' = total + n
  /\ hwm' = IF total + n > hwm THEN total + n ELSE hwm

UtilMalloc(p) ==
  /\ phase = "util" /\ AtOp("alloc")
  /\ PackageMalloc(p, Op.size)
  /\ blocks' = Store(blocks, Op.id, p)
  /\ sizes' = Store(sizes, Op.id, Op.size)
  /\ Count(Op.size)
  /\ Accept
  /\ UNCHANGED ranges

UtilRealloc(q) ==
  /\ phase = "util" /\ AtOp("realloc") /\ Op.id \in DOMAIN blocks
  /\ PackageRealloc(blocks[Op.id], q, Op.size)
  /\ blocks' = Store(blocks, Op.id, q)
  /\ sizes' = Store(sizes, Op.id, Op.size)
  /\ Count(Op.size - sizes[Op.id])
  /\ Accept
  /\ UNCHANGED ranges

UtilFree ==
  /\ phase = "util" /\ AtOp("free") /\ Op.id \in DOMAIN blocks
  /\ PackageFree(blocks[Op.id])
  /\ total' = total - sizes[Op.id]
  /\ Accept
  /\ UNCHANGED <<ranges, blocks, sizes, hwm>>

UtilEnd ==
  /\ phase = "util" /\ AtEnd
  /\ Begin("speed")
  /\ round' = 1
  /\ UNCHANGED <<job, trace, valid, ranges, blocks, sizes, total, hwm>>
-----------------------------------------------------------------------------
(***************************************************************************)
(* eval_mm_speed, called SpeedRuns times.                                  *)
(***************************************************************************)
(* mutant: the address that eval_mm_util stored is kept *)
SpeedMallocForgets(p) ==
  /\ phase = "speed" /\ AtOp("alloc")
  /\ PackageMalloc(p, Op.size)
  /\ Accept
  /\ UNCHANGED <<ranges, blocks, sizes, total, hwm>>

SpeedMalloc(p) ==
  /\ phase = "speed" /\ AtOp("alloc")
  /\ PackageMalloc(p, Op.size)
  /\ blocks' = Store(blocks, Op.id, p)
  /\ Accept
  /\ UNCHANGED <<ranges, sizes, total, hwm>>

SpeedRealloc(q) ==
  /\ phase = "speed" /\ AtOp("realloc") /\ Op.id \in DOMAIN blocks
  /\ PackageRealloc(blocks[Op.id], q, Op.size)
  /\ blocks' = Store(blocks, Op.id, q)
  /\ Accept
  /\ UNCHANGED <<ranges, sizes, total, hwm>>

SpeedFree ==
  /\ phase = "speed" /\ AtOp("free") /\ Op.id \in DOMAIN blocks
  /\ PackageFree(blocks[Op.id])
  /\ Accept
  /\ UNCHANGED <<ranges, blocks, sizes, total, hwm>>

SpeedEnd ==
  /\ phase = "speed" /\ AtEnd
  /\ IF round < SpeedRuns
     THEN Begin("speed") /\ round' = round + 1
     ELSE /\ phase' = "next"
          /\ UNCHANGED <<round, errors, report, i, held, brk>>
  /\ UNCHANGED <<job, trace, valid, ranges, blocks, sizes, total, hwm>>
-----------------------------------------------------------------------------
(***************************************************************************)
(* main: the next trace, or the summary.                                   *)
(***************************************************************************)
(* mutant: the records of the last trace stay in the range list *)
NextTraceNoClear ==
  /\ phase = "next" /\ trace < Len(Suite)
  /\ trace' = trace + 1
  /\ Begin("valid")
  /\ blocks' = << >> /\ sizes' = << >>
  /\ UNCHANGED <<job, round, valid, ranges, total, hwm>>

NextTrace ==
  /\ phase = "next" /\ trace < Len(Suite)
  /\ trace' = trace + 1
  /\ Begin("valid")
  /\ ranges' = << >> /\ blocks' = << >> /\ sizes' = << >>
  /\ UNCHANGED <<job, round, valid, total, hwm>>

Finish ==
  /\ phase = "next" /\ trace = Len(Suite)
  /\ phase' = "done"
  /\ UNCHANGED <<job, trace, round, errors, report, valid, i, ranges, blocks,
                 sizes, total, hwm, held, brk>>

PrintsIndex == phase = "done" /\ errors = 0

Init ==
  /\ job \in Settings
  /\ trace = 1 /\ i = 1 /\ round = 0
  /\ phase = IF job.libc THEN "libc_valid" ELSE "valid"
  /\ ranges = << >> /\ blocks = << >> /\ sizes = << >>
  /\ total = 0 /\ hwm = 0
  /\ errors = 0 /\ report = {} /\ valid = {}
  /\ Package!Init /\ brk >= HeapStart
  /\ libc = {}

MmEvaluation ==
  \/ \E p \in Addr :
       \/ ValidMalloc(p) \/ ValidRealloc(p)
       \/ UtilMalloc(p) \/ UtilRealloc(p)
       \/ SpeedMalloc(p) \/ SpeedRealloc(p)
  \/ ValidFree \/ UtilFree \/ SpeedFree
  \/ Refuse
  \/ ValidEnd \/ UtilEnd \/ SpeedEnd
  \/ NextTrace \/ Finish

Next == LibcEvaluation \/ (MmEvaluation /\ UNCHANGED libc)

Spec == Init /\ [][Next]_vars
-----------------------------------------------------------------------------
(***************************************************************************)
(* Properties.                                                             *)
(***************************************************************************)
(* The shape of the variables: the range list holds ranges, blocks and     *)
(* sizes are known for the same requests.                                  *)
TypeOK ==
  /\ job \in Settings
  /\ trace \in DOMAIN Suite
  /\ libc \subseteq LibcAddr
  /\ phase \in {"libc_valid", "libc_speed", "valid", "util", "speed", "next", "done", "exited"}
  /\ i \in 1..Len(Suite[trace]) + 1
  /\ round \in 0..SpeedRuns
  /\ \A j \in DOMAIN ranges : ranges[j].lo \in Nat /\ ranges[j].hi \in Nat
  /\ ~LibcPhase => /\ DOMAIN blocks = DOMAIN sizes \/ phase = "exited"
                   /\ \A id \in DOMAIN blocks : blocks[id] \in Addr \cup LibcAddr
  /\ total \in Nat /\ hwm \in Nat
  /\ errors \in 0..Len(Suite)
  /\ valid \subseteq DOMAIN Suite

LiveIds == LiveBefore(Suite[trace], i)

(* The range list (lines 381-464) records the payloads of the trace's live *)
(* requests and no others, however realloc and free have shuffled it and   *)
(* whatever an earlier trace has left there: a record too many is a false  *)
(* alarm, one too few lets an overlap pass.                                *)
RangesAreLive ==
  phase = "valid" =>
    /\ ToSet(ranges) = {Extent(blocks[id], sizes[id]) : id \in LiveIds}
    /\ \A j, k \in DOMAIN ranges : ranges[j] = ranges[k] => j = k

(* What the overlap test of lines 406-410 does guarantee: two payloads it  *)
(* has let pass overlap only if the later one encloses the earlier one.    *)
OverlapsEnclose ==
  \A j, k \in DOMAIN ranges :
    j < k /\ Overlaps(ranges[k], ranges[j]) =>
      ranges[j].lo < ranges[k].lo /\ ranges[k].hi < ranges[j].hi

(* A package that keeps Allocator's promise is never found guilty of       *)
(* anything but refusing a request.                                        *)
HonestNeverAccused == Honest => report \subseteq {"failed"}

(* Utilization is never above 1 (line 777): the payloads of a correct      *)
(* package lie side by side in a heap that only grows.                     *)
UtilAtMostOne ==
  Honest /\ phase = "util" => hwm <= brk - HeapStart

(* The high-water mark depends on the trace alone: the largest sum of the  *)
(* sizes of the requests that are live at the same time (lines 716-769).   *)
(* After n operations those are live whose latest operation is no free.    *)
Latest(ops, n) ==
  {j \in 1..n : /\ ops[j].type # "free"
               /\ \A l \in j + 1..n : ops[l].id # ops[j].id}

Bytes(ops, n) == UNION {{ops[j].id} \X (1..ops[j].size) : j \in Latest(ops, n)}

LiveBytes(n) == Cardinality(Bytes(Suite[trace], n))

HwmIsMax ==
  phase = "util" /\ AtEnd =>
    /\ \A n \in 0..Len(Suite[trace]) : LiveBytes(n) <= hwm
    /\ \E n \in 0..Len(Suite[trace]) : LiveBytes(n) = hwm

(* The performance index is printed (line 339) only when every trace has   *)
(* passed, and a trace that has not passed counts as exactly one error.    *)
IndexOnlyIfAllValid ==
  /\ PrintsIndex => valid = DOMAIN Suite
  /\ phase = "done" => errors = Len(Suite) - Cardinality(valid)

(* In all phases the blocks the package has handed out are those the       *)
(* driver holds for the trace's live requests, and no others, although the *)
(* table of addresses is never cleared between the phases: free and        *)
(* realloc are called on live payloads only, as Allocator requires.  The   *)
(* C library may hold what earlier replays have not freed besides.         *)
ClientKeepsContract ==
  /\ Honest /\ phase \in {"valid", "util", "speed"} =>
       /\ LiveIds \subseteq DOMAIN blocks
       /\ DOMAIN held = {blocks[id] : id \in LiveIds}
  /\ LibcPhase =>
       /\ LiveIds \subseteq DOMAIN blocks
       /\ {blocks[id] : id \in LiveIds} \subseteq libc
       /\ \A a, b \in LiveIds : blocks[a] = blocks[b] => a = b

(* The range list is the payloads, and what add_range lets pass beside one *)
(* another encloses one another (lines 381-464).                           *)
RangesOK == RangesAreLive /\ OverlapsEnclose

(* Both parts of the quotient of line 777, and the shape of the state.     *)
UtilOK == TypeOK /\ UtilAtMostOne /\ HwmIsMax
=============================================================================
