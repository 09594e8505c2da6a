--------------------------- MODULE BumpAllocator ---------------------------
(***************************************************************************)
(* The package of "Efficient Mallocs/mm-original.c": malloc moves the      *)
(* break of the simulated heap, free does nothing, realloc is a malloc and *)
(* a copy.  The heap is a sequence of 8-byte cells named by the address of *)
(* their first byte; a block is one cell with the size asked for, and the  *)
(* cells of its payload.  Sizes are unsigned integers modulo WordMod, the  *)
(* argument of mem_sbrk is signed, and mem_sbrk adds to a pointer of the   *)
(* same width: what the sums do at the end of the range is modelled.       *)
(*                                                                         *)
(* The client fills payloads, and asks no more of the package after a sum  *)
(* has wrapped and a request was granted all the same, until it is reset.  *)
(***************************************************************************)
EXTENDS Integers, Functions

CONSTANTS
  HeapStart,  \* mem_start_brk
  HeapMax,    \* mem_max_addr
  WordMod,    \* 2^32 in the 32-bit build
  Requests,   \* request sizes of the client
  Marks       \* what the client fills payloads with

ALIGNMENT == 8

SIZE_T_SIZE == 8

ASSUME BumpAssumption ==
  /\ HeapStart \in Nat /\ HeapStart % ALIGNMENT = 0
  /\ HeapMax \in Nat /\ HeapStart <= HeapMax /\ HeapMax % ALIGNMENT = 0
  /\ WordMod \in Nat /\ WordMod > 2 * ALIGNMENT /\ HeapMax < WordMod
  /\ Requests \subseteq 0..WordMod - 1
  /\ Marks \cap Int = {}

VARIABLES
  brk,      \* mem_brk
  mem,      \* cell -> contents
  live,     \* payload pointer -> bytes requested
  wrote,    \* payload pointer -> [mark, size]: what its client relies on
  wrapped   \* a request was granted by a sum that wrapped

vars == <<brk, mem, live, wrote, wrapped>>

Cells == {a \in HeapStart..HeapMax - 1 : a % ALIGNMENT = 0}

CellsOf(p, n) == {a \in Cells : p <= a /\ a < p + n}

(* mutant: no room for the size *)
NewSizeNoHeader(size) ==
  (((size + (ALIGNMENT - 1)) % WordMod) \div ALIGNMENT) * ALIGNMENT

(* ALIGN(size + SIZE_T_SIZE), the sum of unsigned numbers *)
NewSize(size) ==
  (((size + SIZE_T_SIZE + (ALIGNMENT - 1)) % WordMod) \div ALIGNMENT) * ALIGNMENT

(* a negative int *)
Negative(n) == n >= WordMod \div 2

SbrkGrants(incr) ==
  /\ ~Negative(incr)
  /\ (brk + incr) % WordMod <= HeapMax

Wraps(size) == brk + size + SIZE_T_SIZE + (ALIGNMENT - 1) >= WordMod

(* the pointer mm_malloc returns when mem_sbrk grants *)
NewPtr == brk + SIZE_T_SIZE

(* the size goes where the break was; a write behind the heap is lost *)
StoreSize(m, size) == [a \in Cells |-> IF a = brk THEN size ELSE m[a]]

AddLive(t, p, v) == [q \in DOMAIN t \cup {p} |-> IF q = p THEN v ELSE t[q]]

Without(t, p) == Restrict(t, DOMAIN t \ {p})

MinOf(m, n) == IF m < n THEN m ELSE n

(* mutant: source and destination swapped *)
MemcpySwapped(m, dst, src, n) ==
  [a \in Cells |-> IF a \in CellsOf(src, n) /\ a - src + dst \in Cells
                   THEN m[a - src + dst] ELSE m[a]]

Memcpy(m, dst, src, n) ==
  [a \in Cells |-> IF a \in CellsOf(dst, n) /\ a - dst + src \in Cells
                   THEN m[a - dst + src] ELSE m[a]]
-----------------------------------------------------------------------------
Init ==
  /\ brk = HeapStart
  /\ mem = [a \in Cells |-> 0]
  /\ live = << >>
  /\ wrote = << >>
  /\ wrapped = FALSE

(* mem_reset_brk and mm_init of the driver: the cells keep their contents *)
Reset ==
  /\ brk' = HeapStart
  /\ live' = << >> /\ wrote' = << >>
  /\ wrapped' = FALSE
  /\ UNCHANGED mem

Grant(size) ==
  /\ ~wrapped
  /\ SbrkGrants(NewSize(size))
  /\ brk' = (brk + NewSize(size)) % WordMod
  /\ wrapped' = Wraps(size)

Malloc(size) ==
  /\ Grant(size)
  /\ mem' = StoreSize(mem, size)
  /\ live' = AddLive(live, NewPtr, size)
  /\ UNCHANGED wrote

(* NULL from mm_malloc, also within mm_realloc *)
Refuse(size) ==
  /\ ~wrapped
  /\ ~SbrkGrants(NewSize(size))
  /\ UNCHANGED vars

Free(p) ==
  /\ ~wrapped /\ p \in DOMAIN live
  /\ live' = Without(live, p)
  /\ wrote' = Without(wrote, p)
  /\ UNCHANGED <<brk, mem, wrapped>>

Realloc(p, size) ==
  /\ p \in DOMAIN live
  /\ Grant(size)
  /\ mem' = Memcpy(StoreSize(mem, size), NewPtr, p,
                   MinOf(mem[p - SIZE_T_SIZE], size))
  /\ live' = AddLive(Without(live, p), NewPtr, size)
  /\ wrote' = IF p \in DOMAIN wrote
              THEN AddLive(Without(wrote, p), NewPtr,
                           [mark |-> wrote[p].mark,
                            size |-> MinOf(wrote[p].size, size)])
              ELSE wrote

(* the client writes its payload *)
Fill(p, mark) ==
  /\ ~wrapped /\ p \in DOMAIN live
  /\ mem' = [a \in Cells |-> IF a \in CellsOf(p, live[p]) THEN mark ELSE mem[a]]
  /\ wrote' = AddLive(wrote, p, [mark |-> mark, size |-> live[p]])
  /\ UNCHANGED <<brk, live, wrapped>>

Next ==
  \/ \E size \in Requests : Malloc(size) \/ Refuse(size)
  \/ \E p \in DOMAIN live :
       \/ Free(p)
       \/ \E size \in Requests : Realloc(p, size)
       \/ \E mark \in Marks : Fill(p, mark)
  \/ Reset

Spec == Init /\ [][Next]_vars
-----------------------------------------------------------------------------
(***************************************************************************)
(* Properties.                                                             *)
(***************************************************************************)
(* The shape of the variables; the break is in the heap unless a sum has   *)
(* wrapped.                                                                *)
TypeOK ==
  /\ brk \in 0..HeapMax
  /\ ~wrapped => HeapStart <= brk /\ brk % ALIGNMENT = 0
  /\ mem \in [Cells -> Requests \cup {0} \cup Marks]
  /\ live \in [DOMAIN live -> Requests]
  /\ DOMAIN wrote \subseteq DOMAIN live
  /\ wrapped \in BOOLEAN

Package == INSTANCE Allocator
  WITH Addr <- Cells \cup {HeapMax}, Alignment <- ALIGNMENT

(* mm-original.c is a correct package for as long as no sum of lines 61    *)
(* and 62 wraps: every call is one that Allocator allows, or the first     *)
(* request granted although its rounded size or the new break passed the   *)
(* end of the word.                                                        *)
PromiseUntilWrap == Package!Init /\ [][wrapped' \/ Package!Next]_<<live, brk>>

(* The size mm_realloc reads before a payload (line 90) is the size of the *)
(* request the payload was allocated for, whatever the clients of other    *)
(* payloads have written and earlier traces have left in the heap: no copy *)
(* runs over the end of the old payload.                                   *)
HeadersAgree ==
  ~wrapped => \A p \in DOMAIN live : mem[p - SIZE_T_SIZE] = live[p]

(* A payload keeps what its client has written until it is freed, through  *)
(* other clients' calls and writes and through realloc, which keeps as     *)
(* much as fits (lines 87-95).                                             *)
ContentsKept ==
  ~wrapped => \A p \in DOMAIN wrote :
                \A a \in CellsOf(p, wrote[p].size) : mem[a] = wrote[p].mark

(* Both together: realloc copies what it should, and nothing else touches  *)
(* what a client has written (lines 59-96).                                *)
PayloadsSafe == TypeOK /\ HeadersAgree /\ ContentsKept
=============================================================================
