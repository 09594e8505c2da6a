--------------------------- MODULE FreeListMalloc ---------------------------
(***************************************************************************)
(* "Efficient Mallocs/mm_freeList.c" on the words of the simulated heap.   *)
(*                                                                         *)
(* The heap is a map from word addresses to values: boundary tags are      *)
(* size + allocated bit, list links are addresses, and a word nobody has   *)
(* written reads as 0 (memlib.c gets its 20 MB from one large malloc,      *)
(* which the kernel hands out zeroed).  mem_reset_brk only moves the break *)
(* back, so every later trace runs on the leftovers of the earlier ones.   *)
(*                                                                         *)
(* The client is mdriver.c's eval_mm_valid: it fills every payload with a  *)
(* byte that names the request (mdriver.c:625), and gives a trace up at    *)
(* the first error.  A payload is represented by its first word; its other *)
(* words are absent from mem as long as only the client has written them.  *)
(***************************************************************************)
EXTENDS Integers, Sequences, SequencesExt

CONSTANTS
  Ids,        \* request indices of a trace
  Requests,   \* sizes the trace asks for
  MemStart,   \* mem_start_brk
  MaxHeap,    \* MAX_HEAP of config.h
  SizeMod,    \* size_t has the values 0..SizeMod-1
  MaxCalls    \* bound: calls the driver makes

WSIZE == 4
DSIZE == 8
CHUNKSIZE == 4096      \* what 1<<12 means where nothing binds tighter
MIN_BLOCKSIZE == 24
NULL == 0

(* CHUNKSIZE/WSIZE expands to 1<<12/4, which C reads as 1<<(12/4) *)
InitWords == 8

MaxAddr == MemStart + MaxHeap

(* bound: rounds of a loop over blocks, of which no heap has more *)
MaxBlocks == MaxHeap \div MIN_BLOCKSIZE

(* the word memset(p, index & 0xFF, size) leaves behind *)
Fill(id) == 16843009 * id

ASSUME FreeListMallocAssumption ==
  /\ Ids \subseteq 0..127
  /\ SizeMod \in Nat /\ SizeMod >= 4 * DSIZE
  /\ Requests \subseteq 0..(SizeMod \div 2) - 1  \* ints of the driver
  /\ MemStart \in Nat \ {0} /\ MemStart % DSIZE = 0
  /\ MaxHeap \in Nat /\ MaxHeap >= 2 * MIN_BLOCKSIZE + InitWords * WSIZE
  /\ \A id \in Ids : Fill(id) - WSIZE \notin MemStart..MaxAddr
  /\ MaxCalls \in Nat

VARIABLES
  heap,    \* [mem, brk, start]
  live,    \* request id -> [ptr, size]
  status,  \* how the running trace stands
  calls    \* calls made so far, bounded by MaxCalls

vars == <<heap, live, status, calls>>

(***************************************************************************)
(* memlib.c.                                                               *)
(***************************************************************************)
CanSbrk(h, incr) == h.brk + incr <= MaxAddr

Sbrk(h, incr) == [h EXCEPT !.brk = @ + incr]

(***************************************************************************)
(* The macros.                                                             *)
(***************************************************************************)
Get(h, a) == IF a \in DOMAIN h.mem THEN h.mem[a] ELSE 0

(* the function f, with the value v at x *)
Update(f, x, v) == [y \in DOMAIN f \cup {x} |-> IF y = x THEN v ELSE f[y]]

Put(h, a, v) == [h EXCEPT !.mem = Update(@, a, v)]

GetSize(h, a) == (Get(h, a) \div DSIZE) * DSIZE

GetAlloc(h, a) == Get(h, a) % 2

HDRP(bp) == bp - WSIZE

FTRP(h, bp) == bp + GetSize(h, HDRP(bp)) - DSIZE

RightBlkp(h, bp) == bp + GetSize(h, HDRP(bp))

LeftBlkp(h, bp) == bp - GetSize(h, HDRP(bp) - WSIZE)

PrevBlkp(h, bp) == Get(h, bp + DSIZE)

NextBlkp(h, bp) == Get(h, bp)

SetPrev(h, bp, v) == Put(h, bp + DSIZE, v)

SetNext(h, bp, v) == Put(h, bp, v)

(* PUT(HDRP(bp), PACK(size, a)); PUT(FTRP(bp), PACK(size, a)) *)
PutTags(h, bp, size, a) ==
  LET g == Put(h, HDRP(bp), size + a)
  IN Put(g, FTRP(g, bp), size + a)

Align(n) == (((n + (DSIZE - 1)) % SizeMod) \div DSIZE) * DSIZE

BlockSize(n) ==
  LET s == (Align(n) + DSIZE) % SizeMod
  IN IF s > MIN_BLOCKSIZE THEN s ELSE MIN_BLOCKSIZE

(***************************************************************************)
(* The free list.                                                          *)
(***************************************************************************)
InsertBlock(h, bp) ==
  LET g == SetNext(SetNext(SetPrev(h, bp, h.start), h.start, bp), bp, NULL)
  IN [g EXCEPT !.start = bp]

(* mutant: the block below keeps pointing at the removed one *)
RemoveBlockOneWay(h, bp) ==
  IF NextBlkp(h, bp) # NULL
  THEN SetPrev(h, NextBlkp(h, bp), PrevBlkp(h, bp))
  ELSE [h EXCEPT !.start = PrevBlkp(h, bp)]

RemoveBlock(h, bp) ==
  LET g == IF NextBlkp(h, bp) # NULL
           THEN SetPrev(h, NextBlkp(h, bp), PrevBlkp(h, bp))
           ELSE [h EXCEPT !.start = PrevBlkp(h, bp)]
  IN SetNext(g, PrevBlkp(g, bp), NextBlkp(g, bp))

(* The block coalesce returns is always the new head, start. *)
Coalesce(h, bp) ==
  LET left       == LeftBlkp(h, bp)
      right      == RightBlkp(h, bp)
      leftAlloc  == GetAlloc(h, FTRP(h, left)) = 1 \/ left = bp
      rightAlloc == GetAlloc(h, HDRP(right)) = 1
      size       == GetSize(h, HDRP(bp))
      leftSize   == GetSize(h, HDRP(left))
      rightSize  == GetSize(h, HDRP(right))
      merged     ==
        CASE leftAlloc /\ rightAlloc  -> h
          [] leftAlloc /\ ~rightAlloc ->
               PutTags(RemoveBlock(h, right), bp, size + rightSize, 0)
          [] ~leftAlloc /\ rightAlloc ->
               PutTags(RemoveBlock(h, left), left, size + leftSize, 0)
          [] OTHER ->
               PutTags(RemoveBlock(RemoveBlock(h, left), right), left,
                       size + leftSize + rightSize, 0)
  IN InsertBlock(merged, IF leftAlloc THEN bp ELSE left)

(* extend_heap after mem_sbrk has agreed; its result is start *)
ExtendHeap(h, words) ==
  LET size == (words + (words % 2)) * WSIZE
      bp   == h.brk
      g    == PutTags(Sbrk(h, size), bp, size, 0)
  IN Coalesce(Put(g, HDRP(RightBlkp(g, bp)), 1), bp)

CanExtend(h, words) == CanSbrk(h, (words + (words % 2)) * WSIZE)

(* where a loop that goes down the list from its head is after n rounds *)
Down(h) ==
  LET bp[n \in Nat] == IF n = 0 THEN h.start ELSE PrevBlkp(h, bp[n - 1])
  IN bp

IsAlloc(h, bp) == GetAlloc(h, HDRP(bp)) # 0

Stops(h, asize, bp) == IsAlloc(h, bp) \/ asize <= GetSize(h, HDRP(bp))

(* the loop of find_freeblock *)
FindFreeblock(h, asize) ==
  LET last == CHOOSE n \in 0..MaxBlocks :
                /\ Stops(h, asize, Down(h)[n])
                /\ \A m \in 0..n - 1 : ~Stops(h, asize, Down(h)[m])
      bp   == Down(h)[last]
  IN IF IsAlloc(h, bp) THEN NULL ELSE bp

(* mutant: a block given out whole stays in the free list *)
PlaceKeepsListed(h, bp, asize) ==
  LET size == GetSize(h, HDRP(bp))
      rem  == size - asize
      g    == RemoveBlock(PutTags(h, bp, asize, 1), bp)
      r    == RightBlkp(g, bp)
  IN IF rem >= MIN_BLOCKSIZE
     THEN Coalesce(PutTags(g, r, rem, 0), r)
     ELSE PutTags(h, bp, size, 1)

Place(h, bp, asize) ==
  LET size == GetSize(h, HDRP(bp))
      rem  == size - asize
      g    == RemoveBlock(PutTags(h, bp, asize, 1), bp)
      r    == RightBlkp(g, bp)
  IN IF rem >= MIN_BLOCKSIZE
     THEN Coalesce(PutTags(g, r, rem, 0), r)
     ELSE RemoveBlock(PutTags(h, bp, size, 1), bp)

(* mm_init on a heap whose break is at mem_start_brk *)
MmInit(h) ==
  LET p   == h.brk
      top == Put(Put(Sbrk(h, 2 * MIN_BLOCKSIZE), p, 0),
                 p + WSIZE, MIN_BLOCKSIZE + 1)
      ptr == Put(Put(top, p + DSIZE, 0), p + DSIZE + WSIZE, 0)
      end == Put(Put(ptr, p + MIN_BLOCKSIZE, MIN_BLOCKSIZE + 1),
                 p + WSIZE + MIN_BLOCKSIZE, 1)
  IN ExtendHeap([end EXCEPT !.start = p + DSIZE], InitWords)

MemResetBrk(h) == [h EXCEPT !.brk = MemStart]

(* mutant: the heap grows by what is needed, not by a chunk *)
MallocExact(h, n) ==
  LET asize == BlockSize(n)
      bp    == FindFreeblock(h, asize)
      words == asize \div WSIZE
      g     == ExtendHeap(h, words)
  IN CASE n = 0               -> [heap |-> h, ptr |-> NULL]
       [] n # 0 /\ bp # NULL  -> [heap |-> Place(h, bp, asize), ptr |-> bp]
       [] n # 0 /\ bp = NULL /\ CanExtend(h, words) ->
            [heap |-> Place(g, g.start, asize), ptr |-> g.start]
       [] OTHER               -> [heap |-> h, ptr |-> NULL]

(* mm_malloc: the new heap, and NULL or a payload pointer *)
Malloc(h, n) ==
  LET asize == BlockSize(n)
      bp    == FindFreeblock(h, asize)
      words == (IF asize > CHUNKSIZE THEN asize ELSE CHUNKSIZE) \div WSIZE
      g     == ExtendHeap(h, words)
  IN CASE n = 0               -> [heap |-> h, ptr |-> NULL]
       [] n # 0 /\ bp # NULL  -> [heap |-> Place(h, bp, asize), ptr |-> bp]
       [] n # 0 /\ bp = NULL /\ CanExtend(h, words) ->
            [heap |-> Place(g, g.start, asize), ptr |-> g.start]
       [] OTHER               -> [heap |-> h, ptr |-> NULL]

(* mutant: the footer keeps its allocated bit *)
FreeHeaderOnly(h, bp) ==
  Coalesce(Put(h, HDRP(bp), GetSize(h, HDRP(bp))), bp)

Free(h, bp) ==
  Coalesce(PutTags(h, bp, GetSize(h, HDRP(bp)), 0), bp)
-----------------------------------------------------------------------------
InPayload(a, p, n) == p <= a /\ a < p + n

(* memset(p, id, n): of the payload's words only the first stays in mem *)
ClientFill(h, p, n, id) ==
  [h EXCEPT !.mem =
     Update(Restrict(@, {a \in DOMAIN @ : ~InPayload(a, p, n)}), p, Fill(id))]

BlankHeap == [mem |-> << >>, brk |-> MemStart, start |-> NULL]

Init ==
  /\ heap = MmInit(BlankHeap)
  /\ live = << >>
  /\ status = "running"
  /\ calls = 0

(* what every call of the driver has in common *)
Call ==
  /\ calls < MaxCalls
  /\ calls' = calls + 1

Request == Call /\ status = "running"

MmMalloc(id, n) ==
  LET r == Malloc(heap, n)
  IN /\ Request
     /\ id \notin DOMAIN live
     /\ IF r.ptr = NULL
        THEN /\ status' = "out of memory"
             /\ UNCHANGED live
             /\ heap' = r.heap
        ELSE /\ heap' = ClientFill(r.heap, r.ptr, n, id)
             /\ live' = Update(live, id, [ptr |-> r.ptr, size |-> n])
             /\ UNCHANGED status

MmFree(id) ==
  /\ Request
  /\ id \in DOMAIN live
  /\ heap' = Free(heap, live[id].ptr)
  /\ live' = Restrict(live, DOMAIN live \ {id})
  /\ UNCHANGED status

(***************************************************************************)
(* mm_realloc, by its three ways out.                                      *)
(***************************************************************************)
PtrSize(id) == GetSize(heap, HDRP(live[id].ptr))

ReallocKeep(id, n) ==
  /\ Request
  /\ id \in DOMAIN live
  /\ PtrSize(id) - BlockSize(n) \in 0..MIN_BLOCKSIZE
  /\ IF n = 0
     THEN /\ status' = "aborted"       \* add_range's assert(size > 0)
          /\ UNCHANGED <<heap, live>>
     ELSE /\ heap' = ClientFill(heap, live[id].ptr, n, id)
          /\ live' = [live EXCEPT ![id].size = n]
          /\ UNCHANGED status

(* The remainder is looked up with NEXT_BLKP, that is, in the first word   *)
(* of the payload, which holds the client's fill: the PUT at line 381 hits *)
(* an unmapped page and the process is gone, and its heap with it.  That   *)
(* no fill is an address of the heap is assumed, not shown.                *)
ReallocShrink(id, n) ==
  /\ Request
  /\ id \in DOMAIN live
  /\ PtrSize(id) - BlockSize(n) > MIN_BLOCKSIZE
  /\ HDRP(NextBlkp(heap, live[id].ptr)) \notin MemStart..MaxAddr
  /\ status' = "crashed"
  /\ UNCHANGED <<heap, live>>

(* The new payload is the C library's: add_range of the driver finds it    *)
(* outside the heap (mdriver.c:398) and gives the trace up.  What is       *)
(* copied (line 397) goes out of the heap, too; the C library is taken to  *)
(* have memory left (lines 390-392).                                       *)
ReallocGrow(id, n) ==
  /\ Request
  /\ id \in DOMAIN live
  /\ PtrSize(id) < BlockSize(n)
  /\ heap' = Free(heap, live[id].ptr)
  /\ live' = Restrict(live, DOMAIN live \ {id})
  /\ status' = "outside heap"

(* The next trace, or the next phase of the same one: mem_reset_brk and    *)
(* mm_init on the same memory.                                             *)
NewTrace ==
  /\ Call
  /\ status \notin {"crashed", "aborted"}
  /\ heap' = MmInit(MemResetBrk(heap))
  /\ live' = << >>
  /\ status' = "running"

Next ==
  \/ \E id \in Ids, n \in Requests :
       \/ MmMalloc(id, n)
       \/ ReallocKeep(id, n)
       \/ ReallocShrink(id, n)
       \/ ReallocGrow(id, n)
  \/ \E id \in Ids : MmFree(id)
  \/ NewTrace

Spec == Init /\ [][Next]_vars
-----------------------------------------------------------------------------
(***************************************************************************)
(* Reading the blocks and the free list off the words.                     *)
(***************************************************************************)
FirstBp == MemStart + 2 * MIN_BLOCKSIZE

Prologue == MemStart + DSIZE

(* the block reached from the first one after n times RIGHT_BLKP *)
Across(h) ==
  LET bp[n \in Nat] == IF n = 0 THEN FirstBp ELSE RightBlkp(h, bp[n - 1])
  IN bp

AtEnd(h, bp) == bp >= h.brk \/ GetSize(h, HDRP(bp)) = 0

BlockCount(h) ==
  CHOOSE n \in 0..MaxBlocks :
    /\ AtEnd(h, Across(h)[n])
    /\ \A m \in 0..n - 1 : ~AtEnd(h, Across(h)[m])

Blocks(h) == {Across(h)[n] : n \in 0..BlockCount(h) - 1}

ListLength(h) ==
  CHOOSE n \in 0..MaxBlocks :
    /\ IsAlloc(h, Down(h)[n])
    /\ \A m \in 0..n - 1 : ~IsAlloc(h, Down(h)[m])

FreeList(h) == [i \in 1..ListLength(h) |-> Down(h)[i - 1]]

BlockHeapOf(h) ==
  [size  |-> [b \in Blocks(h) |-> GetSize(h, HDRP(b))],
   alloc |-> {b \in Blocks(h) : GetAlloc(h, HDRP(b)) = 1},
   list  |-> FreeList(h),
   brk   |-> h.brk]

PtrsOf(l) == {l[id].ptr : id \in DOMAIN l}

LiveOf(l) ==
  [p \in PtrsOf(l) |-> l[CHOOSE id \in DOMAIN l : l[id].ptr = p].size]
-----------------------------------------------------------------------------
(***************************************************************************)
(* Properties.                                                             *)
(***************************************************************************)
(* The shape of the variables: word addresses are multiples of WSIZE       *)
(* inside the memory mem_init reserved, and pointers handed to the client  *)
(* are not NULL.                                                           *)
TypeOK ==
  /\ \A a \in DOMAIN heap.mem :
       /\ a \in MemStart..MaxAddr - WSIZE /\ a % WSIZE = 0
       /\ heap.mem[a] \in Nat
  /\ heap.brk \in MemStart..MaxAddr
  /\ heap.start \in MemStart..MaxAddr
  /\ DOMAIN live \subseteq Ids
  /\ \A id \in DOMAIN live : live[id].ptr \in Nat \ {NULL}
                             /\ live[id].size \in Requests
  /\ status \in {"running", "out of memory", "outside heap", "crashed", "aborted"}
  /\ calls \in 0..MaxCalls

(* No operation writes a tag or a link into a payload the client holds,    *)
(* and realloc in place keeps what the client wrote there (the test of     *)
(* mdriver.c:652-661).                                                     *)
PayloadsUntouched ==
  \A id \in DOMAIN live :
    /\ Get(heap, live[id].ptr) = Fill(id)
    /\ \A a \in DOMAIN heap.mem :
         InPayload(a, live[id].ptr, live[id].size) => a = live[id].ptr

(* Header and footer of every block agree (mm_checkBlock,                  *)
(* mm_freeList.c:442-448): one tag written without the other sends the     *)
(* coalescing of a neighbour astray many calls later.                      *)
TagsAgree ==
  /\ \A b \in Blocks(heap) :
       Get(heap, HDRP(b)) = Get(heap, FTRP(heap, b))
  /\ Get(heap, HDRP(heap.brk)) = 1

(* The list can be walked both ways: NEXT undoes PREV from the head, whose *)
(* NEXT is NULL, down to the prologue.  removeBlock (line 338) needs both  *)
(* links of a block found through its boundary tag.                        *)
LinksAgree ==
  LET l == FreeList(heap)
  IN /\ NextBlkp(heap, heap.start) = NULL
     /\ \A i \in DOMAIN l :
          NextBlkp(heap, PrevBlkp(heap, l[i])) = l[i]
     /\ l # << >> => PrevBlkp(heap, Last(l)) = Prologue

(* coalesce takes LEFT_BLKP(bp) = bp to mean "no block on the left"        *)
(* (line 275), which is so only while the word before the first header is  *)
(* zero.  Nothing ever sets it: mm_init does not, nor does a former trace. *)
GapStaysZero == Get(heap, HDRP(FirstBp) - WSIZE) = 0

(* What every operation takes for granted of the words it finds: their     *)
(* shape, tags that agree, and a zero left of the first block.             *)
WordsOK == TypeOK /\ TagsAgree /\ GapStaysZero


(* The words implement the block-level allocator of BlockHeap.             *)
AbstractHeap == INSTANCE BlockHeap
  WITH FirstBp <- FirstBp, HeapMax <- MaxAddr,
       FirstChunk <- InitWords * WSIZE, Chunk <- CHUNKSIZE,
       MinBlock <- MIN_BLOCKSIZE,
       heap <- BlockHeapOf(heap), live <- LiveOf(live)

ImplementsBlockHeap == AbstractHeap!Spec
-----------------------------------------------------------------------------
(***************************************************************************)
(* What comments and names of the code say, and the code does not do.      *)
(***************************************************************************)
(* "Implemented simply in terms of mm_malloc and mm_free" (line 356): a    *)
(* payload that realloc returns lies in the simulated heap.                *)
ReallocStaysInHeap == status # "outside heap"
=============================================================================
