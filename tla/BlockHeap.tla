----------------------------- MODULE BlockHeap -----------------------------
(***************************************************************************)
(* The explicit-free-list allocator of "Efficient Mallocs/mm_freeList.c",  *)
(* one level above its bytes.  The heap from the first block to the        *)
(* epilogue is a sequence of adjacent blocks; a block is named by its      *)
(* payload pointer bp, as everywhere in the code, so that the block right  *)
(* of b starts at b + size[b] and the epilogue's bp is the break itself.   *)
(* Boundary tags are the fields size and alloc, and the doubly linked free *)
(* list is the sequence list, its first element the variable start of the  *)
(* code.  FreeListMalloc.tla has the same operations on the words of the   *)
(* heap and implements this module.                                        *)
(*                                                                         *)
(* Sizes and addresses are integers that do not overflow here; the wrap of *)
(* ALIGN is part of FreeListMalloc.                                        *)
(***************************************************************************)
EXTENDS Integers, Sequences, SequencesExt

CONSTANTS
  FirstBp,     \* payload pointer of the first block (mem_start_brk + 48)
  HeapMax,     \* mem_max_addr
  FirstChunk,  \* bytes mm_init asks extend_heap for
  Chunk,       \* CHUNKSIZE as mm_malloc uses it
  MinBlock,    \* MIN_BLOCKSIZE
  Requests     \* request sizes of the client

DSIZE == 8

ASSUME BlockHeapAssumption ==
  /\ FirstBp \in Nat /\ FirstBp % DSIZE = 0
  /\ HeapMax \in Nat
  /\ MinBlock \in Nat /\ MinBlock > DSIZE /\ MinBlock % DSIZE = 0
  /\ FirstChunk \in Nat /\ FirstChunk % DSIZE = 0 /\ FirstChunk >= MinBlock
  /\ Chunk \in Nat /\ Chunk % DSIZE = 0 /\ Chunk >= MinBlock
  /\ FirstBp + FirstChunk <= HeapMax
  /\ Requests \subseteq Nat

VARIABLES
  heap,   \* [size, alloc, list, brk]
  live    \* payload pointer -> bytes requested, for every block handed out

vars == <<heap, live>>

(***************************************************************************)
(* Reading a heap.                                                         *)
(***************************************************************************)
Heap(size, alloc, list, brk) ==
  [size |-> size, alloc |-> alloc, list |-> list, brk |-> brk]

Blocks(h) == DOMAIN h.size

FreeBlocks(h) == Blocks(h) \ h.alloc

RightOf(h, b) == b + h.size[b]

RightFree(h, b) == RightOf(h, b) \in FreeBlocks(h)

LeftFree(h, b) == \E c \in FreeBlocks(h) : RightOf(h, c) = b

LeftOf(h, b) == CHOOSE c \in FreeBlocks(h) : RightOf(h, c) = b

AlignUp(n) == ((n + (DSIZE - 1)) \div DSIZE) * DSIZE

(* mutant: no room for the tags *)
BlockSizeNoTags(n) ==
  IF AlignUp(n) > MinBlock THEN AlignUp(n) ELSE MinBlock

BlockSize(n) ==
  IF AlignUp(n) + DSIZE > MinBlock THEN AlignUp(n) + DSIZE ELSE MinBlock

(***************************************************************************)
(* The static functions of the package.                                    *)
(***************************************************************************)
(* mutant: the block stays in the list *)
RemoveBlockForgets(h, b) == h

RemoveBlock(h, b) ==
  Heap(h.size, h.alloc,
       RemoveAt(h.list, CHOOSE i \in DOMAIN h.list : h.list[i] = b),
       h.brk)

InsertBlock(h, b) == Heap(h.size, h.alloc, <<b>> \o h.list, h.brk)

(* The boundary tags of b are rewritten to also cover the block c on its   *)
(* right.                                                                  *)
Merge(h, b, c) ==
  Heap([d \in Blocks(h) \ {c} |-> IF d = b THEN h.size[b] + h.size[c]
                                           ELSE h.size[d]],
       h.alloc, h.list, h.brk)

MergeRight(h, b) ==
  IF RightFree(h, b)
  THEN Merge(RemoveBlock(h, RightOf(h, b)), b, RightOf(h, b))
  ELSE h

(* mutant: the block on the left is not looked at *)
CoalesceRightOnly(h, b) == InsertBlock(MergeRight(h, b), b)

Coalesce(h, b) ==
  LET g == MergeRight(h, b)
      l == LeftOf(g, b)
  IN IF LeftFree(g, b)
     THEN InsertBlock(Merge(RemoveBlock(g, l), l, b), l)
     ELSE InsertBlock(g, b)

(* A new free block of n bytes where the epilogue was. *)
ExtendHeap(h, n) ==
  Coalesce(Heap([d \in Blocks(h) \cup {h.brk} |->
                   IF d = h.brk THEN n ELSE h.size[d]],
                h.alloc, h.list, h.brk + n),
           h.brk)

CanExtend(h, n) == h.brk + n <= HeapMax

Split(h, b, asize) ==
  Heap([d \in Blocks(h) \cup {b + asize} |->
          CASE d = b         -> asize
            [] d = b + asize -> h.size[b] - asize
            [] OTHER         -> h.size[d]],
       h.alloc, h.list, h.brk)

Mark(h, b) == Heap(h.size, h.alloc \cup {b}, h.list, h.brk)

Clear(h, b) == Heap(h.size, h.alloc \ {b}, h.list, h.brk)

Place(h, b, asize) ==
  LET g == Mark(RemoveBlock(h, b), b)
  IN IF h.size[b] - asize >= MinBlock
     THEN Coalesce(Split(g, b, asize), b + asize)
     ELSE g

(* mutant: any block of the list will do *)
FitsAny(h, asize, i) == h.size[h.list[i]] > 0

(* find_freeblock stops at the first block of the list that is big enough *)
Fits(h, asize, i) == h.size[h.list[i]] >= asize

FirstFit(h, asize, i) ==
  /\ Fits(h, asize, i)
  /\ \A j \in DOMAIN h.list : j < i => ~Fits(h, asize, j)

NoFit(h, asize) == \A i \in DOMAIN h.list : ~Fits(h, asize, i)

ExtendSize(asize) == IF asize > Chunk THEN asize ELSE Chunk

EmptyHeap == Heap(<< >>, {}, << >>, FirstBp)

FreshHeap == ExtendHeap(EmptyHeap, FirstChunk)
-----------------------------------------------------------------------------
Init ==
  /\ heap = FreshHeap
  /\ live = << >>

Handout(p, n) ==
  live' = [q \in DOMAIN live \cup {p} |-> IF q = p THEN n ELSE live[q]]

(***************************************************************************)
(* mm_malloc, by its three ways out.                                       *)
(***************************************************************************)
MallocFromList(n) ==
  /\ n > 0
  /\ \E i \in DOMAIN heap.list :
        /\ FirstFit(heap, BlockSize(n), i)
        /\ heap' = Place(heap, heap.list[i], BlockSize(n))
        /\ Handout(heap.list[i], n)

(* mutant: the list is not searched first *)
MallocByExtendingAlways(n) ==
  LET asize == BlockSize(n)
      g     == ExtendHeap(heap, ExtendSize(asize))
  IN /\ n > 0
     /\ CanExtend(heap, ExtendSize(asize))
     /\ heap' = Place(g, g.list[1], asize)
     /\ Handout(g.list[1], n)

MallocByExtending(n) ==
  LET asize == BlockSize(n)
      g     == ExtendHeap(heap, ExtendSize(asize))
  IN /\ n > 0
     /\ NoFit(heap, asize)
     /\ CanExtend(heap, ExtendSize(asize))
     /\ heap' = Place(g, g.list[1], asize)
     /\ Handout(g.list[1], n)

MmFree(p) ==
  /\ p \in DOMAIN live
  /\ heap' = Coalesce(Clear(heap, p), p)
  /\ live' = Restrict(live, DOMAIN live \ {p})

(***************************************************************************)
(* mm_realloc when it returns ptr: the block is already of the right size, *)
(* or too small to split.  Growing is, for this heap, mm_free of ptr: the  *)
(* new payload comes from the C library (mm_freeList.c:389).               *)
(***************************************************************************)
ReallocInPlace(p, n) ==
  /\ p \in DOMAIN live
  /\ heap.size[p] - BlockSize(n) \in 0..MinBlock
  /\ live' = [live EXCEPT ![p] = n]
  /\ UNCHANGED heap

(* mem_reset_brk and mm_init, at the start of every trace *)
NewTrace ==
  /\ heap' = FreshHeap
  /\ live' = << >>

Next ==
  \/ \E n \in Requests : MallocFromList(n) \/ MallocByExtending(n)
  \/ \E p \in DOMAIN live : MmFree(p)
  \/ \E p \in DOMAIN live, n \in Requests : ReallocInPlace(p, n)
  \/ NewTrace

Spec == Init /\ [][Next]_vars
-----------------------------------------------------------------------------
(***************************************************************************)
(* Properties.                                                             *)
(***************************************************************************)
HeapType(h) ==
  /\ Blocks(h) \subseteq Nat
  /\ h.size \in [Blocks(h) -> Nat]
  /\ h.alloc \subseteq Blocks(h)
  /\ h.list \in Seq(Blocks(h))
  /\ h.brk \in Nat

(* The shape of the two variables: heap is a record whose size is a map    *)
(* from block addresses to sizes, whose alloc and list name blocks only,   *)
(* and the client's table names addresses.                                 *)
TypeOK ==
  /\ HeapType(heap)
  /\ live \in [DOMAIN live -> Requests]

(* Every block is aligned and big enough for its tags and list pointers,   *)
(* and the block after it starts exactly where it ends, up to the          *)
(* epilogue: RIGHT_BLKP and LEFT_BLKP (mm_freeList.c:58-59) never land     *)
(* inside a block.                                                         *)
Tiled(h) ==
  /\ FirstBp \in Blocks(h)
  /\ h.brk <= HeapMax /\ h.brk % DSIZE = 0
  /\ \A b \in Blocks(h) :
       /\ FirstBp <= b /\ b % DSIZE = 0
       /\ h.size[b] >= MinBlock /\ h.size[b] % DSIZE = 0
       /\ RightOf(h, b) \in Blocks(h) \cup {h.brk}
       /\ RightOf(h, b) <= h.brk
  /\ \A b, c \in Blocks(h) : b < c => RightOf(h, b) <= c

(* No two free blocks are neighbours: coalesce (mm_freeList.c:272) leaves  *)
(* no pair behind, in whatever order blocks are freed and split.           *)
NoFreeNeighbours(h) == \A b \in FreeBlocks(h) : ~RightFree(h, b)

(* The free list holds each free block once and nothing else: a block the  *)
(* list misses is lost for good, one it holds twice is handed out twice.   *)
ListExact(h) ==
  /\ \A b \in FreeBlocks(h) : \E i \in DOMAIN h.list : h.list[i] = b
  /\ \A i \in DOMAIN h.list : h.list[i] \notin h.alloc
  /\ \A i, j \in DOMAIN h.list : h.list[i] = h.list[j] => i = j

(* The blocks marked allocated are those the client holds, and each leaves *)
(* the client its bytes between header and footer.                         *)
LiveMatches ==
  /\ DOMAIN live = heap.alloc
  /\ \A p \in DOMAIN live : live[p] + DSIZE <= heap.size[p]

HeapOK == Tiled(heap) /\ NoFreeNeighbours(heap) /\ ListExact(heap)

(* What the allocator's client sees of it is the behaviour Allocator       *)
(* promises.                                                               *)
Promise == INSTANCE Allocator
  WITH Addr <- {a \in 0..HeapMax : a % DSIZE = 0}, HeapStart <- FirstBp, Alignment <- DSIZE,
       live <- live, brk <- heap.brk
PromiseSpec == Promise!Spec

(* mm_malloc asks for more heap only when no free block is big enough, and *)
(* the heap grows by at least one chunk when it does.                      *)
GrowsOnlyWhenFull ==
  [][heap'.brk > heap.brk =>
       /\ \A b \in FreeBlocks(heap) :
            \A p \in DOMAIN live' \ DOMAIN live :
              heap.size[b] < BlockSize(live'[p])
       /\ heap'.brk - heap.brk >= Chunk]_vars
=============================================================================
