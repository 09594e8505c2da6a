-------------------------- MODULE BlockHeapProofs --------------------------
(***************************************************************************)
(* Proofs about BlockHeap, for every heap, chunk and request size that     *)
(* BlockHeapAssumption allows.                                             *)
(*                                                                         *)
(* Between two calls of the package the heap is Good.  Inside a call it is *)
(* not: freeing a block, splitting one or extending the heap leaves one    *)
(* block b free that is in no list and may have a free neighbour on either *)
(* side.  Loose(h, b) says just that, and the argument is that Clear,      *)
(* Split and a grown heap are Loose (ClearFacts, SplitFacts, ExtendFacts)  *)
(* and that coalesce takes a Loose heap to a Good one (CoalesceFacts).     *)
(* With the client's table added this gives the inductive invariant IInv,  *)
(* from which the safety properties, the refinement of Allocator and the   *)
(* action property GrowsOnlyWhenFull follow.                               *)
(***************************************************************************)
EXTENDS BlockHeap, ListLemmas

(* ALIGN (mm_freeList.c:38) rounds up to a multiple of DSIZE.              *)
LEMMA AlignUpFacts ==
  ASSUME NEW n \in Nat
  PROVE  /\ AlignUp(n) \in Nat
         /\ AlignUp(n) >= n
         /\ AlignUp(n) % DSIZE = 0
  BY DEF AlignUp, DSIZE

(* The block size mm_malloc computes (mm_freeList.c:166) is aligned, at    *)
(* least MIN_BLOCKSIZE, and leaves room for header and footer.             *)
LEMMA BlockSizeFacts ==
  ASSUME NEW n \in Nat
  PROVE  /\ BlockSize(n) \in Nat
         /\ BlockSize(n) >= n + DSIZE
         /\ BlockSize(n) >= MinBlock
         /\ BlockSize(n) % DSIZE = 0
  BY AlignUpFacts, BlockHeapAssumption DEF BlockSize, DSIZE

(* The heap between two calls: what HeapOK says, with its shape.           *)
Good(h) == HeapType(h) /\ Tiled(h) /\ NoFreeNeighbours(h) /\ ListExact(h)

(* The heap as coalesce (mm_freeList.c:272) finds it: b is free but in no  *)
(* list, and only pairs of free neighbours that b belongs to exist.        *)
Loose(h, b) ==
  /\ HeapType(h) /\ Tiled(h)
  /\ b \in FreeBlocks(h)
  /\ Lists(h.list, FreeBlocks(h) \ {b})
  /\ \A c \in FreeBlocks(h) : RightFree(h, c) => c = b \/ RightOf(h, c) = b

(* ListExact is the statement of ListLemmas about the free blocks.         *)
LEMMA GoodLists ==
  ASSUME NEW h, HeapType(h)
  PROVE  ListExact(h) <=> Lists(h.list, FreeBlocks(h))
  BY DEF HeapType, ListExact, Lists, FreeBlocks

(* Sums and differences of aligned numbers are aligned.                    *)
LEMMA ModFacts ==
  ASSUME NEW x \in Int, NEW y \in Int, x % DSIZE = 0, y % DSIZE = 0
  PROVE  (x + y) % DSIZE = 0 /\ (x - y) % DSIZE = 0
  BY DEF DSIZE

(* What Tiled says about one block, with its numbers typed: the block ends *)
(* behind its start, at another block or at the break (the bp of the       *)
(* epilogue).                                                              *)
LEMMA BlockFacts ==
  ASSUME NEW h, HeapType(h), Tiled(h), NEW b \in Blocks(h)
  PROVE  /\ b \in Nat /\ FirstBp <= b /\ b % DSIZE = 0
         /\ h.size[b] \in Nat /\ h.size[b] >= MinBlock /\ h.size[b] > DSIZE
         /\ h.size[b] % DSIZE = 0
         /\ RightOf(h, b) = b + h.size[b]
         /\ RightOf(h, b) \in Nat /\ b < RightOf(h, b)
         /\ RightOf(h, b) \in Blocks(h) \cup {h.brk}
         /\ RightOf(h, b) <= h.brk /\ b < h.brk
<1>1. b \in Nat /\ h.size[b] \in Nat /\ h.brk \in Nat
  BY DEF HeapType
<1>2. h.size[b] >= MinBlock /\ h.size[b] % DSIZE = 0 /\ b % DSIZE = 0 /\ FirstBp <= b
  BY DEF Tiled
<1>3. h.size[b] > DSIZE
  BY <1>1, <1>2, BlockHeapAssumption DEF DSIZE
<1>4. RightOf(h, b) \in Blocks(h) \cup {h.brk} /\ RightOf(h, b) <= h.brk
  BY DEF Tiled
<1>5. RightOf(h, b) = b + h.size[b]
  BY DEF RightOf
<1>6. QED
  BY <1>1, <1>2, <1>3, <1>4, <1>5 DEF DSIZE

(* LEFT_BLKP (mm_freeList.c:59) is well defined: only one block ends where *)
(* another begins.                                                         *)
LEMMA OneLeftNeighbour ==
  ASSUME NEW h, HeapType(h), Tiled(h), NEW b \in Blocks(h), NEW c \in Blocks(h),
         RightOf(h, b) = RightOf(h, c)
  PROVE  b = c
<1>1. b \in Nat /\ c \in Nat /\ b < RightOf(h, b) /\ c < RightOf(h, c)
      /\ RightOf(h, b) \in Nat
  BY BlockFacts
<1>2. b < c => RightOf(h, b) <= c
  BY DEF Tiled
<1>3. c < b => RightOf(h, c) <= b
  BY DEF Tiled
<1>4. QED
  BY <1>1, <1>2, <1>3

(* removeBlock (mm_freeList.c:338) takes one block out of the list and     *)
(* leaves the tags alone.                                                  *)
LEMMA RemoveFacts ==
  ASSUME NEW h, HeapType(h), NEW F, Lists(h.list, F), NEW b \in F
  PROVE  LET g == RemoveBlock(h, b)
         IN /\ HeapType(g)
            /\ g.size = h.size /\ g.alloc = h.alloc /\ g.brk = h.brk
            /\ Lists(g.list, F \ {b})
<1> DEFINE g == RemoveBlock(h, b)
<1>1. /\ g.size = h.size /\ g.alloc = h.alloc /\ g.brk = h.brk
      /\ g.list = Without(h.list, b)
  BY DEF RemoveBlock, Without, Heap
<1>2. g.list \in Seq(Blocks(h)) /\ Lists(g.list, F \ {b})
  BY <1>1, WithoutFacts DEF HeapType
<1> HIDE DEF g
<1>3. HeapType(g)
  BY <1>1, <1>2 DEF HeapType, Blocks
<1>4. QED
  BY <1>1, <1>2, <1>3 DEF g

(* insertBlock (mm_freeList.c:322) makes a block the head of the list and  *)
(* leaves the tags alone.                                                  *)
LEMMA InsertFacts ==
  ASSUME NEW h, HeapType(h), NEW F, Lists(h.list, F),
         NEW b \in Blocks(h), b \notin F
  PROVE  LET g == InsertBlock(h, b)
         IN /\ HeapType(g)
            /\ g.size = h.size /\ g.alloc = h.alloc /\ g.brk = h.brk
            /\ Lists(g.list, F \cup {b})
            /\ g.list[1] = b
<1> DEFINE g == InsertBlock(h, b)
<1>1. /\ g.size = h.size /\ g.alloc = h.alloc /\ g.brk = h.brk
      /\ g.list = <<b>> \o h.list
  BY DEF InsertBlock, Heap
<1>2. /\ g.list \in Seq(Blocks(h)) /\ Lists(g.list, F \cup {b})
      /\ g.list[1] = b
  BY <1>1, ConsFacts DEF HeapType
<1> HIDE DEF g
<1>3. HeapType(g)
  BY <1>1, <1>2 DEF HeapType, Blocks
<1>4. QED
  BY <1>1, <1>2, <1>3 DEF g

(* Rewriting the boundary tags of b to cover its free right neighbour c    *)
(* (mm_freeList.c:293-308) leaves the heap tiled, without the block c.     *)
LEMMA MergeFacts ==
  ASSUME NEW h, HeapType(h), Tiled(h), NEW F, Lists(h.list, F),
         NEW b \in FreeBlocks(h), NEW c \in FreeBlocks(h),
         RightOf(h, b) = c, c \notin F, F \subseteq FreeBlocks(h)
  PROVE  LET g == Merge(h, b, c)
         IN /\ HeapType(g) /\ Tiled(g)
            /\ Blocks(g) = Blocks(h) \ {c}
            /\ g.alloc = h.alloc /\ g.list = h.list /\ g.brk = h.brk
            /\ \A d \in Blocks(g) : d # b => g.size[d] = h.size[d]
            /\ g.size[b] = h.size[b] + h.size[c]
<1> DEFINE g == Merge(h, b, c)
           sz == [d \in Blocks(h) \ {c} |-> IF d = b THEN h.size[b] + h.size[c]
                                                     ELSE h.size[d]]
<1>2. /\ g.size = sz /\ g.alloc = h.alloc /\ g.brk = h.brk
      /\ g.list = h.list /\ Blocks(g) = Blocks(h) \ {c}
  BY DEF Merge, Heap, Blocks
<1> HIDE DEF g
<1>3. b # c /\ b \in Blocks(g) /\ b \in Blocks(h) /\ c \in Blocks(h)
  <2>1. b \in Blocks(h) /\ c \in Blocks(h)
    BY DEF FreeBlocks
  <2>2. b < c /\ b \in Nat /\ c \in Nat
    BY <2>1, BlockFacts
  <2>3. QED
    BY <1>2, <2>1, <2>2
<1>4. /\ \A d \in Blocks(g) : d # b => g.size[d] = h.size[d]
      /\ g.size[b] = h.size[b] + h.size[c]
  BY <1>2, <1>3
<1>5. HeapType(g)
  <2>1. g.list \in Seq(Blocks(g))
    BY <1>2, SeqRetype DEF Lists, HeapType, FreeBlocks
  <2>2. g.size \in [Blocks(g) -> Nat]
    BY <1>2, <1>3 DEF HeapType
  <2>3. g.alloc \subseteq Blocks(g)
    BY <1>2 DEF FreeBlocks, HeapType
  <2>4. QED
    BY <1>2, <2>1, <2>2, <2>3 DEF HeapType
<1>6. /\ RightOf(g, b) = RightOf(h, c)
      /\ \A d \in Blocks(g) : d # b => RightOf(g, d) = RightOf(h, d)
  BY <1>2, <1>3, <1>4 DEF RightOf, HeapType
<1>7. \A d \in Blocks(h) : d # b => RightOf(h, d) # c
  BY <1>3, OneLeftNeighbour
<1>8. Tiled(g)
  <2>1. FirstBp \in Blocks(g) /\ g.brk <= HeapMax /\ g.brk % DSIZE = 0
    <3>1. c # FirstBp
      <4>1. FirstBp <= b /\ b < c /\ b \in Nat /\ c \in Nat
        BY <1>3, BlockFacts
      <4>2. QED
        BY <4>1, BlockHeapAssumption
    <3>2. QED
      BY <3>1, <1>2 DEF Tiled
  <2>2. ASSUME NEW d \in Blocks(g)
        PROVE  /\ FirstBp <= d /\ d % DSIZE = 0
               /\ g.size[d] >= MinBlock /\ g.size[d] % DSIZE = 0
               /\ RightOf(g, d) \in Blocks(g) \cup {g.brk}
               /\ RightOf(g, d) <= g.brk
    <3>1. CASE d = b
      <4>1. (h.size[b] + h.size[c]) % DSIZE = 0
        <5>1. /\ h.size[b] \in Int /\ h.size[b] % DSIZE = 0
              /\ h.size[c] \in Int /\ h.size[c] % DSIZE = 0
          BY <1>3, BlockFacts
        <5>2. QED
          BY <5>1, ModFacts
      <4>2. h.size[b] + h.size[c] >= MinBlock
        BY <1>3, BlockFacts, BlockHeapAssumption
      <4>3. RightOf(h, c) \in Blocks(g) \cup {g.brk} /\ RightOf(h, c) <= g.brk
        BY <1>2, <1>3, BlockFacts
      <4>4. FirstBp <= b /\ b % DSIZE = 0
        BY <1>3, BlockFacts
      <4>5. QED
        BY <3>1, <4>1, <4>2, <4>3, <4>4, <1>4, <1>6
    <3>2. CASE d # b
      <4>1. d \in Blocks(h) /\ g.size[d] = h.size[d] /\ RightOf(g, d) = RightOf(h, d)
        BY <3>2, <1>2, <1>4, <1>6
      <4>2. RightOf(h, d) # c
        BY <3>2, <4>1, <1>7
      <4>3. RightOf(h, d) \in Blocks(h) \cup {h.brk}
        BY <4>1, BlockFacts
      <4>4. QED
        BY <4>1, <4>2, <4>3, <1>2, BlockFacts
    <3>3. QED
      BY <3>1, <3>2
  <2>3. ASSUME NEW d \in Blocks(g), NEW e \in Blocks(g), d < e
        PROVE  RightOf(g, d) <= e
    <3>1. CASE d = b
      BY <3>1, <2>3, <1>2, <1>3, <1>6 DEF Tiled, HeapType, RightOf
    <3>2. CASE d # b
      BY <3>2, <2>3, <1>2, <1>6 DEF Tiled
    <3>3. QED
      BY <3>1, <3>2
  <2>4. QED
    BY <2>1, <2>2, <2>3 DEF Tiled
<1>9. QED
  BY <1>2, <1>4, <1>5, <1>8 DEF g

(* The first half of coalesce (mm_freeList.c:279-286): afterwards only the *)
(* left neighbour of b can still be free.                                  *)
LEMMA MergeRightFacts ==
  ASSUME NEW h, NEW b, Loose(h, b)
  PROVE  LET g == MergeRight(h, b)
         IN /\ Loose(g, b) /\ ~RightFree(g, b)
            /\ g.alloc = h.alloc /\ g.brk = h.brk
            /\ \A p \in h.alloc : g.size[p] = h.size[p]
            /\ g.size[b] >= h.size[b]
<1> DEFINE c == RightOf(h, b)
           r == RemoveBlock(h, c)
           m == Merge(r, b, c)
<1>0. /\ HeapType(h) /\ Tiled(h) /\ b \in Blocks(h) /\ b \in FreeBlocks(h)
      /\ Lists(h.list, FreeBlocks(h) \ {b})
  BY DEF Loose, FreeBlocks
<1>1. CASE ~RightFree(h, b)
  <2>1. h.size[b] \in Nat
    BY <1>0, BlockFacts
  <2>2. QED
    BY <1>1, <2>1 DEF MergeRight
<1>2. CASE RightFree(h, b)
  <2>1. c \in FreeBlocks(h) /\ c # b /\ c \in Blocks(h)
    BY <1>0, <1>2, BlockFacts DEF RightFree, FreeBlocks
  <2>2. /\ HeapType(r) /\ r.size = h.size /\ r.alloc = h.alloc /\ r.brk = h.brk
        /\ Lists(r.list, (FreeBlocks(h) \ {b}) \ {c})
    BY <1>0, <2>1, RemoveFacts
  <2> HIDE DEF r
  <2>3. /\ Blocks(r) = Blocks(h) /\ FreeBlocks(r) = FreeBlocks(h)
        /\ \A d : RightOf(r, d) = RightOf(h, d)
    BY <2>2 DEF Blocks, FreeBlocks, RightOf
  <2>4. Tiled(r)
    BY <1>0, <2>2, <2>3 DEF Tiled
  <2>5. /\ HeapType(m) /\ Tiled(m) /\ Blocks(m) = Blocks(r) \ {c}
        /\ m.alloc = r.alloc /\ m.list = r.list /\ m.brk = r.brk
        /\ \A d \in Blocks(m) : d # b => m.size[d] = r.size[d]
        /\ m.size[b] = r.size[b] + r.size[c]
    BY <1>0, <2>1, <2>2, <2>3, <2>4, MergeFacts
  <2> HIDE DEF m
  <2>6. FreeBlocks(m) = FreeBlocks(h) \ {c} /\ b \in FreeBlocks(m)
    BY <1>0, <2>1, <2>2, <2>3, <2>5 DEF FreeBlocks
  <2>7. Lists(m.list, FreeBlocks(m) \ {b})
    <3>1. FreeBlocks(m) \ {b} = (FreeBlocks(h) \ {b}) \ {c}
      BY <2>6
    <3>2. QED
      BY <3>1, <2>2, <2>5
  <2>8. RightOf(m, b) = RightOf(h, c)
    BY <1>0, <2>1, <2>2, <2>5, BlockFacts DEF RightOf
  <2>9. ~RightFree(m, b)
    <3>1. RightOf(h, c) # b /\ RightOf(h, c) # c
      BY <1>0, <2>1, BlockFacts
    <3>2. ~RightFree(h, c)
      BY <2>1, <3>1 DEF Loose
    <3>3. QED
      BY <3>2, <2>6, <2>8 DEF RightFree
  <2>10. ASSUME NEW d \in FreeBlocks(m), RightFree(m, d)
         PROVE  d = b \/ RightOf(m, d) = b
    <3>1. CASE d = b
      BY <3>1
    <3>2. CASE d # b
      <4>1. RightOf(m, d) = RightOf(h, d) /\ d \in FreeBlocks(h)
        BY <3>2, <2>2, <2>5, <2>6 DEF RightOf, FreeBlocks
      <4>2. RightFree(h, d)
        BY <4>1, <2>10, <2>6 DEF RightFree
      <4>3. QED
        BY <4>1, <4>2, <3>2 DEF Loose
    <3>3. QED
      BY <3>1, <3>2
  <2>11. \A p \in h.alloc : m.size[p] = h.size[p]
    BY <1>0, <2>1, <2>2, <2>3, <2>5 DEF HeapType, FreeBlocks
  <2>12. m.size[b] >= h.size[b]
    BY <1>0, <2>1, <2>2, <2>5, BlockFacts
  <2>13. MergeRight(h, b) = m
    BY <1>2 DEF MergeRight, m, r
  <2>14. Loose(m, b)
    BY <2>5, <2>6, <2>7, <2>10 DEF Loose
  <2>15. QED
    BY <2>2, <2>5, <2>9, <2>11, <2>12, <2>13, <2>14
<1>3. QED
  BY <1>1, <1>2

(* Inserting a block none of whose neighbours is free. *)
LEMMA SettleFacts ==
  ASSUME NEW h, NEW b, Loose(h, b), ~RightFree(h, b), ~LeftFree(h, b)
  PROVE  LET g == InsertBlock(h, b)
         IN /\ Good(g)
            /\ g.size = h.size /\ g.alloc = h.alloc /\ g.brk = h.brk
            /\ 1 \in DOMAIN g.list /\ g.list[1] = b
<1> DEFINE g == InsertBlock(h, b)
<1>1. /\ HeapType(h) /\ Tiled(h) /\ b \in Blocks(h) /\ b \in FreeBlocks(h)
      /\ Lists(h.list, FreeBlocks(h) \ {b})
  BY DEF Loose, FreeBlocks
<1>2. /\ HeapType(g) /\ g.size = h.size /\ g.alloc = h.alloc /\ g.brk = h.brk
      /\ Lists(g.list, (FreeBlocks(h) \ {b}) \cup {b}) /\ g.list[1] = b
  BY <1>1, InsertFacts
<1> HIDE DEF g
<1>3. /\ Blocks(g) = Blocks(h) /\ FreeBlocks(g) = FreeBlocks(h)
      /\ \A d : RightOf(g, d) = RightOf(h, d)
  BY <1>2 DEF Blocks, FreeBlocks, RightOf
<1>4. Tiled(g)
  BY <1>1, <1>2, <1>3 DEF Tiled
<1>5. ListExact(g)
  <2>1. (FreeBlocks(h) \ {b}) \cup {b} = FreeBlocks(g)
    BY <1>1, <1>3
  <2>2. QED
    BY <2>1, <1>2, GoodLists
<1>6. NoFreeNeighbours(g)
  BY <1>3 DEF NoFreeNeighbours, RightFree, LeftFree, Loose
<1>7. 1 \in DOMAIN g.list
  <2>1. PICK i \in DOMAIN g.list : g.list[i] = b
    BY <1>2 DEF Lists
  <2>2. QED
    BY <2>1, <1>2 DEF HeapType
<1>8. QED
  BY <1>2, <1>4, <1>5, <1>6, <1>7 DEF Good, g

(* coalesce (mm_freeList.c:272-313) turns a Loose heap into a Good one,    *)
(* whose list begins with a block at least as big as b. Allocated blocks   *)
(* keep their sizes.                                                       *)
LEMMA CoalesceFacts ==
  ASSUME NEW h, NEW b, Loose(h, b)
  PROVE  LET g == Coalesce(h, b)
         IN /\ Good(g)
            /\ g.alloc = h.alloc /\ g.brk = h.brk
            /\ \A p \in h.alloc : g.size[p] = h.size[p]
            /\ 1 \in DOMAIN g.list /\ g.size[g.list[1]] >= h.size[b]
<1> DEFINE q == MergeRight(h, b)
           l == LeftOf(q, b)
           r == RemoveBlock(q, l)
           m == Merge(r, l, b)
<1>1. /\ Loose(q, b) /\ ~RightFree(q, b)
      /\ q.alloc = h.alloc /\ q.brk = h.brk
      /\ \A p \in h.alloc : q.size[p] = h.size[p]
      /\ q.size[b] >= h.size[b]
  BY MergeRightFacts
<1>2. Coalesce(h, b) = IF LeftFree(q, b) THEN InsertBlock(m, l)
                                         ELSE InsertBlock(q, b)
  BY DEF Coalesce
<1> HIDE DEF q
<1>3. CASE ~LeftFree(q, b)
  <2>1. Coalesce(h, b) = InsertBlock(q, b)
    BY <1>2, <1>3
  <2>2. QED
    BY <2>1, <1>1, <1>3, SettleFacts
<1>4. CASE LeftFree(q, b)
  <2>0. /\ HeapType(q) /\ Tiled(q) /\ b \in Blocks(q) /\ b \in FreeBlocks(q)
        /\ Lists(q.list, FreeBlocks(q) \ {b})
    BY <1>1 DEF Loose, FreeBlocks
  <2>1. l \in FreeBlocks(q) /\ RightOf(q, l) = b
    BY <1>4 DEF LeftFree, LeftOf
  <2> HIDE DEF l
  <2>2. l \in Blocks(q) /\ l # b /\ l \in FreeBlocks(q) \ {b}
    BY <2>0, <2>1, BlockFacts DEF FreeBlocks
  <2>3. /\ HeapType(r) /\ r.size = q.size /\ r.alloc = q.alloc /\ r.brk = q.brk
        /\ Lists(r.list, (FreeBlocks(q) \ {b}) \ {l})
    BY <2>0, <2>2, RemoveFacts DEF r
  <2> HIDE DEF r
  <2>4. /\ Blocks(r) = Blocks(q) /\ FreeBlocks(r) = FreeBlocks(q)
        /\ \A d : RightOf(r, d) = RightOf(q, d)
    BY <2>3 DEF Blocks, FreeBlocks, RightOf
  <2>5. Tiled(r)
    BY <2>0, <2>3, <2>4 DEF Tiled
  <2>6. /\ HeapType(m) /\ Tiled(m) /\ Blocks(m) = Blocks(r) \ {b}
        /\ m.alloc = r.alloc /\ m.list = r.list /\ m.brk = r.brk
        /\ \A d \in Blocks(m) : d # l => m.size[d] = r.size[d]
        /\ m.size[l] = r.size[l] + r.size[b]
    <3> DEFINE F == (FreeBlocks(q) \ {b}) \ {l}
    <3>1. HeapType(r) /\ Tiled(r) /\ Lists(r.list, F)
      BY <2>3, <2>5
    <3>2. /\ l \in FreeBlocks(r) /\ b \in FreeBlocks(r)
          /\ b \notin F /\ F \subseteq FreeBlocks(r)
      BY <2>0, <2>1, <2>4
    <3>3. RightOf(r, l) = b
      BY <2>1, <2>4
    <3> HIDE DEF F
    <3>4. QED
      BY <3>1, <3>2, <3>3, MergeFacts
  <2> HIDE DEF m
  <2>7. FreeBlocks(m) = FreeBlocks(q) \ {b} /\ l \in FreeBlocks(m)
    BY <2>0, <2>1, <2>2, <2>3, <2>4, <2>6 DEF FreeBlocks
  <2>8. Lists(m.list, FreeBlocks(m) \ {l})
    <3>1. FreeBlocks(m) \ {l} = (FreeBlocks(q) \ {b}) \ {l}
      BY <2>7
    <3>2. QED
      BY <3>1, <2>3, <2>6
  <2>9. RightOf(m, l) = RightOf(q, b)
    BY <2>0, <2>1, <2>2, <2>3, <2>6, BlockFacts DEF RightOf
  <2>10. ~RightFree(m, l)
    BY <1>1, <2>7, <2>9 DEF RightFree
  <2>11. \A d \in FreeBlocks(m) :
           d # l => d \in FreeBlocks(q) /\ RightOf(m, d) = RightOf(q, d)
    BY <2>3, <2>6, <2>7 DEF RightOf, FreeBlocks
  <2>12. ASSUME NEW d \in FreeBlocks(m), RightFree(m, d)
         PROVE  FALSE
    <3>1. d # l
      BY <2>10, <2>12
    <3>2. d \in FreeBlocks(q) /\ RightOf(m, d) = RightOf(q, d) /\ RightFree(q, d)
      BY <3>1, <2>11, <2>12, <2>7 DEF RightFree
    <3>3. d # b
      BY <2>7
    <3>4. RightOf(q, d) = b
      BY <3>2, <3>3, <1>1 DEF Loose
    <3>5. d = l
      BY <3>4, <2>0, <2>1, <2>2, <3>2, OneLeftNeighbour DEF FreeBlocks
    <3>6. QED
      BY <3>1, <3>5
  <2>13. Loose(m, l) /\ ~LeftFree(m, l)
    BY <2>6, <2>7, <2>8, <2>12 DEF Loose, LeftFree, RightFree
  <2>14. Coalesce(h, b) = InsertBlock(m, l)
    BY <1>2, <1>4
  <2>15. /\ Good(Coalesce(h, b))
         /\ Coalesce(h, b).size = m.size /\ Coalesce(h, b).alloc = m.alloc
         /\ Coalesce(h, b).brk = m.brk
         /\ 1 \in DOMAIN Coalesce(h, b).list /\ Coalesce(h, b).list[1] = l
    BY <2>10, <2>13, <2>14, SettleFacts
  <2>16. \A p \in h.alloc : m.size[p] = h.size[p]
    BY <1>1, <2>0, <2>1, <2>3, <2>4, <2>6 DEF HeapType, FreeBlocks
  <2>17. m.size[l] >= h.size[b]
    <3>1. q.size[l] \in Nat /\ q.size[b] \in Nat /\ h.size[b] \in Nat
      BY <2>0, <2>2, BlockFacts DEF Loose, FreeBlocks
    <3>2. m.size[l] = q.size[l] + q.size[b]
      BY <2>3, <2>6
    <3>3. QED
      BY <3>1, <3>2, <1>1
  <2>18. QED
    BY <1>1, <2>3, <2>6, <2>15, <2>16, <2>17
<1>5. QED
  BY <1>3, <1>4

(* Clearing the allocated bits of a block, as mm_free does                 *)
(* (mm_freeList.c:258-259), leaves the heap Loose at that block.           *)
LEMMA ClearFacts ==
  ASSUME NEW h, Good(h), NEW p \in h.alloc
  PROVE  LET g == Clear(h, p)
         IN Loose(g, p) /\ g.size = h.size /\ g.alloc = h.alloc \ {p}
            /\ g.brk = h.brk
<1> DEFINE g == Clear(h, p)
<1>1. /\ g.size = h.size /\ g.alloc = h.alloc \ {p} /\ g.list = h.list
      /\ g.brk = h.brk
  BY DEF Clear, Heap
<1> HIDE DEF g
<1>2. /\ Blocks(g) = Blocks(h) /\ \A d : RightOf(g, d) = RightOf(h, d)
      /\ p \in Blocks(h)
  BY <1>1 DEF Blocks, RightOf, Good, HeapType
<1>3. FreeBlocks(g) = FreeBlocks(h) \cup {p} /\ p \notin FreeBlocks(h)
  BY <1>1, <1>2 DEF FreeBlocks
<1>4. HeapType(g) /\ Tiled(g)
  BY <1>1, <1>2 DEF Good, HeapType, Tiled
<1>5. Lists(g.list, FreeBlocks(g) \ {p})
  <2>1. FreeBlocks(g) \ {p} = FreeBlocks(h)
    BY <1>3
  <2>2. QED
    BY <2>1, <1>1, GoodLists DEF Good
<1>6. \A c \in FreeBlocks(g) : RightFree(g, c) => c = p \/ RightOf(g, c) = p
  BY <1>2, <1>3 DEF RightFree, Good, NoFreeNeighbours
<1>7. QED
  BY <1>1, <1>3, <1>4, <1>5, <1>6 DEF Loose, g

(* The split in place (mm_freeList.c:232-242) leaves the heap Loose at the *)
(* remainder.                                                              *)
LEMMA SplitFacts ==
  ASSUME NEW h, Good(h), NEW b \in FreeBlocks(h), NEW asize \in Nat,
         asize % DSIZE = 0, asize >= MinBlock, h.size[b] - asize >= MinBlock
  PROVE  LET g == Split(Mark(RemoveBlock(h, b), b), b, asize)
         IN /\ Loose(g, b + asize)
            /\ g.alloc = h.alloc \cup {b} /\ g.brk = h.brk
            /\ \A p \in h.alloc : g.size[p] = h.size[p]
            /\ g.size[b] = asize
<1> DEFINE r == RemoveBlock(h, b)
           g == Split(Mark(r, b), b, asize)
           e == b + asize
<1>0. /\ HeapType(h) /\ Tiled(h) /\ b \in Blocks(h) /\ b \notin h.alloc
      /\ Lists(h.list, FreeBlocks(h))
  BY GoodLists DEF Good, FreeBlocks
<1>1. /\ HeapType(r) /\ r.size = h.size /\ r.alloc = h.alloc /\ r.brk = h.brk
      /\ Lists(r.list, FreeBlocks(h) \ {b})
  BY <1>0, RemoveFacts
<1> HIDE DEF r
<1>2. /\ b \in Nat /\ b % DSIZE = 0 /\ h.size[b] \in Nat /\ h.size[b] % DSIZE = 0
      /\ FirstBp <= b /\ RightOf(h, b) = b + h.size[b]
      /\ RightOf(h, b) \in Blocks(h) \cup {h.brk} /\ RightOf(h, b) <= h.brk
      /\ FirstBp \in Nat /\ MinBlock \in Nat /\ MinBlock > 0 /\ h.brk \in Nat
  <2>1. FirstBp \in Nat /\ MinBlock \in Nat /\ MinBlock > 0
    BY BlockHeapAssumption DEF DSIZE
  <2>2. h.brk \in Nat
    BY <1>0 DEF HeapType
  <2>3. QED
    BY <1>0, <2>1, <2>2, BlockFacts
<1>3. e \in Nat /\ b < e /\ e < RightOf(h, b)
  BY <1>2
<1>4. e \notin Blocks(h)
  <2>1. SUFFICES ASSUME e \in Blocks(h) PROVE FALSE
    OBVIOUS
  <2>2. RightOf(h, b) <= e
    BY <2>1, <1>0, <1>3 DEF Tiled
  <2>3. QED
    BY <2>2, <1>2, <1>3
<1>5. /\ g.size = [d \in Blocks(h) \cup {e} |->
                     CASE d = b -> asize
                       [] d = e -> h.size[b] - asize
                       [] OTHER -> h.size[d]]
      /\ g.alloc = h.alloc \cup {b} /\ g.list = r.list /\ g.brk = h.brk
  BY <1>1 DEF Split, Mark, Heap, Blocks
<1> HIDE DEF g, e
<1>6. /\ Blocks(g) = Blocks(h) \cup {e}
      /\ g.size[b] = asize /\ g.size[e] = h.size[b] - asize
      /\ \A d \in Blocks(h) : d # b => g.size[d] = h.size[d]
  <2>1. b # e
    BY <1>2, <1>3
  <2>2. Blocks(g) = Blocks(h) \cup {e}
    BY <1>5 DEF Blocks
  <2>3. QED
    BY <2>1, <2>2, <1>0, <1>4, <1>5
<1>7. /\ RightOf(g, b) = e /\ RightOf(g, e) = RightOf(h, b)
      /\ \A d \in Blocks(h) : d # b => RightOf(g, d) = RightOf(h, d)
  BY <1>2, <1>6 DEF RightOf, e
<1>8. FreeBlocks(g) = (FreeBlocks(h) \ {b}) \cup {e} /\ e \in FreeBlocks(g)
  <2>1. e \notin h.alloc /\ e # b
    BY <1>0, <1>4 DEF HeapType
  <2>2. QED
    BY <2>1, <1>0, <1>4, <1>5, <1>6 DEF FreeBlocks
<1>9. HeapType(g)
  <2>1. g.size \in [Blocks(g) -> Nat]
    <3>1. \A d \in Blocks(g) : g.size[d] \in Nat
      BY <1>0, <1>2, <1>6, BlockFacts
    <3>2. QED
      BY <3>1, <1>5, <1>6
  <2>2. g.list \in Seq(Blocks(g))
    <3>1. r.list \in Seq(Blocks(h))
      BY <1>1 DEF HeapType, Blocks
    <3>2. \A i \in DOMAIN r.list : r.list[i] \in Blocks(g)
      BY <1>1, <1>6 DEF Lists, FreeBlocks
    <3>3. QED
      BY <3>1, <3>2, <1>5, SeqRetype
  <2>3. Blocks(g) \subseteq Nat /\ g.alloc \subseteq Blocks(g) /\ g.brk \in Nat
    BY <1>0, <1>2, <1>3, <1>5, <1>6 DEF HeapType
  <2>4. QED
    BY <2>1, <2>2, <2>3 DEF HeapType
<1>10. Tiled(g)
  <2>1. FirstBp \in Blocks(g) /\ g.brk <= HeapMax /\ g.brk % DSIZE = 0
    BY <1>0, <1>5, <1>6 DEF Tiled
  <2>2. ASSUME NEW d \in Blocks(g)
        PROVE  /\ FirstBp <= d /\ d % DSIZE = 0
               /\ g.size[d] >= MinBlock /\ g.size[d] % DSIZE = 0
               /\ RightOf(g, d) \in Blocks(g) \cup {g.brk}
               /\ RightOf(g, d) <= g.brk
    <3>1. CASE d = b
      BY <3>1, <1>2, <1>3, <1>5, <1>6, <1>7
    <3>2. CASE d = e
      <4>1. e % DSIZE = 0 /\ (h.size[b] - asize) % DSIZE = 0
        <5>1. b \in Int /\ asize \in Int /\ h.size[b] \in Int
          BY <1>2
        <5>2. QED
          BY <5>1, <1>2, ModFacts DEF e
      <4>2. FirstBp <= e
        BY <1>2, <1>3
      <4>3. QED
        BY <3>2, <4>1, <4>2, <1>2, <1>5, <1>6, <1>7
    <3>3. CASE d # b /\ d # e
      <4>1. d \in Blocks(h) /\ g.size[d] = h.size[d] /\ RightOf(g, d) = RightOf(h, d)
        BY <3>3, <1>6, <1>7
      <4>2. QED
        BY <4>1, <1>0, <1>5, <1>6, BlockFacts
    <3>4. QED
      BY <3>1, <3>2, <3>3
  <2>3. ASSUME NEW c \in Blocks(g), NEW d \in Blocks(g), c < d
        PROVE  RightOf(g, c) <= d
    <3>0. c \in Nat /\ d \in Nat
      BY <1>9 DEF HeapType
    <3>1. CASE c = b
      <4>1. CASE d = e
        BY <3>1, <4>1, <1>3, <1>7
      <4>2. CASE d # e
        <5>1. d \in Blocks(h) /\ RightOf(h, b) <= d
          BY <3>1, <4>2, <2>3, <1>0, <1>6 DEF Tiled
        <5>2. QED
          BY <5>1, <3>0, <3>1, <1>2, <1>3, <1>7
      <4>3. QED
        BY <4>1, <4>2
    <3>2. CASE c = e
      <4>1. d \in Blocks(h) /\ b < d
        BY <3>0, <3>2, <2>3, <1>2, <1>3, <1>6
      <4>2. QED
        BY <4>1, <3>2, <1>0, <1>7 DEF Tiled
    <3>3. CASE c # b /\ c # e
      <4>1. c \in Blocks(h) /\ RightOf(g, c) = RightOf(h, c)
        BY <3>3, <1>6, <1>7
      <4>2. CASE d # e
        BY <4>1, <4>2, <2>3, <1>0, <1>6 DEF Tiled
      <4>3. CASE d = e
        <5>1. c < b
          <6>1. b < c => RightOf(h, b) <= c
            BY <4>1, <1>0 DEF Tiled
          <6>2. QED
            BY <6>1, <4>3, <3>0, <3>3, <2>3, <1>2, <1>3
        <5>2. RightOf(h, c) <= b
          BY <5>1, <4>1, <1>0 DEF Tiled
        <5>3. RightOf(h, c) \in Nat
          BY <4>1, <1>0, BlockFacts
        <5>4. QED
          BY <5>2, <5>3, <4>1, <4>3, <1>2, <1>3
      <4>4. QED
        BY <4>2, <4>3
    <3>4. QED
      BY <3>1, <3>2, <3>3
  <2>4. QED
    BY <2>1, <2>2, <2>3 DEF Tiled
<1>11. Lists(g.list, FreeBlocks(g) \ {e})
  <2>1. FreeBlocks(g) \ {e} = FreeBlocks(h) \ {b}
    BY <1>4, <1>8 DEF FreeBlocks
  <2>2. QED
    BY <2>1, <1>1, <1>5
<1>12. ASSUME NEW c \in FreeBlocks(g), RightFree(g, c)
       PROVE  c = e \/ RightOf(g, c) = e
  <2>1. CASE c = e
    BY <2>1
  <2>2. CASE c # e
    <3>1. c \in FreeBlocks(h) /\ c # b /\ RightOf(g, c) = RightOf(h, c)
      BY <2>2, <1>7, <1>8 DEF FreeBlocks
    <3>2. QED
      BY <3>1, <1>8, <1>12 DEF RightFree, Good, NoFreeNeighbours
  <2>3. QED
    BY <2>1, <2>2
<1>13. \A p \in h.alloc : g.size[p] = h.size[p]
  BY <1>0, <1>6 DEF HeapType
<1>14. Loose(g, e)
  BY <1>8, <1>9, <1>10, <1>11, <1>12 DEF Loose
<1>15. QED
  BY <1>5, <1>6, <1>13, <1>14 DEF g, e, r

(* place (mm_freeList.c:227-250) allocates a free block and gives back     *)
(* what is not needed.                                                     *)
LEMMA PlaceFacts ==
  ASSUME NEW h, Good(h), NEW b \in FreeBlocks(h), NEW asize \in Nat,
         asize % DSIZE = 0, asize >= MinBlock, h.size[b] >= asize
  PROVE  LET g == Place(h, b, asize)
         IN /\ Good(g)
            /\ g.alloc = h.alloc \cup {b} /\ g.brk = h.brk
            /\ \A p \in h.alloc : g.size[p] = h.size[p]
            /\ g.size[b] >= asize
<1>0. /\ HeapType(h) /\ Tiled(h) /\ b \in Blocks(h) /\ b \notin h.alloc
      /\ Lists(h.list, FreeBlocks(h))
  BY GoodLists DEF Good, FreeBlocks
<1>1. CASE h.size[b] - asize >= MinBlock
  <2> DEFINE s == Split(Mark(RemoveBlock(h, b), b), b, asize)
  <2>1. /\ Loose(s, b + asize)
        /\ s.alloc = h.alloc \cup {b} /\ s.brk = h.brk
        /\ \A p \in h.alloc : s.size[p] = h.size[p]
        /\ s.size[b] = asize
    BY <1>1, SplitFacts
  <2>2. Place(h, b, asize) = Coalesce(s, b + asize)
    BY <1>1 DEF Place
  <2> HIDE DEF s
  <2>3. QED
    BY <2>1, <2>2, CoalesceFacts
<1>2. CASE ~(h.size[b] - asize >= MinBlock)
  <2> DEFINE r == RemoveBlock(h, b)
             g == Mark(r, b)
  <2>1. /\ HeapType(r) /\ r.size = h.size /\ r.alloc = h.alloc /\ r.brk = h.brk
        /\ Lists(r.list, FreeBlocks(h) \ {b})
    BY <1>0, RemoveFacts
  <2> HIDE DEF r
  <2>2. /\ g.size = h.size /\ g.alloc = h.alloc \cup {b} /\ g.brk = h.brk
        /\ g.list = r.list
    BY <2>1 DEF Mark, Heap
  <2> HIDE DEF g
  <2>3. /\ Blocks(g) = Blocks(h) /\ FreeBlocks(g) = FreeBlocks(h) \ {b}
        /\ \A d : RightOf(g, d) = RightOf(h, d)
    BY <2>2 DEF Blocks, FreeBlocks, RightOf
  <2>4. HeapType(g)
    BY <1>0, <2>1, <2>2, <2>3 DEF HeapType, Blocks
  <2>5. Tiled(g)
    BY <1>0, <2>2, <2>3 DEF Tiled
  <2>6. NoFreeNeighbours(g)
    BY <2>3 DEF Good, NoFreeNeighbours, RightFree
  <2>7. ListExact(g)
    BY <2>1, <2>2, <2>3, <2>4, GoodLists
  <2>8. Place(h, b, asize) = g
    BY <1>2 DEF Place, g, r
  <2>9. QED
    BY <2>2, <2>4, <2>5, <2>6, <2>7, <2>8 DEF Good
<1>3. QED
  BY <1>1, <1>2

(* The heap as extend_heap hands it to coalesce (mm_freeList.c:147-149):   *)
(* with a free block of n bytes, in no list, where the epilogue was.       *)
Extended(h, n) ==
  Heap([d \in Blocks(h) \cup {h.brk} |-> IF d = h.brk THEN n ELSE h.size[d]],
       h.alloc, h.list, h.brk + n)

(* The first chunk mm_init asks for (mm_freeList.c:115) is a heap of one   *)
(* block.                                                                  *)
LEMMA FirstBlockLoose ==
  LET x == Extended(EmptyHeap, FirstChunk)
  IN /\ FreshHeap = Coalesce(x, FirstBp) /\ Loose(x, FirstBp)
     /\ Blocks(x) = {FirstBp} /\ x.size[FirstBp] = FirstChunk
     /\ x.alloc = {} /\ x.list = << >> /\ x.brk = FirstBp + FirstChunk
<1> DEFINE x == Extended(EmptyHeap, FirstChunk)
<1>1. /\ FreshHeap = Coalesce(x, FirstBp)
      /\ x = Heap([d \in {FirstBp} |-> FirstChunk], {}, << >>,
                  FirstBp + FirstChunk)
  <2>1. Blocks(EmptyHeap) = {} /\ EmptyHeap.brk = FirstBp
        /\ EmptyHeap.alloc = {} /\ EmptyHeap.list = << >>
    BY DEF EmptyHeap, Heap, Blocks
  <2>2. [d \in Blocks(EmptyHeap) \cup {EmptyHeap.brk} |->
           IF d = EmptyHeap.brk THEN FirstChunk ELSE EmptyHeap.size[d]]
        = [d \in {FirstBp} |-> FirstChunk]
    BY <2>1
  <2>3. QED
    BY <2>1, <2>2 DEF FreshHeap, ExtendHeap, Extended
<1>2. /\ x.size = [d \in {FirstBp} |-> FirstChunk] /\ x.alloc = {}
      /\ x.list = << >> /\ x.brk = FirstBp + FirstChunk
  BY <1>1 DEF Heap
<1> HIDE DEF x
<1>3. /\ Blocks(x) = {FirstBp} /\ FreeBlocks(x) = {FirstBp}
      /\ RightOf(x, FirstBp) = FirstBp + FirstChunk
  BY <1>2 DEF Blocks, FreeBlocks, RightOf
<1>4. HeapType(x)
  BY <1>2, <1>3, BlockHeapAssumption DEF HeapType
<1>5. Tiled(x)
  <2>1. (FirstBp + FirstChunk) % DSIZE = 0 /\ FirstBp <= FirstBp + FirstChunk
    BY BlockHeapAssumption, ModFacts
  <2>2. x.size[FirstBp] = FirstChunk
    BY <1>2
  <2>3. ~(FirstBp < FirstBp) /\ FirstBp <= FirstBp
        /\ FirstBp + FirstChunk <= FirstBp + FirstChunk
    BY BlockHeapAssumption
  <2>4. QED
    BY <1>2, <1>3, <2>1, <2>2, <2>3, BlockHeapAssumption DEF Tiled
<1>6. Lists(x.list, FreeBlocks(x) \ {FirstBp})
  BY <1>2, <1>3 DEF Lists
<1>7. Loose(x, FirstBp)
  BY <1>3, <1>4, <1>5, <1>6 DEF Loose
<1>8. Blocks(x) = {FirstBp} /\ x.size[FirstBp] = FirstChunk
  BY <1>2, <1>3
<1>9. QED
  BY <1>1, <1>2, <1>7, <1>8 DEF x

(* mm_init (mm_freeList.c:86-119) leaves a Good heap with nothing          *)
(* allocated.                                                              *)
LEMMA FreshFacts ==
  /\ Good(FreshHeap) /\ FreshHeap.alloc = {}
  /\ FreshHeap.brk = FirstBp + FirstChunk
<1> DEFINE x == Extended(EmptyHeap, FirstChunk)
<1>1. /\ FreshHeap = Coalesce(x, FirstBp) /\ Loose(x, FirstBp)
      /\ x.alloc = {} /\ x.brk = FirstBp + FirstChunk
  BY FirstBlockLoose
<1> HIDE DEF x
<1>2. QED
  BY <1>1, CoalesceFacts

(* The new block of extend_heap may have a free neighbour on its left; all *)
(* the other blocks, and the list, are what they were.                     *)
LEMMA ExtendedLoose ==
  ASSUME NEW h, Good(h), NEW n \in Nat, n % DSIZE = 0, n >= MinBlock,
         CanExtend(h, n)
  PROVE  LET x == Extended(h, n)
         IN /\ ExtendHeap(h, n) = Coalesce(x, h.brk) /\ Loose(x, h.brk)
            /\ Blocks(x) = Blocks(h) \cup {h.brk} /\ h.brk \notin Blocks(h)
            /\ x.size[h.brk] = n
            /\ \A d \in Blocks(h) : x.size[d] = h.size[d]
            /\ x.alloc = h.alloc /\ x.list = h.list /\ x.brk = h.brk + n
<1> DEFINE e == h.brk
           x == Extended(h, n)
<1>0. /\ HeapType(h) /\ Tiled(h) /\ Lists(h.list, FreeBlocks(h))
      /\ NoFreeNeighbours(h)
  BY GoodLists DEF Good
<1>1. ExtendHeap(h, n) = Coalesce(x, e)
  BY DEF ExtendHeap, Extended
<1>2. /\ x.size = [d \in Blocks(h) \cup {e} |-> IF d = e THEN n ELSE h.size[d]]
      /\ x.alloc = h.alloc /\ x.list = h.list /\ x.brk = e + n
  BY DEF Heap, Extended
<1> HIDE DEF x
<1>3. e \in Nat /\ e % DSIZE = 0 /\ e + n <= HeapMax
  BY <1>0 DEF HeapType, Tiled, CanExtend
<1>4. \A d \in Blocks(h) : d \in Nat /\ d < e /\ RightOf(h, d) <= e
                           /\ RightOf(h, d) \in Blocks(h) \cup {e}
                           /\ RightOf(h, d) \in Nat
  BY <1>0, BlockFacts
<1> HIDE DEF e
<1>5. e \notin Blocks(h)
  BY <1>3, <1>4
<1>6. /\ Blocks(x) = Blocks(h) \cup {e} /\ x.size[e] = n
      /\ \A d \in Blocks(h) : x.size[d] = h.size[d]
  <2>1. Blocks(x) = Blocks(h) \cup {e}
    BY <1>2 DEF Blocks
  <2>2. QED
    BY <1>2, <1>5, <2>1
<1>7. /\ RightOf(x, e) = e + n
      /\ \A d \in Blocks(h) : RightOf(x, d) = RightOf(h, d)
  BY <1>6 DEF RightOf
<1>8. FreeBlocks(x) = FreeBlocks(h) \cup {e} /\ e \in FreeBlocks(x)
      /\ e \notin FreeBlocks(h)
  BY <1>0, <1>2, <1>5, <1>6 DEF FreeBlocks, HeapType
<1>9. HeapType(x)
  <2>1. x.size \in [Blocks(x) -> Nat]
    <3>1. \A d \in Blocks(x) : x.size[d] \in Nat
      BY <1>0, <1>6, BlockFacts
    <3>2. QED
      BY <3>1, <1>2, <1>6
  <2>2. x.list \in Seq(Blocks(x))
    <3>1. h.list \in Seq(Blocks(h))
      BY <1>0 DEF HeapType
    <3>2. \A i \in DOMAIN h.list : h.list[i] \in Blocks(x)
      BY <1>0, <1>6 DEF Lists, FreeBlocks
    <3>3. QED
      BY <3>1, <3>2, <1>2, SeqRetype
  <2>3. Blocks(x) \subseteq Nat /\ x.alloc \subseteq Blocks(x) /\ x.brk \in Nat
    BY <1>0, <1>2, <1>3, <1>6 DEF HeapType
  <2>4. QED
    BY <2>1, <2>2, <2>3 DEF HeapType
<1>10. Tiled(x)
  <2>1. FirstBp \in Blocks(x) /\ x.brk <= HeapMax /\ x.brk % DSIZE = 0
    <3>1. (e + n) % DSIZE = 0
      BY <1>3, ModFacts
    <3>2. QED
      BY <3>1, <1>0, <1>2, <1>3, <1>6 DEF Tiled
  <2>2. ASSUME NEW d \in Blocks(x)
        PROVE  /\ FirstBp <= d /\ d % DSIZE = 0
               /\ x.size[d] >= MinBlock /\ x.size[d] % DSIZE = 0
               /\ RightOf(x, d) \in Blocks(x) \cup {x.brk}
               /\ RightOf(x, d) <= x.brk
    <3>1. CASE d = e
      <4>1. FirstBp <= e
        <5>1. FirstBp \in Blocks(h)
          BY <1>0 DEF Tiled
        <5>2. QED
          BY <5>1, <1>3, <1>4
      <4>2. e + n <= e + n
        BY <1>3
      <4>3. QED
        BY <3>1, <4>1, <4>2, <1>2, <1>3, <1>6, <1>7
    <3>2. CASE d # e
      <4>1. /\ d \in Blocks(h) /\ x.size[d] = h.size[d]
            /\ RightOf(x, d) = RightOf(h, d)
        BY <3>2, <1>6, <1>7
      <4>2. RightOf(h, d) <= e + n
        BY <4>1, <1>3, <1>4
      <4>3. /\ FirstBp <= d /\ d % DSIZE = 0
            /\ h.size[d] >= MinBlock /\ h.size[d] % DSIZE = 0
        BY <4>1, <1>0, BlockFacts
      <4>4. QED
        BY <4>1, <4>2, <4>3, <1>2, <1>4, <1>6
    <3>3. QED
      BY <3>1, <3>2
  <2>3. ASSUME NEW c \in Blocks(x), NEW d \in Blocks(x), c < d
        PROVE  RightOf(x, c) <= d
    <3>1. CASE c = e
      BY <3>1, <2>3, <1>3, <1>4, <1>6
    <3>2. CASE c # e /\ d = e
      BY <3>2, <1>4, <1>6, <1>7
    <3>3. CASE c # e /\ d # e
      BY <3>3, <2>3, <1>0, <1>6, <1>7 DEF Tiled
    <3>4. QED
      BY <3>1, <3>2, <3>3
  <2>4. QED
    BY <2>1, <2>2, <2>3 DEF Tiled
<1>11. Lists(x.list, FreeBlocks(x) \ {e})
  <2>1. FreeBlocks(x) \ {e} = FreeBlocks(h)
    BY <1>8
  <2>2. QED
    BY <2>1, <1>0, <1>2
<1>12. ASSUME NEW c \in FreeBlocks(x), RightFree(x, c)
       PROVE  c = e \/ RightOf(x, c) = e
  <2>1. CASE c = e
    BY <2>1
  <2>2. CASE c # e
    <3>1. c \in FreeBlocks(h) /\ RightOf(x, c) = RightOf(h, c)
      BY <2>2, <1>7, <1>8 DEF FreeBlocks
    <3>2. QED
      BY <3>1, <1>0, <1>8, <1>12 DEF RightFree, NoFreeNeighbours
  <2>3. QED
    BY <2>1, <2>2
<1>13. Loose(x, e)
  BY <1>8, <1>9, <1>10, <1>11, <1>12 DEF Loose
<1>14. QED
  BY <1>1, <1>2, <1>5, <1>6, <1>13 DEF e, x

(* extend_heap (mm_freeList.c:129-153) leaves a Good heap whose first free *)
(* block is big enough for the request that made it grow.                  *)
LEMMA ExtendFacts ==
  ASSUME NEW h, Good(h), NEW n \in Nat, n % DSIZE = 0, n >= MinBlock,
         CanExtend(h, n)
  PROVE  LET g == ExtendHeap(h, n)
         IN /\ Good(g)
            /\ g.alloc = h.alloc /\ g.brk = h.brk + n
            /\ \A p \in h.alloc : g.size[p] = h.size[p]
            /\ 1 \in DOMAIN g.list /\ g.size[g.list[1]] >= n
<1> DEFINE x == Extended(h, n)
           g == Coalesce(x, h.brk)
<1>1. /\ ExtendHeap(h, n) = g /\ Loose(x, h.brk)
      /\ x.size[h.brk] = n /\ x.alloc = h.alloc /\ x.brk = h.brk + n
      /\ \A d \in Blocks(h) : x.size[d] = h.size[d]
  BY ExtendedLoose
<1> HIDE DEF x
<1>2. \A p \in h.alloc : x.size[p] = h.size[p]
  BY <1>1 DEF Good, HeapType
<1>3. /\ Good(g) /\ g.alloc = x.alloc /\ g.brk = x.brk
      /\ \A p \in x.alloc : g.size[p] = x.size[p]
      /\ 1 \in DOMAIN g.list /\ g.size[g.list[1]] >= x.size[h.brk]
  BY <1>1, CoalesceFacts
<1> HIDE DEF g
<1>4. QED
  BY <1>1, <1>2, <1>3

(* The inductive invariant: the heap is Good, the client's table is typed  *)
(* and matches the allocated blocks, and the heap holds at least what      *)
(* mm_init made, so that a new trace never makes it grow.                  *)
IInv ==
  /\ Good(heap)
  /\ live \in [DOMAIN live -> Requests]
  /\ LiveMatches
  /\ heap.brk >= FirstBp + FirstChunk

(* The first heap, made by mm_init (mm_freeList.c:86), satisfies the       *)
(* invariant.                                                              *)
LEMMA InitInv == Init => IInv
<1> SUFFICES ASSUME Init PROVE IInv
  OBVIOUS
<1>1. Good(heap) /\ heap.alloc = {} /\ heap.brk >= FirstBp + FirstChunk
  <2>1. FirstBp + FirstChunk \in Nat
    BY BlockHeapAssumption
  <2>2. QED
    BY <2>1, FreshFacts DEF Init
<1>2. DOMAIN live = {} /\ live \in [DOMAIN live -> Requests]
  BY DEF Init
<1>3. QED
  BY <1>1, <1>2 DEF IInv, LiveMatches

(* What handing out a placed block does to the client's table. *)
LEMMA HandoutFacts ==
  ASSUME NEW n \in Requests, NEW h, Good(h), NEW b \in FreeBlocks(h),
         h.size[b] >= BlockSize(n),
         live \in [DOMAIN live -> Requests],
         DOMAIN live = h.alloc,
         \A p \in DOMAIN live : live[p] + DSIZE <= h.size[p],
         h.brk >= FirstBp + FirstChunk,
         heap' = Place(h, b, BlockSize(n)), Handout(b, n)
  PROVE  IInv'
<1> DEFINE g == Place(h, b, BlockSize(n))
<1>1. n \in Nat
  BY BlockHeapAssumption
<1>2. /\ BlockSize(n) \in Nat /\ BlockSize(n) >= n + DSIZE
      /\ BlockSize(n) >= MinBlock /\ BlockSize(n) % DSIZE = 0
  BY <1>1, BlockSizeFacts
<1>3. /\ Good(g) /\ g.alloc = h.alloc \cup {b} /\ g.brk = h.brk
      /\ \A p \in h.alloc : g.size[p] = h.size[p]
      /\ g.size[b] >= BlockSize(n)
  BY <1>2, PlaceFacts
<1> HIDE DEF g
<1>4. live' = [q \in DOMAIN live \cup {b} |-> IF q = b THEN n ELSE live[q]]
  BY DEF Handout
<1>5. /\ DOMAIN live' = h.alloc \cup {b} /\ live' \in [DOMAIN live' -> Requests]
  BY <1>4
<1>6. \A p \in DOMAIN live' : live'[p] + DSIZE <= g.size[p]
  <2>1. g.size[b] \in Int
    BY <1>3 DEF Good, HeapType
  <2>2. n + DSIZE <= g.size[b]
    BY <1>1, <1>2, <1>3, <2>1 DEF DSIZE
  <2>3. ASSUME NEW p \in DOMAIN live', p # b
        PROVE  live'[p] + DSIZE <= g.size[p]
    BY <2>3, <1>3, <1>4
  <2>4. live'[b] = n
    BY <1>4
  <2>5. QED
    BY <2>2, <2>3, <2>4
<1>7. heap' = g
  BY DEF g
<1>8. QED
  BY <1>3, <1>5, <1>6, <1>7 DEF IInv, LiveMatches

(* Every call of the package keeps the invariant: one step per way out of  *)
(* mm_malloc, mm_free and mm_realloc, and mm_init.                         *)
LEMMA StepInv == IInv /\ [Next]_vars => IInv'
<1> SUFFICES ASSUME IInv, [Next]_vars PROVE IInv'
  OBVIOUS
<1>0. /\ Good(heap) /\ live \in [DOMAIN live -> Requests] /\ DOMAIN live = heap.alloc
      /\ \A p \in DOMAIN live : live[p] + DSIZE <= heap.size[p]
      /\ HeapType(heap) /\ Lists(heap.list, FreeBlocks(heap))
      /\ heap.brk >= FirstBp + FirstChunk
  BY GoodLists DEF IInv, LiveMatches, Good
<1>1. ASSUME NEW n \in Requests, MallocFromList(n)
      PROVE  IInv'
  <2>1. PICK i \in DOMAIN heap.list :
           /\ FirstFit(heap, BlockSize(n), i)
           /\ heap' = Place(heap, heap.list[i], BlockSize(n))
           /\ Handout(heap.list[i], n)
    BY <1>1 DEF MallocFromList
  <2>2. heap.list[i] \in FreeBlocks(heap)
    BY <1>0 DEF Lists
  <2>3. heap.size[heap.list[i]] >= BlockSize(n)
    BY <2>1 DEF FirstFit, Fits
  <2>4. QED
    BY <1>0, <2>1, <2>2, <2>3, HandoutFacts
<1>2. ASSUME NEW n \in Requests, MallocByExtending(n)
      PROVE  IInv'
  <2> DEFINE asize == BlockSize(n)
             g == ExtendHeap(heap, ExtendSize(asize))
  <2>1. /\ CanExtend(heap, ExtendSize(asize))
        /\ heap' = Place(g, g.list[1], asize) /\ Handout(g.list[1], n)
    BY <1>2 DEF MallocByExtending
  <2>2. /\ asize \in Nat /\ asize >= MinBlock /\ asize % DSIZE = 0
    BY BlockSizeFacts, BlockHeapAssumption
  <2>3. /\ ExtendSize(asize) \in Nat /\ ExtendSize(asize) >= asize
        /\ ExtendSize(asize) >= MinBlock /\ ExtendSize(asize) % DSIZE = 0
    BY <2>2, BlockHeapAssumption DEF ExtendSize
  <2>4. /\ Good(g) /\ g.alloc = heap.alloc
        /\ g.brk = heap.brk + ExtendSize(asize)
        /\ \A p \in heap.alloc : g.size[p] = heap.size[p]
        /\ 1 \in DOMAIN g.list /\ g.size[g.list[1]] >= ExtendSize(asize)
    BY <1>0, <2>1, <2>3, ExtendFacts
  <2> HIDE DEF g
  <2>5. g.list[1] \in FreeBlocks(g)
    BY <2>4, GoodLists DEF Good, Lists
  <2>6. g.size[g.list[1]] >= asize
    <3>1. g.size[g.list[1]] \in Int
      BY <2>4, <2>5 DEF Good, HeapType, FreeBlocks
    <3>2. QED
      BY <3>1, <2>2, <2>3, <2>4
  <2> HIDE DEF asize
  <2>7. \A p \in DOMAIN live : live[p] + DSIZE <= g.size[p]
    BY <1>0, <2>4
  <2>8. g.brk >= FirstBp + FirstChunk
    <3>1. heap.brk \in Nat /\ FirstBp + FirstChunk \in Nat
      BY <1>0, BlockHeapAssumption DEF HeapType
    <3>2. QED
      BY <3>1, <1>0, <2>3, <2>4
  <2>9. QED
    BY <1>0, <2>1, <2>4, <2>5, <2>6, <2>7, <2>8, HandoutFacts DEF asize
<1>3. ASSUME NEW p \in DOMAIN live, MmFree(p)
      PROVE  IInv'
  <2> DEFINE c == Clear(heap, p)
  <2>1. /\ Loose(c, p) /\ c.size = heap.size
        /\ c.alloc = heap.alloc \ {p} /\ c.brk = heap.brk
    BY <1>0, ClearFacts
  <2>2. heap' = Coalesce(c, p) /\ live' = [q \in DOMAIN live \ {p} |-> live[q]]
    BY <1>3 DEF MmFree, Restrict
  <2> HIDE DEF c
  <2>3. /\ Good(heap') /\ heap'.alloc = heap.alloc \ {p}
        /\ heap'.brk = heap.brk
        /\ \A q \in heap.alloc \ {p} : heap'.size[q] = heap.size[q]
    BY <2>1, <2>2, CoalesceFacts
  <2>4. live' \in [DOMAIN live' -> Requests] /\ DOMAIN live' = DOMAIN live \ {p}
    BY <1>0, <2>2
  <2>5. \A q \in DOMAIN live' : live'[q] + DSIZE <= heap'.size[q]
    BY <1>0, <2>2, <2>3
  <2>6. QED
    BY <1>0, <2>3, <2>4, <2>5 DEF IInv, LiveMatches
<1>4. ASSUME NEW p \in DOMAIN live, NEW n \in Requests, ReallocInPlace(p, n)
      PROVE  IInv'
  <2>1. /\ heap.size[p] - BlockSize(n) \in 0..MinBlock
        /\ live' = [live EXCEPT ![p] = n] /\ heap' = heap
    BY <1>4 DEF ReallocInPlace
  <2>2. n + DSIZE <= heap.size[p]
    <3>1. n \in Nat /\ heap.size[p] \in Nat
      BY <1>0, BlockHeapAssumption DEF HeapType
    <3>2. BlockSize(n) \in Nat /\ BlockSize(n) >= n + DSIZE
      BY <3>1, BlockSizeFacts
    <3>3. QED
      BY <2>1, <3>1, <3>2 DEF DSIZE
  <2>3. /\ DOMAIN live' = DOMAIN live /\ live' \in [DOMAIN live' -> Requests]
        /\ live'[p] = n /\ \A q \in DOMAIN live : q # p => live'[q] = live[q]
    BY <1>0, <2>1
  <2>4. QED
    BY <1>0, <2>1, <2>2, <2>3 DEF IInv, LiveMatches
<1>5. CASE NewTrace
  <2>1. FirstBp + FirstChunk \in Nat
    BY BlockHeapAssumption
  <2>2. QED
    BY <1>5, <2>1, FreshFacts DEF NewTrace, IInv, LiveMatches
<1>6. CASE UNCHANGED vars
  BY <1>6 DEF vars, IInv, LiveMatches
<1>7. QED
  BY <1>1, <1>2, <1>3, <1>4, <1>5, <1>6 DEF Next

(* Between any two calls of the package (mm_freeList.c:163-400) the        *)
(* inductive invariant holds.                                              *)
THEOREM HeapInvariant == Spec => []IInv
  BY InitInv, StepInv, PTL DEF Spec

(* The variables of BlockHeap keep their shape: every entry of the free    *)
(* list of mm_freeList.c is a block.                                       *)
THEOREM TypeCorrect == Spec => []TypeOK
<1>1. IInv => TypeOK
  BY DEF IInv, Good, TypeOK
<1>2. QED
  BY <1>1, HeapInvariant, PTL

(* For every sequence of calls the blocks tile the heap, coalesce leaves   *)
(* no two free neighbours, and the free list of mm_freeList.c holds each   *)
(* free block exactly once.                                                *)
THEOREM HeapCorrect == Spec => []HeapOK
<1>1. IInv => HeapOK
  BY DEF IInv, Good, HeapOK
<1>2. QED
  BY <1>1, HeapInvariant, PTL

(* The blocks that mm_freeList.c marks allocated are those its client      *)
(* holds, each with room for the bytes asked for between its tags.         *)
THEOREM LiveCorrect == Spec => []LiveMatches
<1>1. IInv => LiveMatches
  BY DEF IInv
<1>2. QED
  BY <1>1, HeapInvariant, PTL

-----------------------------------------------------------------------------
(* Payloads of two live blocks cannot touch, since blocks do not overlap.  *)
LEMMA PayloadFacts ==
  ASSUME NEW h, HeapType(h), Tiled(h), NEW f, DOMAIN f = h.alloc,
         \A p \in DOMAIN f : f[p] \in Nat /\ f[p] + DSIZE <= h.size[p]
  PROVE  \A p \in DOMAIN f :
           /\ p \in {a \in 0..HeapMax : a % DSIZE = 0}
           /\ p % DSIZE = 0 /\ FirstBp <= p /\ p + f[p] <= h.brk
           /\ \A q \in DOMAIN f \ {p} : p + f[p] <= q \/ q + f[q] <= p
<1> SUFFICES ASSUME NEW p \in DOMAIN f
             PROVE  /\ p \in {a \in 0..HeapMax : a % DSIZE = 0}
                    /\ p % DSIZE = 0 /\ FirstBp <= p /\ p + f[p] <= h.brk
                    /\ \A q \in DOMAIN f \ {p} :
                         p + f[p] <= q \/ q + f[q] <= p
  OBVIOUS
<1>1. \A q \in DOMAIN f :
        /\ q \in Blocks(h) /\ q \in Nat /\ q % DSIZE = 0 /\ FirstBp <= q
        /\ RightOf(h, q) \in Nat /\ RightOf(h, q) <= h.brk /\ q < h.brk
        /\ q + f[q] <= RightOf(h, q)
  <2> SUFFICES ASSUME NEW q \in DOMAIN f
               PROVE  /\ q \in Blocks(h) /\ q \in Nat /\ q % DSIZE = 0
                      /\ FirstBp <= q /\ RightOf(h, q) \in Nat
                      /\ RightOf(h, q) <= h.brk /\ q < h.brk
                      /\ q + f[q] <= RightOf(h, q)
    OBVIOUS
  <2>1. q \in Blocks(h) /\ f[q] \in Nat /\ f[q] + DSIZE <= h.size[q]
    BY DEF HeapType
  <2>2. /\ q \in Nat /\ q % DSIZE = 0 /\ FirstBp <= q /\ h.size[q] \in Nat
        /\ RightOf(h, q) = q + h.size[q]
        /\ RightOf(h, q) \in Nat /\ RightOf(h, q) <= h.brk /\ q < h.brk
    BY <2>1, BlockFacts
  <2>3. QED
    BY <2>1, <2>2 DEF DSIZE
<1>2. h.brk \in Nat /\ h.brk <= HeapMax /\ HeapMax \in Nat
  BY BlockHeapAssumption DEF HeapType, Tiled
<1>3. p \in {a \in 0..HeapMax : a % DSIZE = 0}
  BY <1>1, <1>2
<1>4. p + f[p] <= h.brk
  <2>1. f[p] \in Nat
    OBVIOUS
  <2>2. QED
    BY <2>1, <1>1, <1>2
<1>5. ASSUME NEW q \in DOMAIN f \ {p}
      PROVE  p + f[p] <= q \/ q + f[q] <= p
  <2>1. \/ p < q /\ RightOf(h, p) <= q
        \/ q < p /\ RightOf(h, q) <= p
    <3>1. p < q \/ q < p
      BY <1>1
    <3>2. QED
      BY <3>1, <1>1 DEF Tiled
  <2>2. f[p] \in Nat /\ f[q] \in Nat
    OBVIOUS
  <2>3. QED
    BY <2>1, <2>2, <1>1
<1>6. QED
  BY <1>1, <1>3, <1>4, <1>5

(* What an operation that hands out a block does to heap and table.        *)
LEMMA HandoutEffect ==
  ASSUME IInv, NEW n \in Requests, NEW b, Handout(b, n)
  PROVE  /\ DOMAIN live' = DOMAIN live \cup {b} /\ live'[b] = n
         /\ \A q \in DOMAIN live : q # b => live'[q] = live[q]
  BY DEF Handout

(* The break is always an address of the promise of Allocator.             *)
LEMMA AddrFacts ==
  ASSUME NEW h, HeapType(h), Tiled(h)
  PROVE  h.brk \in {a \in 0..HeapMax : a % DSIZE = 0}
  BY BlockHeapAssumption DEF HeapType, Tiled

(* A successful mm_malloc (mm_freeList.c:163-191), whichever way it finds  *)
(* its block, is the Alloc of the promise.                                 *)
LEMMA MallocRefines ==
  ASSUME IInv, IInv', NEW n \in Requests, n > 0, NEW b, b \notin DOMAIN live,
         Handout(b, n), heap'.brk >= heap.brk
  PROVE  Promise!Next
<1> DEFINE A == {a \in 0..HeapMax : a % DSIZE = 0}
<1>1. /\ HeapType(heap') /\ Tiled(heap') /\ DOMAIN live' = heap'.alloc
      /\ \A p \in DOMAIN live' : live'[p] + DSIZE <= heap'.size[p]
      /\ \A p \in DOMAIN live' : live'[p] \in Nat
  BY BlockHeapAssumption DEF IInv, Good, LiveMatches
<1>2. /\ DOMAIN live' = DOMAIN live \cup {b} /\ live'[b] = n
      /\ \A q \in DOMAIN live : q # b => live'[q] = live[q]
  BY HandoutEffect
<1>3. \A p \in DOMAIN live' :
        /\ p \in A /\ p % DSIZE = 0 /\ FirstBp <= p
        /\ p + live'[p] <= heap'.brk
        /\ \A q \in DOMAIN live' \ {p} :
             p + live'[p] <= q \/ q + live'[q] <= p
  BY <1>1, PayloadFacts
<1>4. heap'.brk \in A
  BY <1>1, AddrFacts
<1>5. \A q \in DOMAIN live : b + n <= q \/ q + live[q] <= b
  BY <1>2, <1>3
<1>6. live' = [q \in DOMAIN live \cup {b} |-> IF q = b THEN n ELSE live[q]]
  BY DEF Handout
<1>7. b \in A /\ b % DSIZE = 0 /\ FirstBp <= b /\ b + n <= heap'.brk
  BY <1>2, <1>3
<1>8. Promise!Alloc(b, n)
  BY <1>4, <1>5, <1>6, <1>7
     DEF Promise!Alloc, Promise!Aligned, Promise!Apart
<1>9. QED
  BY <1>7, <1>8 DEF Promise!Next

(* The two ways mm_malloc succeeds, seen from outside. *)
LEMMA FromListFacts ==
  ASSUME IInv, NEW n \in Requests, MallocFromList(n)
  PROVE  /\ n > 0 /\ heap'.brk = heap.brk
         /\ \E b : b \notin DOMAIN live /\ Handout(b, n)
<1>0. Good(heap) /\ Lists(heap.list, FreeBlocks(heap)) /\ DOMAIN live = heap.alloc
  BY GoodLists DEF IInv, LiveMatches, Good
<1>1. PICK i \in DOMAIN heap.list :
         /\ FirstFit(heap, BlockSize(n), i)
         /\ heap' = Place(heap, heap.list[i], BlockSize(n))
         /\ Handout(heap.list[i], n)
  BY DEF MallocFromList
<1>2. heap.list[i] \in FreeBlocks(heap) /\ heap.size[heap.list[i]] >= BlockSize(n)
  BY <1>0, <1>1 DEF Lists, FirstFit, Fits
<1>3. /\ BlockSize(n) \in Nat /\ BlockSize(n) >= MinBlock
      /\ BlockSize(n) % DSIZE = 0
  BY BlockSizeFacts, BlockHeapAssumption
<1>4. heap'.brk = heap.brk
  BY <1>0, <1>1, <1>2, <1>3, PlaceFacts
<1>5. QED
  BY <1>0, <1>1, <1>2, <1>4 DEF MallocFromList, FreeBlocks

(* The way out of mm_malloc that extends the heap (mm_freeList.c:182-190): *)
(* nothing fitted, and the heap grew by ExtendSize.                        *)
LEMMA ByExtendingFacts ==
  ASSUME IInv, NEW n \in Requests, MallocByExtending(n)
  PROVE  /\ n > 0 /\ NoFit(heap, BlockSize(n))
         /\ heap'.brk = heap.brk + ExtendSize(BlockSize(n))
         /\ ExtendSize(BlockSize(n)) \in Nat
         /\ ExtendSize(BlockSize(n)) >= Chunk
         /\ \E b : b \notin DOMAIN live /\ Handout(b, n)
<1> DEFINE asize == BlockSize(n)
           g == ExtendHeap(heap, ExtendSize(asize))
<1>0. Good(heap) /\ DOMAIN live = heap.alloc
  BY DEF IInv, LiveMatches
<1>1. /\ n > 0 /\ NoFit(heap, asize) /\ CanExtend(heap, ExtendSize(asize))
      /\ heap' = Place(g, g.list[1], asize) /\ Handout(g.list[1], n)
  BY DEF MallocByExtending
<1>2. /\ asize \in Nat /\ asize >= MinBlock /\ asize % DSIZE = 0
  BY BlockSizeFacts, BlockHeapAssumption
<1>3. /\ ExtendSize(asize) \in Nat /\ ExtendSize(asize) >= asize
      /\ ExtendSize(asize) >= MinBlock /\ ExtendSize(asize) % DSIZE = 0
      /\ ExtendSize(asize) >= Chunk
  BY <1>2, BlockHeapAssumption DEF ExtendSize
<1>4. /\ Good(g) /\ g.alloc = heap.alloc
      /\ g.brk = heap.brk + ExtendSize(asize)
      /\ 1 \in DOMAIN g.list /\ g.size[g.list[1]] >= ExtendSize(asize)
  BY <1>0, <1>1, <1>3, ExtendFacts
<1> HIDE DEF g
<1>5. g.list[1] \in FreeBlocks(g)
  BY <1>4, GoodLists DEF Good, Lists
<1>6. g.size[g.list[1]] >= asize
  <2>1. g.size[g.list[1]] \in Int
    BY <1>4, <1>5 DEF Good, HeapType, FreeBlocks
  <2>2. QED
    BY <2>1, <1>2, <1>3, <1>4
<1>7. heap'.brk = g.brk
  BY <1>1, <1>2, <1>4, <1>5, <1>6, PlaceFacts
<1>8. g.list[1] \notin DOMAIN live
  BY <1>0, <1>4, <1>5 DEF FreeBlocks
<1>9. QED
  BY <1>1, <1>3, <1>4, <1>7, <1>8

(* mm_free (mm_freeList.c:255) never moves the break.                      *)
LEMMA FreeFacts ==
  ASSUME IInv, NEW p \in DOMAIN live, MmFree(p)
  PROVE  heap'.brk = heap.brk
<1>1. Good(heap) /\ p \in heap.alloc
  BY DEF IInv, LiveMatches
<1>2. Loose(Clear(heap, p), p) /\ Clear(heap, p).brk = heap.brk
  BY <1>1, ClearFacts
<1>3. QED
  BY <1>2, CoalesceFacts DEF MmFree

(* Every step is a step of Allocator, or changes nothing its client sees.  *)
LEMMA StepRefines ==
  ASSUME IInv, IInv', [Next]_vars
  PROVE  [Promise!Next]_(Promise!vars)
<1> DEFINE A == {a \in 0..HeapMax : a % DSIZE = 0}
<1>0. /\ heap.brk \in Nat /\ heap'.brk \in A
      /\ \A p \in DOMAIN live : live[p] \in Requests
      /\ \A p \in DOMAIN live : p \in A
  <2>1. heap.brk \in Nat
    BY DEF IInv, Good, HeapType
  <2>2. heap'.brk \in A
    BY AddrFacts DEF IInv, Good
  <2>3. \A p \in DOMAIN live : live[p] \in Nat /\ live[p] + DSIZE <= heap.size[p]
    BY BlockHeapAssumption DEF IInv, LiveMatches
  <2>4. \A p \in DOMAIN live : p \in A
    BY <2>3, PayloadFacts DEF IInv, Good, LiveMatches
  <2>5. QED
    BY <2>1, <2>2, <2>4 DEF IInv
<1>1. ASSUME NEW n \in Requests, MallocFromList(n)
      PROVE  Promise!Next
  BY <1>0, <1>1, FromListFacts, MallocRefines
<1>2. ASSUME NEW n \in Requests, MallocByExtending(n)
      PROVE  Promise!Next
  <2>1. heap'.brk >= heap.brk
    BY <1>0, <1>2, ByExtendingFacts
  <2>2. QED
    BY <2>1, <1>2, ByExtendingFacts, MallocRefines
<1>3. ASSUME NEW p \in DOMAIN live, MmFree(p)
      PROVE  Promise!Next
  <2>1. Promise!Free(p)
    BY <1>3, FreeFacts DEF MmFree, Restrict, Promise!Free, Promise!Restrict
  <2>2. QED
    BY <2>1, <1>0 DEF Promise!Next
<1>4. ASSUME NEW p \in DOMAIN live, NEW n \in Requests, ReallocInPlace(p, n)
      PROVE  Promise!Next
  <2>1. live' = [live EXCEPT ![p] = n] /\ heap' = heap
    BY <1>4 DEF ReallocInPlace
  <2>2. DOMAIN live' = DOMAIN live /\ live'[p] = n
        /\ \A q \in DOMAIN live : q # p => live'[q] = live[q]
    BY <2>1
  <2>3. /\ HeapType(heap') /\ Tiled(heap') /\ DOMAIN live' = heap'.alloc
        /\ \A q \in DOMAIN live' : live'[q] \in Nat
                                   /\ live'[q] + DSIZE <= heap'.size[q]
    BY BlockHeapAssumption DEF IInv, Good, LiveMatches
  <2>4. /\ FirstBp <= p /\ p + live'[p] <= heap'.brk
        /\ \A q \in DOMAIN live' \ {p} :
             p + live'[p] <= q \/ q + live'[q] <= p
    BY <2>2, <2>3, PayloadFacts
  <2>5. Promise!Resize(p, n)
    BY <2>1, <2>2, <2>4 DEF Promise!Resize, Promise!InHeap, Promise!Apart
  <2>6. QED
    BY <2>5, <1>0 DEF Promise!Next
<1>5. CASE NewTrace
  <2>1. Promise!Reset
    BY <1>0, <1>5 DEF NewTrace, Promise!Reset
  <2>2. QED
    BY <2>1 DEF Promise!Next
<1>6. CASE UNCHANGED vars
  BY <1>6 DEF vars, Promise!vars
<1>7. QED
  BY <1>1, <1>2, <1>3, <1>4, <1>5, <1>6 DEF Next

(* The allocator of mm_freeList.c, at block level, implements Allocator:   *)
(* its payloads are aligned, lie in the heap and are disjoint, for every   *)
(* sequence of calls (add_range, mdriver.c:381-429, tests this on one      *)
(* trace).                                                                 *)
THEOREM KeepsPromise == Spec => PromiseSpec
<1>1. Init => Promise!Init
  <2>1. Init => HeapType(heap) /\ Tiled(heap)
    BY FreshFacts DEF Init, Good
  <2>2. Init => heap.brk \in {a \in 0..HeapMax : a % DSIZE = 0}
    BY <2>1, AddrFacts
  <2>3. QED
    BY <2>2 DEF Init, Promise!Init
<1>2. IInv /\ IInv' /\ [Next]_vars => [Promise!Next]_(Promise!vars)
  BY StepRefines
<1>3. QED
  BY <1>1, <1>2, HeapInvariant, PTL DEF Spec, PromiseSpec, Promise!Spec

(* mm_malloc extends the heap (mm_freeList.c:183-186) only when no free    *)
(* block, listed or not, is big enough, and then by a chunk at least.      *)
THEOREM GrowthJustified == Spec => GrowsOnlyWhenFull
<1> DEFINE Justified ==
      heap'.brk > heap.brk =>
        /\ \A b \in FreeBlocks(heap) : \A p \in DOMAIN live' \ DOMAIN live :
             heap.size[b] < BlockSize(live'[p])
        /\ heap'.brk - heap.brk >= Chunk
<1>1. ASSUME IInv, [Next]_vars PROVE [Justified]_vars
  <2>0. heap.brk \in Nat /\ heap.brk >= FirstBp + FirstChunk
        /\ HeapType(heap) /\ Lists(heap.list, FreeBlocks(heap))
    BY <1>1, GoodLists DEF IInv, Good, HeapType
  <2>1. ASSUME NEW n \in Requests, MallocFromList(n) PROVE Justified
    BY <1>1, <2>0, <2>1, FromListFacts
  <2>2. ASSUME NEW n \in Requests, MallocByExtending(n) PROVE Justified
    <3>1. /\ NoFit(heap, BlockSize(n))
          /\ heap'.brk = heap.brk + ExtendSize(BlockSize(n))
          /\ ExtendSize(BlockSize(n)) \in Nat
          /\ ExtendSize(BlockSize(n)) >= Chunk
          /\ \E b : b \notin DOMAIN live /\ Handout(b, n)
      BY <1>1, <2>2, ByExtendingFacts
    <3>2. heap'.brk - heap.brk >= Chunk
      BY <2>0, <3>1, BlockHeapAssumption
    <3>3. ASSUME NEW b \in FreeBlocks(heap)
          PROVE  heap.size[b] < BlockSize(n)
      <4>1. PICK i \in DOMAIN heap.list : heap.list[i] = b
        BY <2>0 DEF Lists
      <4>2. ~(heap.size[b] >= BlockSize(n))
        BY <3>1, <4>1 DEF NoFit, Fits
      <4>3. heap.size[b] \in Nat /\ BlockSize(n) \in Nat
        BY <2>0, BlockSizeFacts, BlockHeapAssumption DEF HeapType, FreeBlocks
      <4>4. QED
        BY <4>2, <4>3
    <3>4. \A p \in DOMAIN live' \ DOMAIN live : live'[p] = n
      BY <3>1 DEF Handout
    <3>5. QED
      BY <3>2, <3>3, <3>4
  <2>3. ASSUME NEW p \in DOMAIN live, MmFree(p) PROVE Justified
    BY <1>1, <2>0, <2>3, FreeFacts
  <2>4. ASSUME NEW p \in DOMAIN live, NEW n \in Requests, ReallocInPlace(p, n)
        PROVE  Justified
    BY <2>0, <2>4 DEF ReallocInPlace
  <2>5. CASE NewTrace
    <3>1. heap'.brk = FirstBp + FirstChunk /\ FirstBp + FirstChunk \in Nat
      BY <2>5, FreshFacts, BlockHeapAssumption DEF NewTrace
    <3>2. QED
      BY <2>0, <3>1
  <2>6. CASE UNCHANGED vars
    BY <2>6
  <2>7. QED
    BY <1>1, <2>1, <2>2, <2>3, <2>4, <2>5, <2>6 DEF Next
<1>2. QED
  BY <1>1, HeapInvariant, PTL DEF Spec, GrowsOnlyWhenFull
=============================================================================
