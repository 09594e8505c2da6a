--------------------------- MODULE FreeListProofs ---------------------------
(***************************************************************************)
(* mm_freeList.c keeps the words of its heap in order, for every heap, set *)
(* of requests and number of calls: boundary tags agree, the links of the  *)
(* free list can be followed both ways, no word of a payload in use is     *)
(* written, and every call does to the blocks what BlockHeap says.         *)
(*                                                                         *)
(* Rep(h, G) relates a heap h of words to the heap G of blocks it stands   *)
(* for.  Each static function of the package is shown to keep it, and to   *)
(* write no word of a block it is not about; what the blocks themselves    *)
(* satisfy is taken from BlockHeapProofs.                                  *)
(***************************************************************************)
EXTENDS FreeListMalloc, FiniteSetTheorems, SequenceTheorems, TLAPS

BH == INSTANCE BlockHeapProofs
  WITH FirstBp <- FirstBp, HeapMax <- MaxAddr,
       FirstChunk <- InitWords * WSIZE, Chunk <- CHUNKSIZE,
       MinBlock <- MIN_BLOCKSIZE,
       heap <- BlockHeapOf(heap), live <- LiveOf(live)

(* The constants in numbers.                                               *)
LEMMA Numbers ==
  /\ WSIZE = 4 /\ DSIZE = 8 /\ BH!DSIZE = 8 /\ MIN_BLOCKSIZE = 24
  /\ CHUNKSIZE = 4096 /\ InitWords = 8 /\ NULL = 0
  /\ MemStart \in Nat /\ MemStart > 0 /\ MemStart % 8 = 0
  /\ MaxHeap \in Nat /\ MaxHeap >= 80
  /\ MaxAddr = MemStart + MaxHeap /\ MaxAddr \in Nat
  /\ FirstBp = MemStart + 48 /\ FirstBp \in Nat /\ FirstBp % 8 = 0
  /\ Prologue = MemStart + 8 /\ Prologue \in Nat /\ Prologue % 8 = 0
  /\ FirstBp + 32 <= MaxAddr
  /\ SizeMod \in Nat /\ SizeMod >= 32
  /\ \A n \in Requests : n \in Nat /\ 2 * n < SizeMod
BY FreeListMallocAssumption
   DEF WSIZE, DSIZE, BH!DSIZE, MIN_BLOCKSIZE, CHUNKSIZE, InitWords, NULL,
       MaxAddr, FirstBp, Prologue

(* What BlockHeap assumes of its constants holds of those of the package.  *)
LEMMA BlockHeapOK == BH!BlockHeapAssumption
BY Numbers DEF BH!BlockHeapAssumption
-----------------------------------------------------------------------------
(***************************************************************************)
(* Words.                                                                  *)
(***************************************************************************)
Words == {a \in MemStart..MaxAddr - WSIZE : a % WSIZE = 0}

(* the shape of the heap variable, in particular of the map from words     *)
MemOK(h) ==
  /\ h = [mem |-> h.mem, brk |-> h.brk, start |-> h.start]
  /\ h.mem \in [DOMAIN h.mem -> Nat]
  /\ DOMAIN h.mem \subseteq Words

(* the word at a is as it was, and so is whether anybody has written it    *)
Same(h, g, a) ==
  /\ Get(g, a) = Get(h, a)
  /\ a \in DOMAIN g.mem <=> a \in DOMAIN h.mem

(* A word of memory is a number.                                           *)
LEMMA GetType ==
  ASSUME NEW h, MemOK(h), NEW a
  PROVE  Get(h, a) \in Nat
BY DEF MemOK, Get

(* PUT (mm_freeList.c:47) changes the one word.                            *)
LEMMA PutFacts ==
  ASSUME NEW h, MemOK(h), NEW a \in Words, NEW v \in Nat
  PROVE  /\ MemOK(Put(h, a, v))
         /\ Put(h, a, v).brk = h.brk /\ Put(h, a, v).start = h.start
         /\ Get(Put(h, a, v), a) = v
         /\ \A x : x # a => Same(h, Put(h, a, v), x)
<1> DEFINE m == Update(h.mem, a, v)
           g == Put(h, a, v)
<1>1. g = [mem |-> m, brk |-> h.brk, start |-> h.start]
  <2>1. g = [h EXCEPT !.mem = m]
    BY DEF Put
  <2>2. h = [mem |-> h.mem, brk |-> h.brk, start |-> h.start]
    BY DEF MemOK
  <2> HIDE DEF m, g
  <2>3. QED
    BY <2>1, <2>2
<1>2. m = [x \in DOMAIN h.mem \cup {a} |-> IF x = a THEN v ELSE h.mem[x]]
  BY DEF Update
<1> HIDE DEF m
<1>3. /\ DOMAIN m = {a} \cup DOMAIN h.mem /\ m[a] = v
      /\ \A x \in DOMAIN h.mem : x # a => m[x] = h.mem[x]
  BY <1>2
<1>4. /\ g.mem = m /\ g.brk = h.brk /\ g.start = h.start
      /\ g = [mem |-> g.mem, brk |-> g.brk, start |-> g.start]
  BY <1>1
<1> HIDE DEF g
<1>5. MemOK(g)
  <2>1. \A x \in DOMAIN m : m[x] \in Nat /\ x \in Words
    BY <1>3 DEF MemOK
  <2>2. m \in [DOMAIN m -> Nat]
    BY <2>1, <1>2, <1>3
  <2>3. QED
    BY <2>1, <2>2, <1>4 DEF MemOK
<1>6. Get(g, a) = v
  BY <1>3, <1>4 DEF Get
<1>7. \A x : x # a => Same(h, g, x)
  BY <1>3, <1>4 DEF Same, Get
<1>8. QED
  BY <1>4, <1>5, <1>6, <1>7 DEF g

(* Only the two fields beside the words change when start or brk is set.   *)
LEMMA StartIs ==
  ASSUME NEW h, MemOK(h), NEW v, NEW g, g = [h EXCEPT !.start = v]
  PROVE  /\ MemOK(g) /\ g.start = v /\ g.brk = h.brk
         /\ \A x : Same(h, g, x)
<1>1. h = [mem |-> h.mem, brk |-> h.brk, start |-> h.start]
  BY DEF MemOK
<1>2. g = [mem |-> h.mem, brk |-> h.brk, start |-> v]
  BY <1>1
<1>3. /\ g.mem = h.mem /\ g.brk = h.brk /\ g.start = v
      /\ g = [mem |-> g.mem, brk |-> g.brk, start |-> g.start]
  BY <1>2
<1>4. MemOK(g)
  BY <1>3 DEF MemOK
<1>5. \A x : Same(h, g, x)
  BY <1>3 DEF Same, Get
<1>6. QED
  BY <1>3, <1>4, <1>5

(* The same of brk.                                                        *)
LEMMA BrkIs ==
  ASSUME NEW h, MemOK(h), NEW v, NEW g, g = [h EXCEPT !.brk = v]
  PROVE  /\ MemOK(g) /\ g.brk = v /\ g.start = h.start
         /\ \A x : Same(h, g, x)
<1>1. h = [mem |-> h.mem, brk |-> h.brk, start |-> h.start]
  BY DEF MemOK
<1>2. g = [mem |-> h.mem, brk |-> v, start |-> h.start]
  BY <1>1
<1>3. /\ g.mem = h.mem /\ g.brk = v /\ g.start = h.start
      /\ g = [mem |-> g.mem, brk |-> g.brk, start |-> g.start]
  BY <1>2
<1>4. MemOK(g)
  BY <1>3 DEF MemOK
<1>5. \A x : Same(h, g, x)
  BY <1>3 DEF Same, Get
<1>6. QED
  BY <1>3, <1>4, <1>5

-----------------------------------------------------------------------------
(***************************************************************************)
(* Blocks.                                                                 *)
(***************************************************************************)
Shape(G) == BH!HeapType(G) /\ BH!Tiled(G)

(* a lies in the block x, its tags included                                *)
Own(G, x, a) == x - WSIZE <= a /\ a < x + G.size[x] - WSIZE

(* the boundary tag of x                                                   *)
Tag(G, x) == G.size[x] + (IF x \in G.alloc THEN 1 ELSE 0)

TagAt(h, G, x) ==
  /\ Get(h, HDRP(x)) = Tag(G, x)
  /\ Get(h, x + G.size[x] - DSIZE) = Tag(G, x)

(* What BlockHeapProofs knows of a block, in numbers.                      *)
LEMMA BlockNumbers ==
  ASSUME NEW G, Shape(G), NEW x \in BH!Blocks(G)
  PROVE  /\ x \in Nat /\ FirstBp <= x /\ x % 8 = 0
         /\ G.size[x] \in Nat /\ G.size[x] >= 24 /\ G.size[x] % 8 = 0
         /\ x + G.size[x] <= G.brk
         /\ G.brk \in Nat /\ G.brk <= MaxAddr /\ G.brk % 8 = 0
<1>1. BH!BlockHeapAssumption /\ BH!HeapType(G) /\ BH!Tiled(G)
  BY BlockHeapOK DEF Shape
<1>2. /\ x \in Nat /\ FirstBp <= x /\ x % BH!DSIZE = 0
      /\ G.size[x] \in Nat /\ G.size[x] >= MIN_BLOCKSIZE
      /\ G.size[x] % BH!DSIZE = 0
      /\ BH!RightOf(G, x) = x + G.size[x] /\ BH!RightOf(G, x) <= G.brk
  BY <1>1, BH!BlockFacts
<1>3. G.brk \in Nat /\ G.brk <= MaxAddr /\ G.brk % BH!DSIZE = 0
  BY <1>1 DEF BH!HeapType, BH!Tiled
<1>4. QED
  BY <1>2, <1>3, Numbers

(* Two blocks have no word in common.                                      *)
LEMMA Apart ==
  ASSUME NEW G, Shape(G), NEW x \in BH!Blocks(G), NEW y \in BH!Blocks(G),
         x # y, NEW a \in Int, Own(G, x, a)
  PROVE  ~Own(G, y, a)
<1>1. /\ x \in Nat /\ y \in Nat /\ G.size[x] \in Nat /\ G.size[y] \in Nat
  BY BlockNumbers
<1>2. \A c, d \in BH!Blocks(G) : c < d => c + G.size[c] <= d
  BY DEF Shape, BH!Tiled, BH!RightOf
<1>3. x < y => x + G.size[x] <= y
  BY <1>2
<1>4. y < x => y + G.size[y] <= x
  BY <1>2
<1>5. QED
  BY <1>1, <1>3, <1>4, Numbers DEF Own

(* The words a block's tags and links are kept in.                         *)
LEMMA BlockWords ==
  ASSUME NEW G, Shape(G), NEW x \in BH!Blocks(G)
  PROVE  /\ x - 4 \in Words /\ x \in Words /\ x + 8 \in Words
         /\ x + G.size[x] - 8 \in Words
         /\ Own(G, x, x - 4) /\ Own(G, x, x) /\ Own(G, x, x + 8)
         /\ Own(G, x, x + G.size[x] - 8)
<1>1. /\ x \in Nat /\ FirstBp <= x /\ x % 8 = 0
      /\ G.size[x] \in Nat /\ G.size[x] >= 24 /\ G.size[x] % 8 = 0
      /\ x + G.size[x] <= G.brk
      /\ G.brk \in Nat /\ G.brk <= MaxAddr
  BY BlockNumbers
<1>2. (x - 4) % 4 = 0 /\ x % 4 = 0 /\ (x + 8) % 4 = 0
      /\ (x + G.size[x] - 8) % 4 = 0
  BY <1>1
<1>3. QED
  BY <1>1, <1>2, Numbers DEF Words, Own

(* mem_start_brk, the prologue and the epilogue are no part of a block.    *)
LEMMA OutsideBlocks ==
  ASSUME NEW G, Shape(G), NEW x \in BH!Blocks(G), NEW a \in Int,
         a < FirstBp - 4 \/ a >= G.brk - 4
  PROVE  ~Own(G, x, a)
BY BlockNumbers, Numbers DEF Own

(* Where mm_init puts its words, and the epilogue, are word addresses.     *)
LEMMA BaseWords ==
  ASSUME NEW G, Shape(G)
  PROVE  /\ FirstBp - 8 \in Words /\ Prologue - 4 \in Words
         /\ Prologue \in Words /\ Prologue + 8 \in Words /\ G.brk - 4 \in Words
         /\ Prologue + 8 < FirstBp - 8
<1>1. FirstBp \in BH!Blocks(G)
  BY DEF Shape, BH!Tiled
<1>2. /\ FirstBp + 24 <= G.brk
      /\ G.brk \in Nat /\ G.brk <= MaxAddr /\ G.brk % 8 = 0
  BY <1>1, BlockNumbers, Numbers
<1>3. (G.brk - 4) % 4 = 0 /\ (FirstBp - 8) % 4 = 0 /\ (Prologue - 4) % 4 = 0
      /\ Prologue % 4 = 0 /\ (Prologue + 8) % 4 = 0
  BY <1>2, Numbers
<1>4. QED
  BY <1>2, <1>3, Numbers DEF Words

(* Size and allocated bit are read back from the word they were packed in. *)
LEMMA Unpack ==
  ASSUME NEW s \in Nat, s % 8 = 0, NEW bit \in {0, 1}
  PROVE  ((s + bit) \div 8) * 8 = s /\ (s + bit) % 2 = bit
  OBVIOUS

(* The macros read off the tags where a block ends and whether it is free. *)
LEMMA ReadTag ==
  ASSUME NEW h, NEW G, Shape(G), NEW x \in BH!Blocks(G), TagAt(h, G, x)
  PROVE  /\ GetSize(h, HDRP(x)) = G.size[x]
         /\ RightBlkp(h, x) = x + G.size[x]
         /\ FTRP(h, x) = x + G.size[x] - 8
         /\ GetAlloc(h, HDRP(x)) = IF x \in G.alloc THEN 1 ELSE 0
         /\ GetAlloc(h, FTRP(h, x)) = IF x \in G.alloc THEN 1 ELSE 0
         /\ LeftBlkp(h, x + G.size[x]) = x
<1> DEFINE bit == IF x \in G.alloc THEN 1 ELSE 0
<1>1. x \in Nat /\ G.size[x] \in Nat /\ G.size[x] % 8 = 0
  BY BlockNumbers
<1>2. bit \in {0, 1}
  OBVIOUS
<1>3. /\ Get(h, HDRP(x)) = G.size[x] + bit
      /\ Get(h, x + G.size[x] - 8) = G.size[x] + bit
  BY Numbers DEF TagAt, Tag
<1> HIDE DEF bit
<1>4. /\ ((G.size[x] + bit) \div 8) * 8 = G.size[x]
      /\ (G.size[x] + bit) % 2 = bit
  BY <1>1, <1>2, Unpack
<1>5. /\ GetSize(h, HDRP(x)) = G.size[x]
      /\ GetAlloc(h, HDRP(x)) = bit
      /\ GetSize(h, x + G.size[x] - 8) = G.size[x]
      /\ GetAlloc(h, x + G.size[x] - 8) = bit
  BY <1>3, <1>4, Numbers DEF GetSize, GetAlloc
<1>6. /\ RightBlkp(h, x) = x + G.size[x]
      /\ FTRP(h, x) = x + G.size[x] - 8
  BY <1>5, Numbers DEF RightBlkp, FTRP
<1>7. LeftBlkp(h, x + G.size[x]) = x
  <2>1. HDRP(x + G.size[x]) - WSIZE = x + G.size[x] - 8
    BY <1>1, Numbers DEF HDRP
  <2>2. QED
    BY <2>1, <1>1, <1>5 DEF LeftBlkp
<1>8. QED
  BY <1>5, <1>6, <1>7 DEF bit

(* Both tags of a block are written, the footer where the new header says. *)
LEMMA PutTagsFacts ==
  ASSUME NEW h, MemOK(h), NEW x \in Nat, NEW s \in Nat, s % 8 = 0, s >= 24,
         NEW bit \in {0, 1}, x - 4 \in Words, x + s - 8 \in Words
  PROVE  LET g == PutTags(h, x, s, bit)
         IN /\ MemOK(g) /\ g.brk = h.brk /\ g.start = h.start
            /\ Get(g, x - 4) = s + bit /\ Get(g, x + s - 8) = s + bit
            /\ \A a : a # x - 4 /\ a # x + s - 8 => Same(h, g, a)
<1> DEFINE k == Put(h, x - 4, s + bit)
           g == Put(k, x + s - 8, s + bit)
<1>1. s + bit \in Nat
  OBVIOUS
<1>2. /\ MemOK(k) /\ k.brk = h.brk /\ k.start = h.start
      /\ Get(k, x - 4) = s + bit
      /\ \A a : a # x - 4 => Same(h, k, a)
  BY <1>1, PutFacts
<1> HIDE DEF k
<1>3. /\ MemOK(g) /\ g.brk = k.brk /\ g.start = k.start
      /\ Get(g, x + s - 8) = s + bit
      /\ \A a : a # x + s - 8 => Same(k, g, a)
  BY <1>1, <1>2, PutFacts
<1>4. FTRP(k, x) = x + s - 8
  <2>1. GetSize(k, x - 4) = s
    BY <1>2, Unpack, Numbers DEF GetSize
  <2>2. QED
    BY <2>1, Numbers DEF FTRP, HDRP
<1>5. PutTags(h, x, s, bit) = g
  BY <1>4, Numbers DEF PutTags, HDRP, k
<1> HIDE DEF g
<1>6. Get(g, x - 4) = s + bit
  <2>1. x - 4 # x + s - 8
    OBVIOUS
  <2>2. QED
    BY <2>1, <1>2, <1>3 DEF Same
<1>7. \A a : a # x - 4 /\ a # x + s - 8 => Same(h, g, a)
  BY <1>2, <1>3 DEF Same
<1>8. QED
  BY <1>2, <1>3, <1>5, <1>6, <1>7

-----------------------------------------------------------------------------
(***************************************************************************)
(* The list.                                                               *)
(***************************************************************************)
(* the list with the prologue at its end                                   *)
At(l, i) == IF i <= Len(l) THEN l[i] ELSE Prologue

(* the links of mm_freeList.c:62-63, from start down to the prologue       *)
Chain(h, l) ==
  /\ h.start = At(l, 1) /\ Get(h, At(l, 1)) = NULL
  /\ \A i \in 1..Len(l) : /\ Get(h, At(l, i) + DSIZE) = At(l, i + 1)
                          /\ Get(h, At(l, i + 1)) = At(l, i)

Injective(l) == \A i, j \in DOMAIN l : l[i] = l[j] => i = j

(* No link of a listed block or of the prologue is kept in another one's   *)
(* place.                                                                  *)
LEMMA Spread ==
  ASSUME NEW G, Shape(G), NEW l \in Seq(BH!Blocks(G)), Injective(l)
  PROVE  /\ \A i \in 1..Len(l) + 1 :
              /\ At(l, i) \in Words /\ At(l, i) + 8 \in Words
              /\ At(l, i) \in Nat /\ At(l, i) # NULL
         /\ \A i, j \in 1..Len(l) + 1 :
              /\ i # j => At(l, i) # At(l, j)
              /\ At(l, i) # At(l, j) + 8
<1>1. Len(l) \in Nat /\ \A i \in 1..Len(l) : l[i] \in BH!Blocks(G)
  OBVIOUS
<1>2. \A i \in 1..Len(l) + 1 :
        \/ /\ i \in 1..Len(l) /\ At(l, i) = l[i] /\ At(l, i) \in BH!Blocks(G)
        \/ /\ i = Len(l) + 1 /\ At(l, i) = Prologue
  BY <1>1 DEF At
<1>3. ASSUME NEW i \in 1..Len(l) + 1
      PROVE  /\ At(l, i) \in Words /\ At(l, i) + 8 \in Words
             /\ At(l, i) \in Nat /\ At(l, i) # NULL
  <2>1. CASE At(l, i) \in BH!Blocks(G)
    BY <2>1, BlockWords, BlockNumbers, Numbers
  <2>2. CASE At(l, i) = Prologue
    BY <2>2, BaseWords, Numbers
  <2>3. QED
    BY <2>1, <2>2, <1>2
<1>4. ASSUME NEW i \in 1..Len(l) + 1, NEW j \in 1..Len(l) + 1
      PROVE  (i # j => At(l, i) # At(l, j)) /\ At(l, i) # At(l, j) + 8
  <2>1. \A x \in BH!Blocks(G) : x \in Nat /\ FirstBp <= x
    BY BlockNumbers
  <2>2. CASE At(l, i) \in BH!Blocks(G) /\ At(l, j) \in BH!Blocks(G)
             /\ At(l, i) # At(l, j)
    <3>1. Own(G, At(l, i), At(l, i)) /\ Own(G, At(l, j), At(l, j) + 8)
      BY <2>2, BlockWords
    <3>2. QED
      BY <3>1, <2>1, <2>2, Apart
  <2>3. CASE At(l, i) \in BH!Blocks(G) /\ At(l, i) = At(l, j)
    <3>1. i = j
      <4>1. At(l, j) # Prologue
        BY <2>1, <2>3, Numbers
      <4>2. QED
        BY <4>1, <2>1, <2>3, <1>2, Numbers DEF Injective
    <3>2. QED
      BY <3>1, <2>1, <2>3
  <2>4. CASE At(l, i) = Prologue
    <3>1. At(l, i) # At(l, j) + 8
      <4>1. At(l, j) \in Nat /\ (At(l, j) = Prologue \/ At(l, j) >= FirstBp)
        BY <2>1, <1>2, Numbers
      <4>2. QED
        BY <4>1, <2>4, Numbers
    <3>2. i = Len(l) + 1
      BY <2>1, <2>4, <1>2, Numbers
    <3>3. At(l, j) = Prologue => j = Len(l) + 1
      BY <2>1, <1>2, Numbers
    <3>4. QED
      BY <2>4, <3>1, <3>2, <3>3
  <2>5. CASE At(l, i) \in BH!Blocks(G) /\ At(l, j) = Prologue
    BY <2>1, <2>5, Numbers
  <2>6. QED
    BY <2>2, <2>3, <2>4, <2>5, <1>2
<1>5. QED
  BY <1>3, <1>4

(* The links are as they were when nobody wrote the words they are kept in.*)
LEMMA ChainKept ==
  ASSUME NEW h, NEW g, NEW S, NEW l \in Seq(S), Chain(h, l), g.start = h.start,
         \A i \in 1..Len(l) + 1 : Same(h, g, At(l, i)),
         \A i \in 1..Len(l) : Same(h, g, At(l, i) + 8)
  PROVE  Chain(g, l)
<1>1. Len(l) \in Nat
  OBVIOUS
<1>2. Get(g, At(l, 1)) = NULL
  BY <1>1 DEF Chain, Same
<1>3. ASSUME NEW i \in 1..Len(l)
      PROVE  /\ Get(g, At(l, i) + DSIZE) = At(l, i + 1)
             /\ Get(g, At(l, i + 1)) = At(l, i)
  <2>1. i + 1 \in 1..Len(l) + 1
    BY <1>1
  <2>2. QED
    BY <2>1, Numbers DEF Chain, Same
<1>4. QED
  BY <1>2, <1>3 DEF Chain

-----------------------------------------------------------------------------
(***************************************************************************)
(* The words of a heap of blocks.                                          *)
(***************************************************************************)
(* h holds the tags of the blocks D of G and the list l                    *)
Holds(h, G, D, l) ==
  /\ MemOK(h) /\ h.brk = G.brk
  /\ Get(h, FirstBp - DSIZE) = 0
  /\ Get(h, HDRP(Prologue)) = MIN_BLOCKSIZE + 1
  /\ l \in Seq(BH!Blocks(G)) /\ Injective(l) /\ Chain(h, l)
  /\ D \subseteq BH!Blocks(G) /\ \A x \in D : TagAt(h, G, x)

(* between h and g no word of the blocks D is written                      *)
Kept(h, g, G, D) ==
  \A x \in D : \A a \in Int : Own(G, x, a) => Same(h, g, a)

(* What two writers keep one after the other is kept.                      *)
LEMMA KeptTwice ==
  ASSUME NEW h, NEW k, NEW g, NEW G, NEW D, Kept(h, k, G, D), Kept(k, g, G, D)
  PROVE  Kept(h, g, G, D)
BY DEF Kept, Same

(* PUT of both tags of x leaves the other tags and the links alone.        *)
LEMMA TagBlock ==
  ASSUME NEW G, Shape(G), NEW h, NEW D, NEW l, Holds(h, G, D, l),
         NEW x \in BH!Blocks(G)
  PROVE  LET g == PutTags(h, x, G.size[x], IF x \in G.alloc THEN 1 ELSE 0)
         IN /\ Holds(g, G, D \cup {x}, l)
            /\ Get(g, G.brk - 4) = Get(h, G.brk - 4)
            /\ Kept(h, g, G, BH!Blocks(G) \ {x})
<1> DEFINE bit == IF x \in G.alloc THEN 1 ELSE 0
           g == PutTags(h, x, G.size[x], bit)
           f == x + G.size[x] - 8
<1>1. /\ x \in Nat /\ G.size[x] \in Nat /\ G.size[x] % 8 = 0
      /\ G.size[x] >= 24 /\ G.brk \in Nat
      /\ x - 4 \in Words /\ f \in Words
      /\ Own(G, x, x - 4) /\ Own(G, x, f)
  BY BlockNumbers, BlockWords
<1>2. bit \in {0, 1}
  OBVIOUS
<1>3. /\ MemOK(g) /\ g.brk = h.brk /\ g.start = h.start
      /\ Get(g, x - 4) = G.size[x] + bit /\ Get(g, f) = G.size[x] + bit
      /\ \A a : a # x - 4 /\ a # f => Same(h, g, a)
  <2> DEFINE s == G.size[x]
             u == PutTags(h, x, s, bit)
  <2>1. MemOK(h)
    BY DEF Holds
  <2>2. /\ s \in Nat /\ s % 8 = 0 /\ s >= 24 /\ x \in Nat
        /\ x - 4 \in Words /\ x + s - 8 \in Words
    BY <1>1
  <2> HIDE DEF bit, s
  <2>3. /\ MemOK(u) /\ u.brk = h.brk /\ u.start = h.start
        /\ Get(u, x - 4) = s + bit /\ Get(u, x + s - 8) = s + bit
        /\ \A a : a # x - 4 /\ a # x + s - 8 => Same(h, u, a)
    BY <1>2, <2>1, <2>2, PutTagsFacts
  <2>4. g = u /\ f = x + s - 8 /\ s = G.size[x]
    BY DEF s
  <2> HIDE DEF g, u, f
  <2>5. QED
    BY <2>3, <2>4
<1> HIDE DEF g
<1>4. f \in Int /\ x - 4 \in Int
  BY <1>1
<1>5. \A a \in Int : ~Own(G, x, a) => Same(h, g, a)
  BY <1>1, <1>3
<1>6. Kept(h, g, G, BH!Blocks(G) \ {x})
  BY <1>5, Apart DEF Kept
<1>7. ASSUME NEW a \in Int, a < FirstBp - 4 \/ a >= G.brk - 4
      PROVE  Same(h, g, a)
  BY <1>5, <1>7, OutsideBlocks
<1>8. /\ Get(g, FirstBp - DSIZE) = 0
      /\ Get(g, HDRP(Prologue)) = MIN_BLOCKSIZE + 1
      /\ Get(g, G.brk - 4) = Get(h, G.brk - 4)
  <2>1. Same(h, g, FirstBp - 8) /\ Same(h, g, Prologue - 4)
    BY <1>7, Numbers
  <2>2. Same(h, g, G.brk - 4)
    BY <1>1, <1>7
  <2>3. QED
    BY <2>1, <2>2, Numbers DEF Holds, Same, HDRP
<1>9. Chain(g, l)
  <2>0. l \in Seq(BH!Blocks(G)) /\ Chain(h, l)
    BY DEF Holds
  <2>1. ASSUME NEW y \in BH!Blocks(G)
        PROVE  Same(h, g, y) /\ Same(h, g, y + 8)
    <3>1. /\ Own(G, y, y) /\ Own(G, y, y + 8) /\ y \in Nat
          /\ y \in Words /\ y + 8 \in Words
      BY BlockWords, BlockNumbers
    <3>2. CASE y = x
      <4>1. x # x - 4 /\ x + 8 # x - 4 /\ x # f /\ x + 8 # f
        BY <1>1
      <4>2. QED
        BY <4>1, <3>2, <1>3
    <3>3. CASE y # x
      BY <3>1, <3>3, <1>5, Apart
    <3>4. QED
      BY <3>2, <3>3
  <2>2. Same(h, g, Prologue)
    BY <1>7, Numbers
  <2>3. \A i \in 1..Len(l) : l[i] \in BH!Blocks(G)
    BY <2>0
  <2>4. \A i \in 1..Len(l) + 1 : Same(h, g, At(l, i))
    BY <2>0, <2>1, <2>2, <2>3 DEF At
  <2>5. \A i \in 1..Len(l) : Same(h, g, At(l, i) + 8)
    BY <2>0, <2>1, <2>3 DEF At
  <2>6. QED
    BY <2>0, <2>4, <2>5, <1>3, ChainKept
<1>10. TagAt(g, G, x)
  BY <1>3, Numbers DEF TagAt, Tag, HDRP
<1>11. ASSUME NEW y \in D, y # x
       PROVE  TagAt(g, G, y)
  <2>1. TagAt(h, G, y) /\ y \in BH!Blocks(G)
    BY DEF Holds
  <2>2. /\ Own(G, y, y - 4) /\ Own(G, y, y + G.size[y] - 8)
        /\ y \in Nat /\ G.size[y] \in Nat
    BY <2>1, BlockWords, BlockNumbers
  <2>3. Same(h, g, y - 4) /\ Same(h, g, y + G.size[y] - 8)
    BY <2>1, <2>2, <1>6, <1>11 DEF Kept
  <2>4. QED
    BY <2>1, <2>3, Numbers DEF TagAt, Same, HDRP
<1>12. Holds(g, G, D \cup {x}, l)
  BY <1>3, <1>8, <1>9, <1>10, <1>11 DEF Holds
<1>13. QED
  BY <1>6, <1>8, <1>12 DEF g

-----------------------------------------------------------------------------
(***************************************************************************)
(* removeBlock and insertBlock.                                            *)
(***************************************************************************)
(* The list without its i-th block.                                        *)
LEMMA ShorterList ==
  ASSUME NEW S, NEW l \in Seq(S), Injective(l), NEW i \in 1..Len(l)
  PROVE  LET t == BH!Without(l, l[i])
         IN /\ t \in Seq(S) /\ Len(t) = Len(l) - 1 /\ Injective(t)
            /\ \A j \in 1..Len(l) :
                 At(t, j) = IF j < i THEN At(l, j) ELSE At(l, j + 1)
            /\ \A j \in 1..Len(t) : t[j] = IF j < i THEN l[j] ELSE l[j + 1]
<1> DEFINE t == BH!Without(l, l[i])
<1>1. (CHOOSE k \in DOMAIN l : l[k] = l[i]) = i
  BY DEF Injective
<1>2. t = BH!RemoveAt(l, i)
  BY <1>1 DEF BH!Without
<1> HIDE DEF t
<1>3. /\ t \in Seq(S) /\ Len(t) = Len(l) - 1
      /\ \A j \in 1..Len(l) - 1 : t[j] = IF j < i THEN l[j] ELSE l[j + 1]
  BY <1>2, BlockHeapOK, BH!RemoveAtFacts
<1>4. Len(l) \in Nat /\ DOMAIN l = 1..Len(l) /\ DOMAIN t = 1..Len(l) - 1
  BY <1>3
<1>5. \A j \in 1..Len(l) :
        At(t, j) = IF j < i THEN At(l, j) ELSE At(l, j + 1)
  <2>1. ASSUME NEW j \in 1..Len(l)
        PROVE  At(t, j) = IF j < i THEN At(l, j) ELSE At(l, j + 1)
    <3>1. CASE j = Len(l)
      <4>1. ~(j <= Len(t)) /\ ~(j + 1 <= Len(l)) /\ ~(j < i)
        BY <3>1, <1>3, <1>4
      <4>2. QED
        BY <4>1 DEF At
    <3>2. CASE j < Len(l)
      BY <3>2, <1>3, <1>4 DEF At
    <3>3. j = Len(l) \/ j < Len(l)
      OBVIOUS
    <3>4. QED
      BY <3>1, <3>2, <3>3
  <2>2. QED
    BY <2>1
<1>6. Injective(t)
  <2>1. ASSUME NEW j \in 1..Len(l) - 1, NEW k \in 1..Len(l) - 1, t[j] = t[k]
        PROVE  j = k
    <3>1. CASE j < i /\ k < i
      <4>1. l[j] = l[k] /\ j \in DOMAIN l /\ k \in DOMAIN l
        BY <3>1, <2>1, <1>3, <1>4
      <4>2. QED
        BY <4>1, <1>4 DEF Injective
    <3>2. CASE j < i /\ k >= i
      <4>1. l[j] = l[k + 1] /\ j \in DOMAIN l /\ k + 1 \in DOMAIN l
        BY <3>2, <2>1, <1>3, <1>4
      <4>2. QED
        BY <4>1, <3>2, <1>4 DEF Injective
    <3>3. CASE j >= i /\ k < i
      <4>1. l[j + 1] = l[k] /\ j + 1 \in DOMAIN l /\ k \in DOMAIN l
        BY <3>3, <2>1, <1>3, <1>4
      <4>2. QED
        BY <4>1, <3>3, <1>4 DEF Injective
    <3>4. CASE j >= i /\ k >= i
      <4>1. l[j + 1] = l[k + 1] /\ j + 1 \in DOMAIN l /\ k + 1 \in DOMAIN l
        BY <3>4, <2>1, <1>3, <1>4
      <4>2. j + 1 = k + 1
        BY <4>1 DEF Injective
      <4>3. QED
        BY <4>2
    <3>5. QED
      BY <3>1, <3>2, <3>3, <3>4
  <2>2. QED
    BY <2>1, <1>4 DEF Injective
<1>7. QED
  BY <1>3, <1>5, <1>6 DEF t

(* What the assignments of removeBlock (mm_freeList.c:338-349) write.      *)
LEMMA Unlink ==
  ASSUME NEW G, Shape(G), NEW h, NEW D, NEW l, Holds(h, G, D, l),
         NEW i \in 1..Len(l)
  PROVE  LET g == RemoveBlock(h, l[i])
             p == At(l, i + 1)
             n == At(l, i - 1)
         IN /\ MemOK(g) /\ g.brk = h.brk
            /\ g.start = (IF i = 1 THEN p ELSE h.start)
            /\ Get(g, p) = (IF i = 1 THEN NULL ELSE n)
            /\ i > 1 => Get(g, n + 8) = p
            /\ \A a : a # p /\ (i > 1 => a # n + 8) => Same(h, g, a)
<1> DEFINE b == l[i]
           p == At(l, i + 1)
           n == At(l, i - 1)
           g == RemoveBlock(h, b)
<1>1. /\ l \in Seq(BH!Blocks(G)) /\ Len(l) \in Nat /\ MemOK(h) /\ Chain(h, l)
      /\ Injective(l)
  BY DEF Holds
<1>2. /\ i \in 1..Len(l) + 1 /\ i + 1 \in 1..Len(l) + 1
      /\ i > 1 => i - 1 \in 1..Len(l) + 1 /\ i - 1 \in 1..Len(l)
      /\ At(l, i) = b
  BY <1>1 DEF At
<1>3. /\ p \in Words /\ p \in Nat /\ p # b /\ b # p + 8 /\ p # b + 8 /\ b \in Nat
      /\ i > 1 => /\ n \in Words /\ n + 8 \in Words /\ n \in Nat /\ n # NULL
                  /\ n # b /\ b # n + 8 /\ p # n /\ p # n + 8
  <2>1. /\ \A j \in 1..Len(l) + 1 :
              /\ At(l, j) \in Words /\ At(l, j) + 8 \in Words
              /\ At(l, j) \in Nat /\ At(l, j) # NULL
        /\ \A j, k \in 1..Len(l) + 1 :
              /\ j # k => At(l, j) # At(l, k)
              /\ At(l, j) # At(l, k) + 8
    BY <1>1, Spread
  <2>2. i \in Int /\ i # i + 1 /\ i # i - 1 /\ i - 1 # i + 1
    OBVIOUS
  <2>3. /\ p \in Words /\ p \in Nat /\ p # b /\ b # p + 8 /\ p # b + 8
        /\ b \in Nat
    BY <2>1, <2>2, <1>2
  <2>4. ASSUME i > 1
        PROVE  /\ n \in Words /\ n + 8 \in Words /\ n \in Nat /\ n # NULL
               /\ n # b /\ b # n + 8 /\ p # n /\ p # n + 8
    BY <2>1, <2>2, <2>4, <1>2
  <2> HIDE DEF p, n, b
  <2>5. QED
    BY <2>3, <2>4
<1>4. /\ PrevBlkp(h, b) = p
      /\ i = 1 => NextBlkp(h, b) = NULL
      /\ i > 1 => NextBlkp(h, b) = n
  <2>1. i > 1 => Get(h, At(l, (i - 1) + 1)) = At(l, i - 1)
    BY <1>1, <1>2 DEF Chain
  <2>2. QED
    BY <2>1, <1>1, <1>2 DEF Chain, PrevBlkp, NextBlkp
<1> HIDE DEF b, p, n, g
<1>5. CASE i = 1
  <2> DEFINE k == [h EXCEPT !.start = p]
  <2>1. /\ MemOK(k) /\ k.start = p /\ k.brk = h.brk
        /\ \A a : Same(h, k, a)
    BY <1>1, StartIs
  <2>2. g = SetNext(k, PrevBlkp(k, b), NextBlkp(k, b))
    BY <1>4, <1>5 DEF RemoveBlock, g
  <2> HIDE DEF k
  <2>3. PrevBlkp(k, b) = p /\ NextBlkp(k, b) = NULL
    BY <2>1, <1>4, <1>5 DEF PrevBlkp, NextBlkp, Same
  <2>4. g = Put(k, p, 0)
    BY <2>2, <2>3, Numbers DEF SetNext
  <2>5. /\ MemOK(g) /\ g.brk = k.brk /\ g.start = k.start /\ Get(g, p) = 0
        /\ \A a : a # p => Same(k, g, a)
    <3>1. 0 \in Nat /\ p \in Words /\ MemOK(k)
      BY <2>1, <1>3
    <3>2. QED
      BY <3>1, <2>4, PutFacts
  <2>6. \A a : a # p => Same(h, g, a)
    BY <2>1, <2>5 DEF Same
  <2>7. QED
    BY <2>1, <2>5, <2>6, <1>5, Numbers DEF b, p, n, g
<1>6. CASE i > 1
  <2> DEFINE k == Put(h, n + 8, p)
  <2>1. /\ MemOK(k) /\ k.start = h.start /\ k.brk = h.brk /\ Get(k, n + 8) = p
        /\ \A a : a # n + 8 => Same(h, k, a)
    BY <1>1, <1>3, <1>6, PutFacts
  <2>2. g = SetNext(k, PrevBlkp(k, b), NextBlkp(k, b))
    <3>1. NextBlkp(h, b) = n /\ NextBlkp(h, b) # NULL /\ PrevBlkp(h, b) = p
      BY <1>3, <1>4, <1>6
    <3>2. SetPrev(h, n, p) = k
      BY Numbers DEF SetPrev
    <3> HIDE DEF k
    <3>3. QED
      BY <3>1, <3>2 DEF RemoveBlock, g
  <2> HIDE DEF k
  <2>3. PrevBlkp(k, b) = p /\ NextBlkp(k, b) = n
    <3>1. b # n + 8 /\ b + 8 # n + 8
      BY <1>3, <1>6
    <3>2. QED
      BY <3>1, <2>1, <1>4, <1>6, Numbers DEF PrevBlkp, NextBlkp, Same
  <2>4. g = Put(k, p, n)
    BY <2>2, <2>3 DEF SetNext
  <2>5. /\ MemOK(g) /\ g.brk = k.brk /\ g.start = k.start /\ Get(g, p) = n
        /\ \A a : a # p => Same(k, g, a)
    <3>1. n \in Nat /\ p \in Words /\ MemOK(k)
      BY <2>1, <1>3, <1>6
    <3>2. QED
      BY <3>1, <2>4, PutFacts
  <2>6. \A a : a # p /\ a # n + 8 => Same(h, g, a)
    BY <2>1, <2>5 DEF Same
  <2>7. Get(g, n + 8) = p
    BY <2>1, <2>5, <1>3, <1>6 DEF Same
  <2>8. QED
    BY <2>1, <2>5, <2>6, <2>7, <1>6 DEF b, p, n, g
<1>7. QED
  BY <1>5, <1>6

(* A function that writes links only, of blocks of L and of the prologue,  *)
(* leaves all the rest alone.                                              *)
LEMMA LinkWrites ==
  ASSUME NEW G, Shape(G), NEW h, NEW g, NEW L, L \subseteq BH!Blocks(G),
         \A a \in Int : a # Prologue /\ (\A x \in L : a # x /\ a # x + 8)
                       => Same(h, g, a)
  PROVE  /\ Get(g, FirstBp - DSIZE) = Get(h, FirstBp - DSIZE)
         /\ Get(g, HDRP(Prologue)) = Get(h, HDRP(Prologue))
         /\ Get(g, G.brk - 4) = Get(h, G.brk - 4)
         /\ \A y \in BH!Blocks(G) : TagAt(h, G, y) => TagAt(g, G, y)
         /\ \A E : E \subseteq BH!Blocks(G) \ L => Kept(h, g, G, E)
<1>1. ASSUME NEW E, E \subseteq BH!Blocks(G) \ L
      PROVE  Kept(h, g, G, E)
  <2>1. ASSUME NEW x \in E, NEW a \in Int, Own(G, x, a)
        PROVE  Same(h, g, a)
    <3>0. x \in BH!Blocks(G) /\ x \notin L
      BY <1>1
    <3>1. a # Prologue
      BY <2>1, <3>0, OutsideBlocks, Numbers
    <3>2. ASSUME NEW y \in L
          PROVE  a # y /\ a # y + 8
      <4>1. ~Own(G, y, a)
        BY <3>0, <2>1, Apart
      <4>2. QED
        BY <4>1, BlockWords
    <3>3. QED
      BY <3>1, <3>2
  <2>2. QED
    BY <2>1 DEF Kept
<1>2. ASSUME NEW a \in Int, a # Prologue, a < FirstBp - 4 \/ a >= G.brk - 4
      PROVE  Same(h, g, a)
  <2>1. ASSUME NEW y \in L
        PROVE  a # y /\ a # y + 8
    <3>1. ~Own(G, y, a)
      BY <1>2, OutsideBlocks
    <3>2. QED
      BY <3>1, BlockWords
  <2>2. QED
    BY <2>1, <1>2
<1>3. /\ Get(g, FirstBp - DSIZE) = Get(h, FirstBp - DSIZE)
      /\ Get(g, HDRP(Prologue)) = Get(h, HDRP(Prologue))
      /\ Get(g, G.brk - 4) = Get(h, G.brk - 4)
  <2>1. Same(h, g, FirstBp - 8) /\ Same(h, g, Prologue - 4)
    BY <1>2, Numbers
  <2>2. Same(h, g, G.brk - 4)
    <3>1. FirstBp \in BH!Blocks(G)
      BY DEF Shape, BH!Tiled
    <3>2. G.brk \in Nat /\ FirstBp + 24 <= G.brk
      BY <3>1, BlockNumbers, Numbers
    <3>3. QED
      BY <3>2, <1>2, Numbers
  <2>3. QED
    BY <2>1, <2>2, Numbers DEF Same, HDRP
<1>4. ASSUME NEW y \in BH!Blocks(G), TagAt(h, G, y)
      PROVE  TagAt(g, G, y)
  <2>1. /\ Own(G, y, y - 4) /\ Own(G, y, y + G.size[y] - 8)
        /\ y \in Nat /\ G.size[y] \in Nat /\ G.size[y] >= 24 /\ FirstBp <= y
    BY BlockWords, BlockNumbers
  <2>2. ASSUME NEW a \in {y - 4, y + G.size[y] - 8}
        PROVE  Same(h, g, a)
    <3>1. a \in Int /\ a # Prologue /\ Own(G, y, a)
      BY <2>1, Numbers
    <3>2. ASSUME NEW x \in L
          PROVE  a # x /\ a # x + 8
      <4>1. CASE x = y
        BY <4>1, <2>1
      <4>2. CASE x # y
        <5>1. ~Own(G, x, a)
          BY <4>2, <3>1, Apart
        <5>2. QED
          BY <5>1, BlockWords
      <4>3. QED
        BY <4>1, <4>2
    <3>3. QED
      BY <3>1, <3>2
  <2>3. QED
    BY <1>4, <2>2, Numbers DEF TagAt, Same, HDRP
<1>5. QED
  BY <1>1, <1>3, <1>4

(* removeBlock writes links of listed blocks and of the prologue, and      *)
(* leaves the list without its block.                                      *)
LEMMA RemoveHolds ==
  ASSUME NEW G, Shape(G), NEW h, NEW D, NEW l, Holds(h, G, D, l),
         NEW i \in 1..Len(l)
  PROVE  LET g == RemoveBlock(h, l[i])
         IN /\ Holds(g, G, D, BH!Without(l, l[i]))
            /\ Get(g, G.brk - 4) = Get(h, G.brk - 4)
            /\ \A E : E \subseteq BH!Blocks(G)
                      /\ (\A j \in 1..Len(l) : l[j] \notin E)
                      => Kept(h, g, G, E)
<1> DEFINE b == l[i]
           p == At(l, i + 1)
           n == At(l, i - 1)
           g == RemoveBlock(h, b)
           t == BH!Without(l, b)
<1>1. /\ l \in Seq(BH!Blocks(G)) /\ Len(l) \in Nat /\ MemOK(h) /\ Chain(h, l)
      /\ Injective(l) /\ h.brk = G.brk /\ D \subseteq BH!Blocks(G)
      /\ \A x \in D : TagAt(h, G, x)
  BY DEF Holds
<1>2. /\ MemOK(g) /\ g.brk = h.brk
      /\ g.start = (IF i = 1 THEN p ELSE h.start)
      /\ Get(g, p) = (IF i = 1 THEN NULL ELSE n)
      /\ i > 1 => Get(g, n + 8) = p
      /\ \A a : a # p /\ (i > 1 => a # n + 8) => Same(h, g, a)
  BY Unlink
<1> HIDE DEF g
<1>3. /\ t \in Seq(BH!Blocks(G)) /\ Len(t) = Len(l) - 1 /\ Injective(t)
      /\ \A j \in 1..Len(l) :
           At(t, j) = IF j < i THEN At(l, j) ELSE At(l, j + 1)
  BY <1>1, ShorterList
<1> HIDE DEF t
<1>4. /\ \A j \in 1..Len(l) + 1 : At(l, j) \in Nat
      /\ \A j, k \in 1..Len(l) + 1 :
           /\ j # k => At(l, j) # At(l, k)
           /\ At(l, j) # At(l, k) + 8
  BY <1>1, Spread
<1>5. /\ i + 1 \in 1..Len(l) + 1
      /\ i > 1 => i - 1 \in 1..Len(l) + 1 /\ i - 1 \in 1..Len(l)
  BY <1>1
<1>6. /\ \A j \in 1..Len(l) + 1 :
           /\ j # i + 1 => At(l, j) # p
           /\ At(l, j) + 8 # p
      /\ i > 1 => \A j \in 1..Len(l) + 1 :
                    /\ j # i - 1 => At(l, j) + 8 # n + 8
                    /\ At(l, j) # n + 8
  <2>1. ASSUME NEW j \in 1..Len(l) + 1
        PROVE  (j # i + 1 => At(l, j) # p) /\ At(l, j) + 8 # p
    BY <1>4, <1>5
  <2>2. ASSUME NEW j \in 1..Len(l) + 1, i > 1
        PROVE  (j # i - 1 => At(l, j) + 8 # n + 8) /\ At(l, j) # n + 8
    <3>1. At(l, j) \in Nat /\ n \in Nat
      BY <2>2, <1>4, <1>5
    <3>2. (j # i - 1 => At(l, j) # n) /\ At(l, j) # n + 8
      BY <2>2, <1>4, <1>5
    <3>3. QED
      BY <3>1, <3>2
  <2>3. QED
    BY <2>1, <2>2
<1>7. Chain(g, t)
  <2>1. g.start = At(t, 1)
    <3>1. 1 \in 1..Len(l)
      BY <1>1
    <3>2. At(t, 1) = IF 1 < i THEN At(l, 1) ELSE At(l, 2)
      BY <3>1, <1>3
    <3>3. h.start = At(l, 1)
      BY <1>1 DEF Chain
    <3>4. QED
      BY <3>2, <3>3, <1>2
  <2>2. Get(g, At(t, 1)) = NULL
    <3>1. CASE i = 1
      BY <3>1, <2>1, <1>2
    <3>2. CASE i > 1
      <4>1. /\ 1 \in 1..Len(l) + 1 /\ 1 # i + 1
            /\ At(l, 1) # p /\ At(l, 1) # n + 8
        BY <3>2, <1>1, <1>6
      <4>2. At(t, 1) = At(l, 1)
        BY <3>2, <1>1, <1>3
      <4>3. Get(h, At(l, 1)) = NULL
        BY <1>1 DEF Chain
      <4>4. QED
        BY <4>1, <4>2, <4>3, <1>2 DEF Same
    <3>3. QED
      BY <3>1, <3>2
  <2>3. ASSUME NEW j \in 1..Len(l) - 1
        PROVE  /\ Get(g, At(t, j) + DSIZE) = At(t, j + 1)
               /\ Get(g, At(t, j + 1)) = At(t, j)
    <3>0. /\ j \in 1..Len(l) /\ j + 1 \in 1..Len(l) /\ j \in 1..Len(l) + 1
          /\ j + 1 \in 1..Len(l) + 1 /\ j + 2 \in 1..Len(l) + 1
      BY <1>1
    <3>1. /\ At(t, j) = IF j < i THEN At(l, j) ELSE At(l, j + 1)
          /\ At(t, j + 1) = IF j + 1 < i THEN At(l, j + 1) ELSE At(l, (j + 1) + 1)
      BY <3>0, <1>3
    <3>2. CASE j + 1 < i
      <4>1. At(t, j) = At(l, j) /\ At(t, j + 1) = At(l, j + 1)
        BY <3>1, <3>2
      <4>2. /\ At(l, j) + 8 # p /\ At(l, j) + 8 # n + 8
            /\ At(l, j + 1) # p /\ At(l, j + 1) # n + 8
        <5>1. j # i - 1 /\ j + 1 # i + 1 /\ i > 1
          BY <3>0, <3>2
        <5>2. QED
          BY <5>1, <3>0, <1>6
      <4>3. /\ Get(h, At(l, j) + 8) = At(l, j + 1)
            /\ Get(h, At(l, j + 1)) = At(l, j)
        BY <3>0, <1>1, Numbers DEF Chain
      <4>4. QED
        BY <4>1, <4>2, <4>3, <1>2, Numbers DEF Same
    <3>3. CASE j + 1 = i
      <4>1. At(t, j) = n /\ At(t, j + 1) = p /\ i > 1
        BY <3>0, <3>1, <3>3
      <4>2. QED
        BY <4>1, <1>2, Numbers
    <3>4. CASE j + 1 > i
      <4>1. At(t, j) = At(l, j + 1) /\ At(t, j + 1) = At(l, j + 2)
        BY <3>0, <3>1, <3>4
      <4>2. /\ At(l, j + 1) + 8 # p /\ At(l, j + 2) # p
            /\ i > 1 => At(l, j + 1) + 8 # n + 8 /\ At(l, j + 2) # n + 8
        <5>1. j + 1 # i - 1 /\ j + 2 # i + 1
          BY <3>0, <3>4
        <5>2. QED
          BY <5>1, <3>0, <1>6
      <4>3. /\ Get(h, At(l, j + 1) + 8) = At(l, j + 2)
            /\ Get(h, At(l, j + 2)) = At(l, j + 1)
        <5>1. (j + 1) + 1 = j + 2
          BY <3>0
        <5>2. QED
          BY <5>1, <3>0, <1>1, Numbers DEF Chain
      <4>4. QED
        BY <4>1, <4>2, <4>3, <1>2, Numbers DEF Same
    <3>5. QED
      BY <3>0, <3>2, <3>3, <3>4
  <2>4. QED
    BY <2>1, <2>2, <2>3, <1>3 DEF Chain
<1>70. \A j \in 1..Len(l) + 1 :
        (j <= Len(l) /\ At(l, j) = l[j] /\ l[j] \in BH!Blocks(G))
        \/ At(l, j) = Prologue
  BY <1>1 DEF At
<1>8. /\ p = Prologue \/ \E j \in 1..Len(l) : p = l[j] /\ l[j] \in BH!Blocks(G)
      /\ i > 1 => \E j \in 1..Len(l) : n = l[j] /\ l[j] \in BH!Blocks(G)
  <2>1. p = Prologue \/ \E j \in 1..Len(l) : p = l[j] /\ l[j] \in BH!Blocks(G)
    <3>1. CASE p = Prologue
      BY <3>1
    <3>2. CASE p # Prologue
      <4>1. /\ i + 1 \in 1..Len(l) /\ p = l[i + 1]
            /\ l[i + 1] \in BH!Blocks(G)
        BY <3>2, <1>5, <1>70
      <4>2. QED
        BY <4>1
    <3>3. QED
      BY <3>1, <3>2
  <2>2. ASSUME i > 1
        PROVE  \E j \in 1..Len(l) : n = l[j] /\ l[j] \in BH!Blocks(G)
    <3>1. i - 1 \in 1..Len(l) /\ n = l[i - 1] /\ l[i - 1] \in BH!Blocks(G)
      BY <2>2, <1>1, <1>5 DEF At
    <3>2. QED
      BY <3>1
  <2>3. QED
    BY <2>1, <2>2
<1>9. ASSUME NEW a \in Int,
             a # Prologue,
             \A x \in BH!Blocks(G) : \A j \in 1..Len(l) :
               x = l[j] => a # x /\ a # x + 8
      PROVE  Same(h, g, a)
  BY <1>2, <1>8, <1>9
<1>10. LET L == {l[j] : j \in 1..Len(l)}
       IN /\ L \subseteq BH!Blocks(G)
          /\ \A a \in Int : a # Prologue /\ (\A x \in L : a # x /\ a # x + 8)
                           => Same(h, g, a)
  BY <1>1, <1>9
<1>11. /\ Get(g, FirstBp - DSIZE) = 0
       /\ Get(g, HDRP(Prologue)) = MIN_BLOCKSIZE + 1
       /\ Get(g, G.brk - 4) = Get(h, G.brk - 4)
       /\ \A y \in D : TagAt(g, G, y)
       /\ \A E : E \subseteq BH!Blocks(G) /\ (\A j \in 1..Len(l) : l[j] \notin E)
                => Kept(h, g, G, E)
  <2> DEFINE L == {l[j] : j \in 1..Len(l)}
  <2>1. \A E : E \subseteq BH!Blocks(G) /\ (\A j \in 1..Len(l) : l[j] \notin E)
              => E \subseteq BH!Blocks(G) \ L
    OBVIOUS
  <2>2. /\ L \subseteq BH!Blocks(G)
        /\ \A a \in Int : a # Prologue /\ (\A x \in L : a # x /\ a # x + 8)
                         => Same(h, g, a)
    BY <1>10
  <2> HIDE DEF L
  <2>3. /\ Get(g, FirstBp - DSIZE) = Get(h, FirstBp - DSIZE)
        /\ Get(g, HDRP(Prologue)) = Get(h, HDRP(Prologue))
        /\ Get(g, G.brk - 4) = Get(h, G.brk - 4)
        /\ \A y \in BH!Blocks(G) : TagAt(h, G, y) => TagAt(g, G, y)
        /\ \A E : E \subseteq BH!Blocks(G) \ L => Kept(h, g, G, E)
    BY <2>2, LinkWrites
  <2>4. QED
    BY <2>1, <2>3, <1>1 DEF Holds
<1>12. Holds(g, G, D, t)
  BY <1>1, <1>2, <1>3, <1>7, <1>11 DEF Holds
<1>13. QED
  BY <1>11, <1>12 DEF g, t

(* The list with one more block in front.                                  *)
LEMMA LongerList ==
  ASSUME NEW S, NEW l \in Seq(S), Injective(l), NEW b \in S,
         \A j \in 1..Len(l) : l[j] # b
  PROVE  LET t == <<b>> \o l
         IN /\ t \in Seq(S) /\ Len(t) = Len(l) + 1 /\ Injective(t)
            /\ At(t, 1) = b /\ \A j \in 2..Len(t) + 1 : At(t, j) = At(l, j - 1)
            /\ \A j \in 1..Len(t) : t[j] = b \/ \E k \in 1..Len(l) : t[j] = l[k]
<1> DEFINE t == <<b>> \o l
<1>1. /\ t \in Seq(S) /\ Len(t) = Len(l) + 1 /\ Len(l) \in Nat
      /\ t[1] = b /\ \A j \in 2..Len(l) + 1 : t[j] = l[j - 1]
      /\ DOMAIN t = 1..Len(l) + 1 /\ DOMAIN l = 1..Len(l)
  OBVIOUS
<1> HIDE DEF t
<1>2. At(t, 1) = b
  BY <1>1 DEF At
<1>3. ASSUME NEW j \in 2..Len(l) + 2
      PROVE  At(t, j) = At(l, j - 1)
  <2>1. CASE j <= Len(l) + 1
    BY <2>1, <1>1 DEF At
  <2>2. CASE j = Len(l) + 2
    <3>1. ~(j <= Len(t)) /\ ~(j - 1 <= Len(l))
      BY <2>2, <1>1
    <3>2. QED
      BY <3>1 DEF At
  <2>3. QED
    BY <2>1, <2>2, <1>1
<1>4. ASSUME NEW i \in 1..Len(l) + 1, NEW j \in 1..Len(l) + 1, t[i] = t[j]
      PROVE  i = j
  <2>1. CASE i = 1 /\ j = 1
    BY <2>1
  <2>2. CASE i = 1 /\ j # 1
    <3>1. j - 1 \in 1..Len(l) /\ t[j] = l[j - 1] /\ t[i] = b
      BY <2>2, <1>1
    <3>2. QED
      BY <3>1, <1>4
  <2>3. CASE i # 1 /\ j = 1
    <3>1. i - 1 \in 1..Len(l) /\ t[i] = l[i - 1] /\ t[j] = b
      BY <2>3, <1>1
    <3>2. QED
      BY <3>1, <1>4
  <2>4. CASE i # 1 /\ j # 1
    <3>1. /\ i - 1 \in DOMAIN l /\ j - 1 \in DOMAIN l
          /\ l[i - 1] = l[j - 1]
      BY <2>4, <1>1, <1>4
    <3>2. i - 1 = j - 1
      BY <3>1 DEF Injective
    <3>3. QED
      BY <3>2
  <2>5. QED
    BY <2>1, <2>2, <2>3, <2>4
<1>5. ASSUME NEW j \in 1..Len(l) + 1
      PROVE  t[j] = b \/ \E k \in 1..Len(l) : t[j] = l[k]
  <2>1. j = 1 \/ (j - 1 \in 1..Len(l) /\ t[j] = l[j - 1])
    BY <1>1
  <2>2. QED
    BY <2>1, <1>1
<1>6. Injective(t)
  BY <1>1, <1>4 DEF Injective
<1>7. \A j \in 2..Len(t) + 1 : At(t, j) = At(l, j - 1)
  BY <1>1, <1>3
<1>8. QED
  BY <1>1, <1>2, <1>5, <1>6, <1>7 DEF t

(* insertBlock makes a block the head of the list (mm_freeList.c:322-328). *)
LEMMA InsertHolds ==
  ASSUME NEW G, Shape(G), NEW h, NEW D, NEW l, Holds(h, G, D, l),
         NEW b \in BH!Blocks(G), \A j \in 1..Len(l) : l[j] # b
  PROVE  LET g == InsertBlock(h, b)
         IN /\ Holds(g, G, D, <<b>> \o l)
            /\ Get(g, G.brk - 4) = Get(h, G.brk - 4)
            /\ \A E : /\ E \subseteq BH!Blocks(G) \ {b}
                      /\ \A j \in 1..Len(l) : l[j] \notin E
                      => Kept(h, g, G, E)
<1> DEFINE t == <<b>> \o l
           p == At(l, 1)
           k1 == Put(h, b + 8, p)
           k2 == Put(k1, p, b)
           k3 == Put(k2, b, 0)
           g == [k3 EXCEPT !.start = b]
<1>1. /\ l \in Seq(BH!Blocks(G)) /\ Len(l) \in Nat /\ MemOK(h) /\ Chain(h, l)
      /\ Injective(l) /\ h.brk = G.brk /\ D \subseteq BH!Blocks(G)
      /\ \A x \in D : TagAt(h, G, x)
  BY DEF Holds
<1>2. /\ t \in Seq(BH!Blocks(G)) /\ Len(t) = Len(l) + 1 /\ Injective(t)
      /\ At(t, 1) = b /\ \A j \in 2..Len(t) + 1 : At(t, j) = At(l, j - 1)
      /\ \A j \in 1..Len(t) : t[j] = b \/ \E k \in 1..Len(l) : t[j] = l[k]
  BY <1>1, LongerList
<1> HIDE DEF t
<1>3. /\ \A j \in 1..Len(t) + 1 : /\ At(t, j) \in Words /\ At(t, j) + 8 \in Words
                                  /\ At(t, j) \in Nat
      /\ \A i, j \in 1..Len(t) + 1 : /\ i # j => At(t, i) # At(t, j)
                                     /\ At(t, i) # At(t, j) + 8
  BY <1>2, Spread
<1>4. /\ p = At(t, 2) /\ 1 \in 1..Len(t) + 1 /\ 2 \in 1..Len(t) + 1
      /\ 2 \in 2..Len(t) + 1
  BY <1>1, <1>2
<1>5. /\ b \in Words /\ b + 8 \in Words /\ p \in Words /\ b \in Nat /\ p \in Nat
      /\ p # b /\ p # b + 8 /\ b # p + 8
  BY <1>2, <1>3, <1>4
<1>6. InsertBlock(h, b) = g
  <2>1. h.start = p
    BY <1>1 DEF Chain
  <2>2. QED
    BY <2>1, Numbers DEF InsertBlock, SetNext, SetPrev
<1> HIDE DEF p
<1>7. /\ MemOK(k1) /\ k1.brk = h.brk /\ Get(k1, b + 8) = p
      /\ \A a : a # b + 8 => Same(h, k1, a)
  BY <1>1, <1>5, PutFacts
<1> HIDE DEF k1
<1>8. /\ MemOK(k2) /\ k2.brk = k1.brk /\ Get(k2, p) = b
      /\ \A a : a # p => Same(k1, k2, a)
  BY <1>5, <1>7, PutFacts
<1> HIDE DEF k2
<1>9. /\ MemOK(k3) /\ k3.brk = k2.brk /\ Get(k3, b) = 0
      /\ \A a : a # b => Same(k2, k3, a)
  <2>1. 0 \in Nat /\ b \in Words /\ MemOK(k2)
    BY <1>5, <1>8
  <2>2. QED
    BY <2>1, PutFacts
<1> HIDE DEF k3
<1>10. /\ MemOK(g) /\ g.brk = k3.brk /\ g.start = b
       /\ \A a : Same(k3, g, a)
  <2>1. g = [k3 EXCEPT !.start = b]
    OBVIOUS
  <2> HIDE DEF g
  <2>2. QED
    BY <1>9, <2>1, StartIs
<1> HIDE DEF g
<1>11. /\ \A a : a # b + 8 /\ a # p /\ a # b => Same(h, g, a)
       /\ Get(g, b + 8) = p /\ Get(g, p) = b /\ Get(g, b) = 0
  <2>1. b + 8 # b
    BY <1>5
  <2>2. QED
    BY <2>1, <1>5, <1>7, <1>8, <1>9, <1>10 DEF Same
<1>12. Chain(g, t)
  <2>1. g.start = At(t, 1) /\ Get(g, At(t, 1)) = NULL
    BY <1>2, <1>10, <1>11, Numbers
  <2>2. ASSUME NEW j \in 1..Len(t)
        PROVE  /\ Get(g, At(t, j) + DSIZE) = At(t, j + 1)
               /\ Get(g, At(t, j + 1)) = At(t, j)
    <3>1. CASE j = 1
      BY <3>1, <1>2, <1>4, <1>11, Numbers
    <3>2. CASE j # 1
      <4>1. /\ j - 1 \in 1..Len(l) /\ j \in 2..Len(t) + 1
            /\ j + 1 \in 2..Len(t) + 1 /\ (j + 1) - 1 = j /\ (j - 1) + 1 = j
        BY <3>2, <1>1, <1>2
      <4>2. At(t, j) = At(l, j - 1) /\ At(t, j + 1) = At(l, j)
        BY <4>1, <1>2
      <4>3. /\ Get(h, At(t, j) + 8) = At(t, j + 1)
            /\ Get(h, At(t, j + 1)) = At(t, j)
        BY <4>1, <4>2, <1>1, Numbers DEF Chain
      <4>4. j \in 1..Len(t) + 1 /\ j + 1 \in 1..Len(t) + 1
        BY <4>1
      <4>5. /\ At(t, j) # At(t, 1) /\ At(t, j) + 8 # At(t, 2)
            /\ At(t, j) + 8 # At(t, 1) /\ At(t, j) \in Nat
        BY <4>4, <3>2, <1>3, <1>4
      <4>6. /\ At(t, j + 1) # At(t, 1) /\ At(t, j + 1) # At(t, 2)
            /\ At(t, j + 1) # At(t, 1) + 8
        <5>1. j + 1 # 1 /\ j + 1 # 2
          BY <3>2
        <5>2. QED
          BY <5>1, <4>4, <1>3, <1>4
      <4>7. At(t, j) + 8 # b + 8
        BY <4>5, <1>2, <1>5
      <4>8. Same(h, g, At(t, j) + 8) /\ Same(h, g, At(t, j + 1))
        BY <4>5, <4>6, <4>7, <1>2, <1>4, <1>11
      <4>9. QED
        BY <4>3, <4>8, Numbers DEF Same
    <3>3. QED
      BY <3>1, <3>2
  <2>3. QED
    BY <2>1, <2>2 DEF Chain
<1>13. LET L == {b} \cup {l[j] : j \in 1..Len(l)}
       IN /\ L \subseteq BH!Blocks(G)
          /\ \A a \in Int : a # Prologue /\ (\A x \in L : a # x /\ a # x + 8)
                           => Same(h, g, a)
  <2> DEFINE L == {b} \cup {l[j] : j \in 1..Len(l)}
  <2>1. L \subseteq BH!Blocks(G)
    BY <1>1
  <2>2. p = Prologue \/ p \in L
    <3>1. CASE Len(l) = 0
      BY <3>1 DEF p, At
    <3>2. CASE Len(l) # 0
      <4>1. 1 \in 1..Len(l) /\ p = l[1]
        BY <3>2, <1>1 DEF p, At
      <4>2. QED
        BY <4>1
    <3>3. QED
      BY <3>1, <3>2
  <2>3. QED
    BY <2>1, <2>2, <1>11
<1>14. /\ Get(g, FirstBp - DSIZE) = 0
       /\ Get(g, HDRP(Prologue)) = MIN_BLOCKSIZE + 1
       /\ Get(g, G.brk - 4) = Get(h, G.brk - 4)
       /\ \A y \in D : TagAt(g, G, y)
       /\ \A E : /\ E \subseteq BH!Blocks(G) \ {b}
                 /\ \A j \in 1..Len(l) : l[j] \notin E
                 => Kept(h, g, G, E)
  <2> DEFINE L == {b} \cup {l[j] : j \in 1..Len(l)}
  <2>1. \A E : /\ E \subseteq BH!Blocks(G) \ {b}
               /\ \A j \in 1..Len(l) : l[j] \notin E
               => E \subseteq BH!Blocks(G) \ L
    OBVIOUS
  <2>2. /\ L \subseteq BH!Blocks(G)
        /\ \A a \in Int : a # Prologue /\ (\A x \in L : a # x /\ a # x + 8)
                         => Same(h, g, a)
    BY <1>13
  <2> HIDE DEF L
  <2>3. /\ Get(g, FirstBp - DSIZE) = Get(h, FirstBp - DSIZE)
        /\ Get(g, HDRP(Prologue)) = Get(h, HDRP(Prologue))
        /\ Get(g, G.brk - 4) = Get(h, G.brk - 4)
        /\ \A y \in BH!Blocks(G) : TagAt(h, G, y) => TagAt(g, G, y)
        /\ \A E : E \subseteq BH!Blocks(G) \ L => Kept(h, g, G, E)
    BY <2>2, LinkWrites
  <2>4. QED
    BY <2>1, <2>3, <1>1 DEF Holds
<1>15. Holds(g, G, D, t)
  <2>1. g.brk = G.brk
    BY <1>1, <1>7, <1>8, <1>9, <1>10
  <2>2. QED
    BY <2>1, <1>1, <1>2, <1>10, <1>12, <1>14 DEF Holds
<1>16. QED
  BY <1>6, <1>14, <1>15 DEF t

(* Removing a member of F, the set the list holds.                         *)
LEMMA RemoveRep ==
  ASSUME NEW G, Shape(G), NEW h, NEW D, NEW l, Holds(h, G, D, l),
         NEW F, BH!Lists(l, F), NEW b \in F
  PROVE  LET g == RemoveBlock(h, b)
         IN /\ Holds(g, G, D, BH!Without(l, b))
            /\ BH!Lists(BH!Without(l, b), F \ {b})
            /\ Get(g, G.brk - 4) = Get(h, G.brk - 4)
            /\ \A E : E \subseteq BH!Blocks(G) \ F => Kept(h, g, G, E)
<1>1. l \in Seq(BH!Blocks(G)) /\ DOMAIN l = 1..Len(l)
  BY DEF Holds
<1>2. PICK i \in 1..Len(l) : l[i] = b
  BY <1>1 DEF BH!Lists
<1>3. \A E : E \subseteq BH!Blocks(G) \ F => \A j \in 1..Len(l) : l[j] \notin E
  BY <1>1 DEF BH!Lists
<1>4. BH!Lists(BH!Without(l, b), F \ {b})
  BY <1>1, BlockHeapOK, BH!WithoutFacts
<1>5. /\ Holds(RemoveBlock(h, l[i]), G, D, BH!Without(l, l[i]))
      /\ Get(RemoveBlock(h, l[i]), G.brk - 4) = Get(h, G.brk - 4)
      /\ \A E : E \subseteq BH!Blocks(G)
                /\ (\A j \in 1..Len(l) : l[j] \notin E)
                => Kept(h, RemoveBlock(h, l[i]), G, E)
  BY RemoveHolds
<1>6. QED
  BY <1>2, <1>3, <1>4, <1>5

(* A list that lists a set holds no block twice.                           *)
LEMMA ListsInjective ==
  ASSUME NEW l, NEW F, BH!Lists(l, F)
  PROVE  Injective(l)
BY DEF BH!Lists, Injective

(* coalesce removes its left neighbour before the right one; BlockHeap has *)
(* it the other way round.                                                 *)
LEMMA WithoutTwice ==
  ASSUME NEW S, NEW l \in Seq(S), Injective(l),
         NEW i \in 1..Len(l), NEW j \in 1..Len(l), i < j
  PROVE  BH!Without(BH!Without(l, l[i]), l[j])
           = BH!Without(BH!Without(l, l[j]), l[i])
<1> DEFINE t == BH!Without(l, l[i])
           s == BH!Without(l, l[j])
           u == BH!Without(t, l[j])
           v == BH!Without(s, l[i])
<1>1. /\ t \in Seq(S) /\ Len(t) = Len(l) - 1 /\ Injective(t)
      /\ \A k \in 1..Len(t) : t[k] = IF k < i THEN l[k] ELSE l[k + 1]
  BY ShorterList
<1>2. /\ s \in Seq(S) /\ Len(s) = Len(l) - 1 /\ Injective(s)
      /\ \A k \in 1..Len(s) : s[k] = IF k < j THEN l[k] ELSE l[k + 1]
  BY ShorterList
<1> HIDE DEF t, s
<1>3. Len(l) \in Nat
  OBVIOUS
<1>4. j - 1 \in 1..Len(t) /\ t[j - 1] = l[j]
  <2>1. j - 1 \in 1..Len(t) /\ ~(j - 1 < i) /\ (j - 1) + 1 = j
    BY <1>1, <1>3
  <2>2. QED
    BY <2>1, <1>1
<1>5. i \in 1..Len(s) /\ s[i] = l[i]
  BY <1>2, <1>3
<1>6. /\ u \in Seq(S) /\ Len(u) = Len(t) - 1
      /\ \A k \in 1..Len(u) : u[k] = IF k < j - 1 THEN t[k] ELSE t[k + 1]
  <2>1. LET w == BH!Without(t, t[j - 1])
        IN /\ w \in Seq(S) /\ Len(w) = Len(t) - 1
           /\ \A k \in 1..Len(w) : w[k] = IF k < j - 1 THEN t[k] ELSE t[k + 1]
    BY <1>1, <1>4, ShorterList
  <2>2. QED
    BY <2>1, <1>4
<1>7. /\ v \in Seq(S) /\ Len(v) = Len(s) - 1
      /\ \A k \in 1..Len(v) : v[k] = IF k < i THEN s[k] ELSE s[k + 1]
  <2>1. LET w == BH!Without(s, s[i])
        IN /\ w \in Seq(S) /\ Len(w) = Len(s) - 1
           /\ \A k \in 1..Len(w) : w[k] = IF k < i THEN s[k] ELSE s[k + 1]
    BY <1>2, <1>5, ShorterList
  <2>2. QED
    BY <2>1, <1>5
<1> HIDE DEF u, v
<1>8. Len(u) = Len(v) /\ Len(u) = Len(l) - 2 /\ Len(u) \in Nat
  BY <1>1, <1>2, <1>6, <1>7
<1>9. ASSUME NEW k \in 1..Len(u)
      PROVE  u[k] = v[k]
  <2>1. /\ k \in 1..Len(t) /\ k + 1 \in 1..Len(t)
        /\ k \in 1..Len(s) /\ k + 1 \in 1..Len(s)
    BY <1>1, <1>2, <1>8
  <2>2. CASE k < i
    <3>1. k < j - 1 /\ k < j
      BY <2>2, <1>3
    <3>2. u[k] = t[k] /\ t[k] = l[k]
      BY <2>1, <2>2, <3>1, <1>1, <1>6
    <3>3. v[k] = s[k] /\ s[k] = l[k]
      BY <2>1, <2>2, <3>1, <1>2, <1>7, <1>8
    <3>4. QED
      BY <3>2, <3>3
  <2>3. CASE i <= k /\ k < j - 1
    <3>1. k + 1 < j /\ ~(k < i)
      BY <2>3, <1>3
    <3>2. u[k] = t[k] /\ t[k] = l[k + 1]
      BY <2>1, <2>3, <3>1, <1>1, <1>6
    <3>3. v[k] = s[k + 1] /\ s[k + 1] = l[k + 1]
      BY <2>1, <3>1, <1>2, <1>7, <1>8
    <3>4. QED
      BY <3>2, <3>3
  <2>4. CASE j - 1 <= k
    <3>1. ~(k + 1 < j) /\ ~(k < i) /\ ~(k < j - 1) /\ ~(k + 1 < i)
      BY <2>4, <1>3
    <3>2. u[k] = t[k + 1] /\ t[k + 1] = l[(k + 1) + 1]
      BY <2>1, <3>1, <1>1, <1>6
    <3>3. v[k] = s[k + 1] /\ s[k + 1] = l[(k + 1) + 1]
      BY <2>1, <3>1, <1>2, <1>7, <1>8
    <3>4. QED
      BY <3>2, <3>3
  <2>5. QED
    BY <2>2, <2>3, <2>4, <1>3
<1>10. u = v
  BY <1>6, <1>7, <1>8, <1>9, SeqEqual
<1>11. QED
  BY <1>10 DEF u, v, t, s

(* In what order coalesce unlinks two neighbours does not matter.          *)
LEMMA WithoutCommutes ==
  ASSUME NEW S, NEW l \in Seq(S), NEW F, BH!Lists(l, F),
         NEW b \in F, NEW c \in F, b # c
  PROVE  BH!Without(BH!Without(l, b), c) = BH!Without(BH!Without(l, c), b)
<1>1. Injective(l) /\ DOMAIN l = 1..Len(l) /\ Len(l) \in Nat
  BY ListsInjective
<1>2. PICK i \in 1..Len(l) : l[i] = b
  BY <1>1 DEF BH!Lists
<1>3. PICK j \in 1..Len(l) : l[j] = c
  BY <1>1 DEF BH!Lists
<1>4. i < j \/ j < i
  BY <1>2, <1>3
<1>5. CASE i < j
  BY <1>1, <1>2, <1>3, <1>5, WithoutTwice
<1>6. CASE j < i
  BY <1>1, <1>2, <1>3, <1>6, WithoutTwice
<1>7. QED
  BY <1>4, <1>5, <1>6
-----------------------------------------------------------------------------
(***************************************************************************)
(* What coalesce sees of the neighbours.                                   *)
(***************************************************************************)
Rep(h, G) ==
  /\ Holds(h, G, BH!Blocks(G), G.list)
  /\ Get(h, HDRP(G.brk)) = 1

(* Every block but the first has a block on its left.                      *)
LEMMA LeftNeighbour ==
  ASSUME NEW G, Shape(G), NEW b \in BH!Blocks(G), b # FirstBp
  PROVE  \E c \in BH!Blocks(G) : c + G.size[c] = b
<1>1. /\ FirstBp \in BH!Blocks(G)
      /\ \A c, d \in BH!Blocks(G) : c < d => c + G.size[c] <= d
      /\ \A c \in BH!Blocks(G) : c + G.size[c] \in BH!Blocks(G) \cup {G.brk}
  BY DEF Shape, BH!Tiled, BH!RightOf
<1>2. \A c \in BH!Blocks(G) : /\ c \in Nat /\ G.size[c] \in Nat
                              /\ G.size[c] >= 24 /\ FirstBp <= c
                              /\ c + G.size[c] <= G.brk /\ G.brk \in Nat
  BY BlockNumbers
<1> DEFINE S == {b - c : c \in {d \in BH!Blocks(G) : d < b}}
<1>3. S \subseteq Nat
  BY <1>2
<1>4. S # {}
  <2>1. FirstBp < b
    BY <1>1, <1>2
  <2>2. QED
    BY <2>1, <1>1
<1>5. PICK n \in S : \A m \in S : n <= m
  BY <1>3, <1>4, BlockHeapOK, BH!LeastOf
<1>6. PICK c \in BH!Blocks(G) : c < b /\ n = b - c
  BY <1>5
<1>7. \A d \in BH!Blocks(G) : d < b => b - c <= b - d
  BY <1>5, <1>6
<1>8. c + G.size[c] <= b /\ c < c + G.size[c] /\ b < G.brk
  BY <1>1, <1>2, <1>6
<1>9. c + G.size[c] \in BH!Blocks(G)
  BY <1>1, <1>2, <1>8
<1>10. ~(c + G.size[c] < b)
  BY <1>2, <1>7, <1>8, <1>9
<1>11. QED
  BY <1>2, <1>8, <1>10

(* The word behind a block says whether a free block begins there.         *)
LEMMA ReadRight ==
  ASSUME NEW h, NEW G, Shape(G), Rep(h, G), NEW b \in BH!Blocks(G)
  PROVE  /\ RightBlkp(h, b) = BH!RightOf(G, b)
         /\ GetAlloc(h, HDRP(RightBlkp(h, b))) = 1 <=> ~BH!RightFree(G, b)
<1> DEFINE r == BH!RightOf(G, b)
<1>1. r \in BH!Blocks(G) \cup {G.brk} /\ r = b + G.size[b]
  BY DEF Shape, BH!Tiled, BH!RightOf
<1>2. TagAt(h, G, b)
  BY DEF Rep, Holds
<1>3. RightBlkp(h, b) = r
  BY <1>1, <1>2, ReadTag
<1> HIDE DEF r
<1>4. CASE r \in BH!Blocks(G)
  <2>1. GetAlloc(h, HDRP(r)) = IF r \in G.alloc THEN 1 ELSE 0
    BY <1>4, ReadTag DEF Rep, Holds
  <2>2. BH!RightFree(G, b) <=> r \notin G.alloc
    BY <1>4 DEF BH!RightFree, BH!FreeBlocks, r
  <2>3. QED
    BY <2>1, <2>2, <1>3 DEF r
<1>5. CASE r = G.brk
  <2>1. GetAlloc(h, HDRP(r)) = 1
    BY <1>5 DEF Rep, GetAlloc
  <2>2. G.brk \notin BH!Blocks(G)
    <3>1. ASSUME G.brk \in BH!Blocks(G) PROVE FALSE
      <4>1. /\ G.brk \in Nat /\ G.size[G.brk] \in Nat /\ G.size[G.brk] >= 24
            /\ G.brk + G.size[G.brk] <= G.brk
        BY <3>1, BlockNumbers
      <4>2. QED
        BY <4>1
    <3>2. QED
      BY <3>1
  <2>3. ~BH!RightFree(G, b)
    BY <1>5, <2>2 DEF BH!RightFree, BH!FreeBlocks, r
  <2>4. QED
    BY <2>1, <2>3, <1>3 DEF r
<1>6. QED
  BY <1>1, <1>4, <1>5

(* The word before a block says whether a free block ends there, and where *)
(* it begins; left of the first block it is zero.                          *)
LEMMA ReadLeft ==
  ASSUME NEW h, NEW G, Shape(G), Rep(h, G), NEW b \in BH!Blocks(G)
  PROVE  LET left == LeftBlkp(h, b)
         IN /\ (GetAlloc(h, FTRP(h, left)) = 1 \/ left = b) <=> ~BH!LeftFree(G, b)
            /\ BH!LeftFree(G, b) => /\ left = BH!LeftOf(G, b)
                                    /\ left \in BH!FreeBlocks(G)
                                    /\ BH!RightOf(G, left) = b /\ left # b
<1> DEFINE left == LeftBlkp(h, b)
<1>1. CASE b = FirstBp
  <2>1. GetSize(h, HDRP(b) - WSIZE) = 0
    <3>1. HDRP(b) - WSIZE = FirstBp - DSIZE
      BY <1>1, Numbers DEF HDRP
    <3>2. Get(h, FirstBp - DSIZE) = 0
      BY DEF Rep, Holds
    <3>3. QED
      BY <3>1, <3>2, Numbers DEF GetSize
  <2>2. left = b
    BY <2>1, <1>1, Numbers DEF LeftBlkp
  <2>3. ~BH!LeftFree(G, b)
    <3>1. ASSUME NEW c \in BH!FreeBlocks(G), BH!RightOf(G, c) = b PROVE FALSE
      <4>1. c \in BH!Blocks(G)
        BY DEF BH!FreeBlocks
      <4>2. /\ c \in Nat /\ FirstBp <= c /\ G.size[c] \in Nat /\ G.size[c] >= 24
            /\ c + G.size[c] = b
        BY <4>1, <3>1, BlockNumbers DEF BH!RightOf
      <4>3. QED
        BY <4>2, <1>1, Numbers
    <3>2. QED
      BY <3>1 DEF BH!LeftFree
  <2>4. QED
    BY <2>2, <2>3
<1>2. CASE b # FirstBp
  <2>1. PICK c \in BH!Blocks(G) : c + G.size[c] = b
    BY <1>2, LeftNeighbour
  <2>2. /\ LeftBlkp(h, c + G.size[c]) = c
        /\ GetAlloc(h, FTRP(h, c)) = IF c \in G.alloc THEN 1 ELSE 0
    BY ReadTag DEF Rep, Holds
  <2>3. left = c
    BY <2>1, <2>2
  <2>4. c \in Nat /\ G.size[c] \in Nat /\ G.size[c] >= 24 /\ c # b
    BY <2>1, BlockNumbers
  <2>5. BH!RightOf(G, c) = b
    BY <2>1 DEF BH!RightOf
  <2>6. \A d \in BH!FreeBlocks(G) : BH!RightOf(G, d) = b => d = c
    <3>1. BH!HeapType(G) /\ BH!Tiled(G)
      BY DEF Shape
    <3>2. \A d \in BH!FreeBlocks(G) : d \in BH!Blocks(G)
      BY DEF BH!FreeBlocks
    <3>3. QED
      BY <3>1, <3>2, <2>5, BlockHeapOK, BH!OneLeftNeighbour
  <2>7. BH!LeftFree(G, b) <=> c \notin G.alloc
    <3>1. c \notin G.alloc => c \in BH!FreeBlocks(G)
      BY DEF BH!FreeBlocks
    <3>2. c \in G.alloc => c \notin BH!FreeBlocks(G)
      BY DEF BH!FreeBlocks
    <3>3. QED
      BY <3>1, <3>2, <2>5, <2>6 DEF BH!LeftFree
  <2>8. BH!LeftFree(G, b) => BH!LeftOf(G, b) = c /\ c \in BH!FreeBlocks(G)
    BY <2>5, <2>6 DEF BH!LeftOf, BH!LeftFree
  <2>9. QED
    BY <2>2, <2>3, <2>4, <2>5, <2>7, <2>8
<1>3. QED
  BY <1>1, <1>2

-----------------------------------------------------------------------------
(***************************************************************************)
(* coalesce.                                                               *)
(***************************************************************************)
(* The block x of H has swallowed neighbours and is now a block of G: its  *)
(* tags are written and it becomes the head of the list.                   *)
LEMMA SettleRep ==
  ASSUME NEW H, Shape(H), NEW G, Shape(G), G.brk = H.brk, G.alloc = H.alloc,
         BH!Blocks(G) \subseteq BH!Blocks(H), NEW x \in BH!Blocks(G),
         x \notin G.alloc, \A d \in BH!Blocks(G) \ {x} : G.size[d] = H.size[d],
         NEW k, NEW t, Holds(k, H, BH!Blocks(H), t), Get(k, HDRP(H.brk)) = 1,
         NEW F, BH!Lists(t, F), F \subseteq BH!FreeBlocks(G) \ {x},
         G.list = <<x>> \o t
  PROVE  LET g == InsertBlock(PutTags(k, x, G.size[x], 0), x)
         IN Rep(g, G) /\ Kept(k, g, H, H.alloc)
<1> DEFINE m == PutTags(k, x, G.size[x], 0)
           g == InsertBlock(m, x)
           B == BH!Blocks(G)
<1>1. t \in Seq(BH!Blocks(G)) /\ DOMAIN t = 1..Len(t) /\ Injective(t)
      /\ \A j \in 1..Len(t) : t[j] \in F
  <2>1. t \in Seq(BH!Blocks(H)) /\ Injective(t)
    BY DEF Holds
  <2>2. DOMAIN t = 1..Len(t)
    BY <2>1
  <2>3. \A j \in DOMAIN t : t[j] \in F /\ t[j] \in BH!Blocks(G)
    BY DEF BH!Lists, BH!FreeBlocks
  <2>4. QED
    BY <2>1, <2>2, <2>3, BlockHeapOK, BH!SeqRetype
<1>2. \A j \in 1..Len(t) : t[j] # x /\ t[j] \notin G.alloc
  BY <1>1 DEF BH!FreeBlocks
<1>3. Holds(k, G, B \ {x}, t)
  <2>1. \A d \in B \ {x} : TagAt(k, G, d)
    BY DEF Holds, TagAt, Tag
  <2>2. QED
    BY <2>1, <1>1 DEF Holds
<1>4. /\ m = PutTags(k, x, G.size[x], IF x \in G.alloc THEN 1 ELSE 0)
      /\ (B \ {x}) \cup {x} = B
  OBVIOUS
<1>5. /\ Holds(m, G, B, t)
      /\ Get(m, G.brk - 4) = Get(k, G.brk - 4)
      /\ Kept(k, m, G, B \ {x})
  <2> DEFINE D == B \ {x}
             u == PutTags(k, x, G.size[x], IF x \in G.alloc THEN 1 ELSE 0)
  <2>1. Holds(k, G, D, t)
    BY <1>3
  <2> HIDE DEF D
  <2>2. /\ Holds(u, G, D \cup {x}, t)
        /\ Get(u, G.brk - 4) = Get(k, G.brk - 4)
        /\ Kept(k, u, G, B \ {x})
    BY <2>1, TagBlock
  <2>3. u = m /\ D \cup {x} = B
    BY <1>4 DEF D
  <2> HIDE DEF u, m
  <2>4. QED
    BY <2>2, <2>3
<1> HIDE DEF m
<1>6. /\ Holds(g, G, B, <<x>> \o t)
      /\ Get(g, G.brk - 4) = Get(m, G.brk - 4)
      /\ \A E : /\ E \subseteq BH!Blocks(G) \ {x}
                /\ \A j \in 1..Len(t) : t[j] \notin E
                => Kept(m, g, G, E)
  BY <1>2, <1>5, InsertHolds
<1> HIDE DEF g
<1>7. Rep(g, G)
  BY <1>5, <1>6, Numbers DEF Rep, HDRP
<1>8. G.alloc \subseteq B \ {x}
  BY DEF Shape, BH!HeapType
<1>9. Kept(k, g, G, G.alloc)
  <2>1. Kept(m, g, G, G.alloc)
    BY <1>2, <1>6, <1>8
  <2>2. Kept(k, m, G, G.alloc)
    BY <1>5, <1>8 DEF Kept
  <2>3. QED
    BY <2>1, <2>2, KeptTwice
<1>10. Kept(k, g, H, H.alloc)
  BY <1>8, <1>9 DEF Kept, Own
<1>11. QED
  BY <1>7, <1>10 DEF g, m

(* the list when coalesce has removed the free neighbours of b             *)
Unlisted(H, b) ==
  LET t == IF BH!RightFree(H, b) THEN BH!Without(H.list, BH!RightOf(H, b))
                                 ELSE H.list
  IN IF BH!LeftFree(H, b) THEN BH!Without(t, BH!LeftOf(H, b)) ELSE t

(* the block that b becomes part of                                        *)
Merged(H, b) == IF BH!LeftFree(H, b) THEN BH!LeftOf(H, b) ELSE b

(* What coalesce makes of the blocks, field by field.                      *)
LEMMA MergedShape ==
  ASSUME NEW H, NEW b, BH!Loose(H, b)
  PROVE  LET G == BH!Coalesce(H, b)
             c == BH!RightOf(H, b)
             l == BH!LeftOf(H, b)
             x == Merged(H, b)
         IN /\ BH!Blocks(G) = BH!Blocks(H)
                              \ ((IF BH!RightFree(H, b) THEN {c} ELSE {})
                                 \cup (IF BH!LeftFree(H, b) THEN {b} ELSE {}))
            /\ x \in BH!Blocks(G)
            /\ G.size[x] = H.size[b]
                           + (IF BH!RightFree(H, b) THEN H.size[c] ELSE 0)
                           + (IF BH!LeftFree(H, b) THEN H.size[l] ELSE 0)
            /\ \A d \in BH!Blocks(G) \ {x} : G.size[d] = H.size[d]
            /\ G.list = <<x>> \o Unlisted(H, b)
<1> DEFINE G == BH!Coalesce(H, b)
           c == BH!RightOf(H, b)
           l == BH!LeftOf(H, b)
           q == BH!MergeRight(H, b)
           t == IF BH!RightFree(H, b) THEN BH!Without(H.list, c) ELSE H.list
<1>1. /\ Shape(H) /\ b \in BH!Blocks(H) /\ b \in BH!FreeBlocks(H)
      /\ BH!HeapType(H) /\ BH!Tiled(H)
  BY DEF BH!Loose, Shape, BH!FreeBlocks
<1>2. \A d \in BH!Blocks(H) : d \in Nat /\ H.size[d] \in Nat /\ H.size[d] >= 24
  BY <1>1, BlockNumbers
<1>3. /\ c = b + H.size[b] /\ c # b
      /\ BH!RightFree(H, b) => c \in BH!FreeBlocks(H) /\ c \in BH!Blocks(H)
  BY <1>1, <1>2 DEF BH!RightOf, BH!RightFree, BH!FreeBlocks
<1>4. /\ BH!Blocks(q) = BH!Blocks(H) \ (IF BH!RightFree(H, b) THEN {c} ELSE {})
      /\ q.size[b] = H.size[b] + (IF BH!RightFree(H, b) THEN H.size[c] ELSE 0)
      /\ \A d \in BH!Blocks(q) : d # b => q.size[d] = H.size[d]
      /\ q.alloc = H.alloc /\ q.list = t /\ q.brk = H.brk
      /\ BH!Blocks(q) = DOMAIN q.size
  <2>1. CASE BH!RightFree(H, b)
    <3> DEFINE sz == [d \in BH!Blocks(H) \ {c} |->
                        IF d = b THEN H.size[b] + H.size[c] ELSE H.size[d]]
    <3>1. BH!RemoveBlock(H, c)
            = BH!Heap(H.size, H.alloc, BH!Without(H.list, c), H.brk)
      BY DEF BH!RemoveBlock, BH!Without
    <3>2. q = BH!Heap(sz, H.alloc, BH!Without(H.list, c), H.brk)
      BY <2>1, <3>1 DEF BH!MergeRight, BH!Merge, BH!Heap, BH!Blocks
    <3>3. /\ q.size = sz /\ q.alloc = H.alloc
          /\ q.list = BH!Without(H.list, c) /\ q.brk = H.brk
      BY <3>2 DEF BH!Heap
    <3> HIDE DEF q
    <3>4. QED
      BY <2>1, <3>3, <1>1, <1>3 DEF BH!Blocks
  <2>2. CASE ~BH!RightFree(H, b)
    BY <2>2, <1>1, <1>2 DEF BH!MergeRight, BH!Blocks
  <2>3. QED
    BY <2>1, <2>2
<1> HIDE DEF q
<1>5. \A d : (d \in BH!FreeBlocks(q) /\ BH!RightOf(q, d) = b)
             <=> (d \in BH!FreeBlocks(H) /\ BH!RightOf(H, d) = b)
  <2>1. ASSUME NEW d, d \in BH!FreeBlocks(q), BH!RightOf(q, d) = b
        PROVE  d \in BH!FreeBlocks(H) /\ BH!RightOf(H, d) = b
    <3>1. d \in BH!Blocks(q) /\ d \notin H.alloc /\ d \in BH!FreeBlocks(H)
      BY <2>1, <1>4 DEF BH!FreeBlocks
    <3>2. d # b
      <4>1. ASSUME d = b PROVE FALSE
        <5>1. b + q.size[b] = b
          BY <2>1, <4>1 DEF BH!RightOf
        <5>2. QED
          BY <5>1, <1>1, <1>2, <1>3, <1>4
      <4>2. QED
        BY <4>1
    <3>3. QED
      BY <2>1, <3>1, <3>2, <1>4 DEF BH!RightOf
  <2>2. ASSUME NEW d, d \in BH!FreeBlocks(H), BH!RightOf(H, d) = b
        PROVE  d \in BH!FreeBlocks(q) /\ BH!RightOf(q, d) = b
    <3>1. d \in BH!Blocks(H) /\ d \notin H.alloc /\ d + H.size[d] = b
      BY <2>2 DEF BH!FreeBlocks, BH!RightOf
    <3>2. d # b /\ d # c
      BY <3>1, <1>1, <1>2, <1>3
    <3>3. d \in BH!Blocks(q)
      BY <3>1, <3>2, <1>4
    <3>4. QED
      BY <3>1, <3>2, <3>3, <1>4 DEF BH!FreeBlocks, BH!RightOf
  <2>3. QED
    BY <2>1, <2>2
<1>6. BH!LeftFree(q, b) <=> BH!LeftFree(H, b)
  BY <1>5 DEF BH!LeftFree
<1>7. CASE ~BH!LeftFree(H, b)
  <2>1. G = BH!Heap(q.size, q.alloc, <<b>> \o q.list, q.brk)
    BY <1>6, <1>7 DEF BH!Coalesce, BH!InsertBlock, q
  <2>2. G.size = q.size /\ G.list = <<b>> \o q.list
    BY <2>1 DEF BH!Heap
  <2> HIDE DEF G
  <2>3. BH!Blocks(G) = BH!Blocks(q) /\ Merged(H, b) = b /\ Unlisted(H, b) = t
    BY <2>2, <1>7 DEF BH!Blocks, Merged, Unlisted
  <2>4. G.size[b] = H.size[b] + (IF BH!RightFree(H, b) THEN H.size[c] ELSE 0) + 0
    BY <2>2, <1>1, <1>2, <1>3, <1>4
  <2>5. b \in BH!Blocks(G)
    BY <2>3, <1>1, <1>3, <1>4
  <2>6. QED
    BY <2>2, <2>3, <2>4, <2>5, <1>4, <1>7 DEF G
<1>8. CASE BH!LeftFree(H, b)
  <2>1. PICK d \in BH!FreeBlocks(H) : BH!RightOf(H, d) = b
    BY <1>8 DEF BH!LeftFree
  <2>2. \A e \in BH!FreeBlocks(H) : BH!RightOf(H, e) = b => e = d
    BY <2>1, <1>1, BlockHeapOK, BH!OneLeftNeighbour DEF BH!FreeBlocks
  <2>3. l = d
    BY <2>1, <2>2 DEF BH!LeftOf
  <2>4. BH!LeftOf(q, b) = d
    BY <2>1, <2>2, <1>5 DEF BH!LeftOf
  <2>5. /\ d \in BH!Blocks(q) /\ d # b /\ d \in BH!Blocks(H)
        /\ q.size[d] = H.size[d]
    <3>1. d \in BH!FreeBlocks(q) /\ d \in BH!Blocks(H) /\ d + H.size[d] = b
      BY <2>1, <1>5 DEF BH!FreeBlocks, BH!RightOf
    <3>2. d \in BH!Blocks(q) /\ d # b
      BY <3>1, <1>1, <1>2 DEF BH!FreeBlocks
    <3>3. QED
      BY <3>1, <3>2, <1>4
  <2> DEFINE sz == [e \in BH!Blocks(q) \ {b} |->
                      IF e = d THEN q.size[d] + q.size[b] ELSE q.size[e]]
  <2>6. BH!RemoveBlock(q, d)
          = BH!Heap(q.size, q.alloc, BH!Without(q.list, d), q.brk)
    BY DEF BH!RemoveBlock, BH!Without
  <2>7. G = BH!InsertBlock(BH!Merge(BH!RemoveBlock(q, d), d, b), d)
    BY <2>4, <1>6, <1>8 DEF BH!Coalesce, q
  <2>8. BH!Merge(BH!RemoveBlock(q, d), d, b)
          = BH!Heap(sz, q.alloc, BH!Without(q.list, d), q.brk)
    BY <2>6 DEF BH!Merge, BH!Heap, BH!Blocks
  <2>9. G.size = sz /\ G.list = <<d>> \o BH!Without(q.list, d)
    BY <2>7, <2>8 DEF BH!InsertBlock, BH!Heap
  <2> HIDE DEF G
  <2>10. /\ BH!Blocks(G) = BH!Blocks(q) \ {b}
         /\ G.size[d] = q.size[d] + q.size[b]
         /\ \A e \in BH!Blocks(G) : e # d => G.size[e] = q.size[e]
    BY <2>5, <2>9 DEF BH!Blocks
  <2>11. Merged(H, b) = d /\ Unlisted(H, b) = BH!Without(t, d)
    BY <2>3, <1>8 DEF Merged, Unlisted
  <2>12. G.size[d] = H.size[b]
                     + (IF BH!RightFree(H, b) THEN H.size[c] ELSE 0) + H.size[l]
    BY <2>3, <2>5, <2>10, <1>1, <1>2, <1>3, <1>4
  <2>13. BH!Blocks(G) = BH!Blocks(H)
                        \ ((IF BH!RightFree(H, b) THEN {c} ELSE {}) \cup {b})
    BY <2>10, <1>4
  <2>14. \A e \in BH!Blocks(G) \ {d} : G.size[e] = H.size[e]
    BY <2>10, <1>4
  <2>15. QED
    BY <2>5, <2>9, <2>10, <2>11, <2>12, <2>13, <2>14, <1>4, <1>8 DEF G
<1>9. QED
  BY <1>7, <1>8

(* coalesce on the words is coalesce on the blocks, and writes nothing     *)
(* into an allocated block.                                                *)
LEMMA CoalesceRep ==
  ASSUME NEW H, NEW b, BH!Loose(H, b), NEW h, Rep(h, H)
  PROVE  LET g == Coalesce(h, b)
         IN Rep(g, BH!Coalesce(H, b)) /\ Kept(h, g, H, H.alloc)
<1> DEFINE G == BH!Coalesce(H, b)
           B == BH!Blocks(H)
           F == BH!FreeBlocks(H) \ {b}
           c == BH!RightOf(H, b)
           l == BH!LeftOf(H, b)
           g == Coalesce(h, b)
           left == LeftBlkp(h, b)
           right == RightBlkp(h, b)
           lAlloc == GetAlloc(h, FTRP(h, left)) = 1 \/ left = b
           rAlloc == GetAlloc(h, HDRP(right)) = 1
           bSize == GetSize(h, HDRP(b))
           lSize == GetSize(h, HDRP(left))
           rSize == GetSize(h, HDRP(right))
<1>1. /\ Shape(H) /\ b \in B /\ b \in BH!FreeBlocks(H) /\ b \notin H.alloc
      /\ BH!Lists(H.list, F) /\ H.alloc \subseteq B /\ H.alloc \subseteq B \ F
  BY DEF BH!Loose, Shape, BH!FreeBlocks, BH!HeapType
<1>2. Shape(G) /\ G.alloc = H.alloc /\ G.brk = H.brk
  BY BlockHeapOK, BH!CoalesceFacts DEF BH!Good, Shape
<1>3. /\ Holds(h, H, B, H.list) /\ Get(h, HDRP(H.brk)) = 1
      /\ \A d \in B : TagAt(h, H, d) /\ GetSize(h, HDRP(d)) = H.size[d]
  <2>1. Holds(h, H, B, H.list) /\ Get(h, HDRP(H.brk)) = 1
    BY DEF Rep
  <2>2. \A d \in B : TagAt(h, H, d)
    BY <2>1 DEF Holds
  <2>3. QED
    BY <1>1, <2>1, <2>2, ReadTag
<1>4. right = c /\ (rAlloc <=> ~BH!RightFree(H, b))
  BY <1>1, ReadRight
<1>5. /\ lAlloc <=> ~BH!LeftFree(H, b)
      /\ BH!LeftFree(H, b) => /\ left = l /\ left \in BH!FreeBlocks(H)
                              /\ BH!RightOf(H, left) = b /\ left # b
  BY <1>1, ReadLeft
<1>6. /\ bSize = H.size[b]
      /\ BH!RightFree(H, b) => /\ rSize = H.size[c] /\ c \in BH!FreeBlocks(H)
                               /\ c # b /\ H.size[c] \in Nat
      /\ BH!LeftFree(H, b) => lSize = H.size[l] /\ H.size[l] \in Nat
      /\ H.size[b] \in Nat
  <2>1. BH!RightFree(H, b) => c \in BH!FreeBlocks(H) /\ c \in B
    BY DEF BH!RightFree, BH!FreeBlocks
  <2>2. BH!LeftFree(H, b) => l \in B
    BY <1>5 DEF BH!FreeBlocks
  <2>3. c = b + H.size[b]
    BY DEF BH!RightOf
  <2>4. \A d \in B : d \in Nat /\ H.size[d] \in Nat /\ H.size[d] >= 24
    BY <1>1, BlockNumbers
  <2>5. c # b
    BY <2>3, <2>4, <1>1
  <2>6. QED
    BY <1>1, <1>3, <1>4, <1>5, <2>1, <2>2, <2>4, <2>5
<1> DEFINE merged ==
             CASE lAlloc /\ rAlloc  -> h
               [] lAlloc /\ ~rAlloc ->
                    PutTags(RemoveBlock(h, right), b, bSize + rSize, 0)
               [] ~lAlloc /\ rAlloc ->
                    PutTags(RemoveBlock(h, left), left, bSize + lSize, 0)
               [] OTHER ->
                    PutTags(RemoveBlock(RemoveBlock(h, left), right), left,
                            bSize + lSize + rSize, 0)
<1>7. g = InsertBlock(merged, IF lAlloc THEN b ELSE left)
  BY DEF Coalesce
<1>8. /\ BH!Blocks(G) = B \ ((IF BH!RightFree(H, b) THEN {c} ELSE {})
                             \cup (IF BH!LeftFree(H, b) THEN {b} ELSE {}))
      /\ Merged(H, b) \in BH!Blocks(G)
      /\ G.size[Merged(H, b)]
           = H.size[b] + (IF BH!RightFree(H, b) THEN H.size[c] ELSE 0)
                       + (IF BH!LeftFree(H, b) THEN H.size[l] ELSE 0)
      /\ \A d \in BH!Blocks(G) \ {Merged(H, b)} : G.size[d] = H.size[d]
      /\ G.list = <<Merged(H, b)>> \o Unlisted(H, b)
  BY MergedShape
<1>9. Merged(H, b) \notin G.alloc
  BY <1>1, <1>2, <1>5 DEF Merged, BH!FreeBlocks
<1>a. HDRP(H.brk) = H.brk - 4 /\ HDRP(G.brk) = H.brk - 4
  BY <1>2, Numbers DEF HDRP
<1> HIDE DEF G, B, F, c, l, g, left, right, lAlloc, rAlloc, bSize, lSize, rSize
<1>10. CASE ~BH!LeftFree(H, b) /\ ~BH!RightFree(H, b)
  <2>1. g = InsertBlock(h, b) /\ Merged(H, b) = b /\ Unlisted(H, b) = H.list
    BY <1>4, <1>5, <1>7, <1>10 DEF Merged, Unlisted
  <2>2. \A j \in 1..Len(H.list) : H.list[j] # b /\ H.list[j] \notin H.alloc
    <3>1. H.list \in Seq(B) /\ DOMAIN H.list = 1..Len(H.list)
      BY <1>3 DEF Holds, B
    <3>2. \A j \in DOMAIN H.list : H.list[j] \in F
      BY <1>1 DEF BH!Lists
    <3>3. QED
      BY <3>1, <3>2 DEF F, BH!FreeBlocks
  <2>3. /\ Holds(g, H, B, <<b>> \o H.list)
        /\ Get(g, H.brk - 4) = Get(h, H.brk - 4)
        /\ \A E : /\ E \subseteq B \ {b}
                  /\ \A j \in 1..Len(H.list) : H.list[j] \notin E
                  => Kept(h, g, H, E)
    BY <1>1, <1>3, <2>1, <2>2, InsertHolds DEF B
  <2>4. Kept(h, g, H, H.alloc)
    BY <1>1, <2>2, <2>3
  <2>5. /\ BH!Blocks(G) = B /\ G.list = <<b>> \o H.list
        /\ \A d \in B : G.size[d] = H.size[d]
    BY <1>6, <1>8, <1>10, <2>1
  <2>6. \A d \in B : TagAt(g, G, d)
    <3>1. \A d \in B : TagAt(g, H, d)
      BY <2>3 DEF Holds
    <3>2. QED
      BY <3>1, <2>5, <1>2 DEF TagAt, Tag
  <2>7. Holds(g, G, BH!Blocks(G), G.list)
    BY <2>3, <2>5, <2>6, <1>2 DEF Holds, B
  <2>8. QED
    BY <2>3, <2>4, <2>7, <1>3, <1>a DEF Rep, G, g
<1>11. ASSUME NEW k, NEW t, NEW E, NEW x,
              Holds(k, H, B, t), BH!Lists(t, E), E \subseteq BH!FreeBlocks(G) \ {x},
              Get(k, H.brk - 4) = Get(h, H.brk - 4), Kept(h, k, H, H.alloc),
              x = Merged(H, b), t = Unlisted(H, b),
              g = InsertBlock(PutTags(k, x, G.size[x], 0), x)
       PROVE  Rep(Coalesce(h, b), BH!Coalesce(H, b))
              /\ Kept(h, Coalesce(h, b), H, H.alloc)
  <2>1. Get(k, HDRP(H.brk)) = 1
    BY <1>3, <1>11, <1>a
  <2>2. BH!Blocks(G) \subseteq BH!Blocks(H) /\ x \in BH!Blocks(G) /\ x \notin G.alloc
        /\ (\A d \in BH!Blocks(G) \ {x} : G.size[d] = H.size[d])
        /\ G.list = <<x>> \o t
    BY <1>8, <1>9, <1>11 DEF B
  <2>3. Holds(k, H, BH!Blocks(H), t)
    BY <1>11 DEF B
  <2>4. Rep(g, G) /\ Kept(k, g, H, H.alloc)
    BY <1>1, <1>2, <1>11, <2>1, <2>2, <2>3, SettleRep
  <2>5. QED
    BY <1>11, <2>4, KeptTwice DEF g, G
<1>12. CASE ~BH!LeftFree(H, b) /\ BH!RightFree(H, b)
  <2> DEFINE k == RemoveBlock(h, c)
             t == BH!Without(H.list, c)
  <2>1. Merged(H, b) = b /\ Unlisted(H, b) = t
    BY <1>12 DEF Merged, Unlisted, c
  <2>2. c \in F
    BY <1>6, <1>12 DEF F
  <2>3. /\ Holds(k, H, B, t) /\ BH!Lists(t, F \ {c})
        /\ Get(k, H.brk - 4) = Get(h, H.brk - 4)
        /\ Kept(h, k, H, H.alloc)
    BY <1>1, <1>3, <2>2, RemoveRep DEF B
  <2>4. F \ {c} \subseteq BH!FreeBlocks(G) \ {b}
    BY <1>2, <1>8, <1>12 DEF F, BH!FreeBlocks, B
  <2>5. G.size[b] = bSize + rSize
    BY <1>6, <1>8, <1>12, <2>1
  <2> HIDE DEF k, t
  <2>6. g = InsertBlock(PutTags(k, b, G.size[b], 0), b)
    BY <1>4, <1>5, <1>7, <1>12, <2>5 DEF k
  <2>7. QED
    BY <1>11, <2>1, <2>3, <2>4, <2>6
<1>13. CASE BH!LeftFree(H, b) /\ ~BH!RightFree(H, b)
  <2> DEFINE k == RemoveBlock(h, l)
             t == BH!Without(H.list, l)
  <2>1. Merged(H, b) = l /\ Unlisted(H, b) = t
    BY <1>13 DEF Merged, Unlisted, l
  <2>2. l \in F
    BY <1>5, <1>13 DEF F
  <2>3. /\ Holds(k, H, B, t) /\ BH!Lists(t, F \ {l})
        /\ Get(k, H.brk - 4) = Get(h, H.brk - 4)
        /\ Kept(h, k, H, H.alloc)
    BY <1>1, <1>3, <2>2, RemoveRep DEF B
  <2>4. F \ {l} \subseteq BH!FreeBlocks(G) \ {l}
    BY <1>2, <1>8, <1>13 DEF F, BH!FreeBlocks, B
  <2>5. G.size[l] = bSize + lSize
    BY <1>6, <1>8, <1>13, <2>1
  <2> HIDE DEF k, t
  <2>6. g = InsertBlock(PutTags(k, l, G.size[l], 0), l)
    BY <1>4, <1>5, <1>7, <1>13, <2>5 DEF k
  <2>7. QED
    BY <1>11, <2>1, <2>3, <2>4, <2>6
<1>14. CASE BH!LeftFree(H, b) /\ BH!RightFree(H, b)
  <2> DEFINE m == RemoveBlock(h, l)
             s == BH!Without(H.list, l)
             k == RemoveBlock(m, c)
             t == BH!Without(s, c)
  <2>1. l \in F /\ c \in F /\ c # l
    <3>1. l \in F /\ c \in F
      BY <1>5, <1>6, <1>14 DEF F
    <3>2. l + H.size[l] = b /\ c = b + H.size[b]
      BY <1>5, <1>14 DEF c, BH!RightOf
    <3>3. \A d \in B : d \in Nat /\ H.size[d] \in Nat /\ H.size[d] >= 24
      BY <1>1, BlockNumbers DEF B
    <3>4. l \in B /\ b \in B
      BY <3>1, <1>1 DEF F, BH!FreeBlocks, B
    <3>5. QED
      BY <3>1, <3>2, <3>3, <3>4
  <2>2. Merged(H, b) = l /\ Unlisted(H, b) = t
    <3>1. H.list \in Seq(B)
      BY <1>3 DEF Holds, B
    <3>2. BH!Without(BH!Without(H.list, c), l) = t
      BY <3>1, <1>1, <2>1, WithoutCommutes
    <3>3. QED
      BY <1>14, <3>2 DEF Merged, Unlisted, l, c
  <2>3. /\ Holds(m, H, B, s) /\ BH!Lists(s, F \ {l})
        /\ Get(m, H.brk - 4) = Get(h, H.brk - 4)
        /\ Kept(h, m, H, H.alloc)
    BY <1>1, <1>3, <2>1, RemoveRep DEF B
  <2>4. c \in F \ {l} /\ H.alloc \subseteq BH!Blocks(H) \ (F \ {l})
    BY <1>1, <2>1 DEF B
  <2> HIDE DEF m, s
  <2>5. /\ Holds(k, H, B, t) /\ BH!Lists(t, (F \ {l}) \ {c})
        /\ Get(k, H.brk - 4) = Get(m, H.brk - 4)
        /\ Kept(m, k, H, H.alloc)
    BY <1>1, <2>3, <2>4, RemoveRep DEF B
  <2>6. (F \ {l}) \ {c} \subseteq BH!FreeBlocks(G) \ {l}
    BY <1>2, <1>8, <1>14 DEF F, BH!FreeBlocks, B
  <2>7. G.size[l] = bSize + lSize + rSize
    BY <1>6, <1>8, <1>14, <2>2
  <2> HIDE DEF k, t
  <2>8. g = InsertBlock(PutTags(k, l, G.size[l], 0), l)
    <3>1. merged = PutTags(k, l, bSize + lSize + rSize, 0)
      BY <1>4, <1>5, <1>14 DEF k, m
    <3>2. QED
      BY <3>1, <1>5, <1>7, <1>14, <2>7
  <2>9. Get(k, H.brk - 4) = Get(h, H.brk - 4) /\ Kept(h, k, H, H.alloc)
    BY <2>3, <2>5, KeptTwice
  <2>10. QED
    BY <1>11, <2>2, <2>5, <2>6, <2>8, <2>9
<1>15. QED
  BY <1>10, <1>12, <1>13, <1>14

(* A write outside the blocks, behind the prologue and not at the word     *)
(* left of the first header, changes nothing a heap is read from but the   *)
(* epilogue.                                                               *)
LEMMA HoldsElsewhere ==
  ASSUME NEW G, Shape(G), NEW h, NEW D, NEW l, Holds(h, G, D, l),
         NEW g, MemOK(g), g.brk = h.brk, g.start = h.start,
         \A a \in Int : a # G.brk - 4 => Same(h, g, a)
  PROVE  Holds(g, G, D, l) /\ Kept(h, g, G, BH!Blocks(G))
<1>1. /\ l \in Seq(BH!Blocks(G)) /\ Injective(l) /\ Chain(h, l) /\ Len(l) \in Nat
      /\ D \subseteq BH!Blocks(G) /\ \A x \in D : TagAt(h, G, x)
  BY DEF Holds
<1>2. /\ FirstBp - 8 \in Int /\ FirstBp - 8 # G.brk - 4
      /\ Prologue - 4 \in Int /\ Prologue - 4 # G.brk - 4
      /\ Prologue \in Int /\ Prologue # G.brk - 4
  <2>1. FirstBp <= G.brk /\ G.brk \in Nat
    <3>1. FirstBp \in BH!Blocks(G)
      BY DEF Shape, BH!Tiled
    <3>2. QED
      BY <3>1, BlockNumbers, Numbers
  <2>2. QED
    BY <2>1, Numbers
<1>3. \A x \in BH!Blocks(G) :
        /\ x - 4 \in Int /\ x - 4 # G.brk - 4
        /\ x \in Int /\ x # G.brk - 4 /\ x + 8 \in Int /\ x + 8 # G.brk - 4
        /\ x + G.size[x] - 8 \in Int /\ x + G.size[x] - 8 # G.brk - 4
  <2>1. ASSUME NEW x \in BH!Blocks(G)
        PROVE  /\ x - 4 \in Int /\ x - 4 # G.brk - 4
               /\ x \in Int /\ x # G.brk - 4 /\ x + 8 \in Int /\ x + 8 # G.brk - 4
               /\ x + G.size[x] - 8 \in Int /\ x + G.size[x] - 8 # G.brk - 4
    BY <2>1, BlockNumbers
  <2>2. QED
    BY <2>1
<1>4. Kept(h, g, G, BH!Blocks(G))
  <2>1. ASSUME NEW x \in BH!Blocks(G), NEW a \in Int, Own(G, x, a)
        PROVE  Same(h, g, a)
    <3>1. x + G.size[x] <= G.brk /\ x \in Nat /\ G.size[x] \in Nat /\ G.brk \in Nat
      BY BlockNumbers
    <3>2. a # G.brk - 4
      BY <2>1, <3>1, Numbers DEF Own
    <3>3. QED
      BY <3>2
  <2>2. QED
    BY <2>1 DEF Kept
<1>5. \A i \in 1..Len(l) + 1 : Same(h, g, At(l, i))
  <2>1. ASSUME NEW i \in 1..Len(l) + 1 PROVE Same(h, g, At(l, i))
    <3>1. i <= Len(l) => l[i] \in BH!Blocks(G)
      BY <1>1
    <3>2. QED
      BY <3>1, <1>2, <1>3 DEF At
  <2>2. QED
    BY <2>1
<1>6. \A i \in 1..Len(l) : Same(h, g, At(l, i) + 8)
  <2>1. ASSUME NEW i \in 1..Len(l) PROVE Same(h, g, At(l, i) + 8)
    <3>1. l[i] \in BH!Blocks(G) /\ i <= Len(l)
      BY <1>1
    <3>2. QED
      BY <3>1, <1>3 DEF At
  <2>2. QED
    BY <2>1
<1>7. Chain(g, l)
  BY <1>1, <1>5, <1>6, ChainKept
<1>8. \A x \in D : TagAt(g, G, x)
  <2>1. ASSUME NEW x \in D PROVE TagAt(g, G, x)
    <3>1. /\ Same(h, g, x - 4) /\ Same(h, g, x + G.size[x] - 8) /\ TagAt(h, G, x)
      BY <1>1, <1>3
    <3>2. QED
      BY <3>1, Numbers DEF TagAt, Same, HDRP
  <2>2. QED
    BY <2>1
<1>9. /\ Get(g, FirstBp - DSIZE) = Get(h, FirstBp - DSIZE)
      /\ Get(g, HDRP(Prologue)) = Get(h, HDRP(Prologue))
  BY <1>2, Numbers DEF Same, HDRP
<1>10. QED
  BY <1>1, <1>4, <1>7, <1>8, <1>9 DEF Holds

(* extend_heap before it coalesces: tags for the new block p at the old    *)
(* break and the epilogue at the new one.                                  *)
LEMMA GrowRep ==
  ASSUME NEW X, Shape(X), NEW p \in BH!Blocks(X), p \notin X.alloc,
         X.brk = p + X.size[p],
         NEW h, Holds(h, X, BH!Blocks(X) \ {p}, X.list)
  PROVE  LET k == PutTags(h, p, X.size[p], 0)
             g == Put(k, HDRP(RightBlkp(k, p)), 1)
         IN Rep(g, X) /\ Kept(h, g, X, BH!Blocks(X) \ {p})
<1> DEFINE B == BH!Blocks(X)
           k == PutTags(h, p, X.size[p], 0)
           g == Put(k, HDRP(RightBlkp(k, p)), 1)
<1>1. k = PutTags(h, p, X.size[p], IF p \in X.alloc THEN 1 ELSE 0)
  OBVIOUS
<1> DEFINE u == PutTags(h, p, X.size[p], IF p \in X.alloc THEN 1 ELSE 0)
           D == B \ {p}
<1>2. Holds(h, X, D, X.list)
  OBVIOUS
<1>3. D \cup {p} = B
  OBVIOUS
<1> HIDE DEF D
<1>4. Holds(u, X, D \cup {p}, X.list) /\ Kept(h, u, X, B \ {p})
  BY <1>2, TagBlock
<1> HIDE DEF u, k
<1>5. Holds(k, X, B, X.list) /\ Kept(h, k, X, B \ {p})
  BY <1>1, <1>3, <1>4 DEF u
<1>6. RightBlkp(k, p) = X.brk
  <2>1. TagAt(k, X, p)
    BY <1>5 DEF Holds
  <2>2. QED
    BY <2>1, ReadTag
<1>7. g = Put(k, X.brk - 4, 1) /\ HDRP(X.brk) = X.brk - 4
  BY <1>6, Numbers DEF HDRP
<1>8. X.brk - 4 \in Words /\ MemOK(k) /\ k.brk = X.brk /\ 1 \in Nat
  BY <1>5, BaseWords DEF Holds
<1>9. /\ MemOK(g) /\ g.brk = k.brk /\ g.start = k.start /\ Get(g, X.brk - 4) = 1
      /\ \A a : a # X.brk - 4 => Same(k, g, a)
  <2> HIDE DEF g
  <2>1. QED
    BY <1>7, <1>8, PutFacts
<1> HIDE DEF g
<1>10. Holds(g, X, B, X.list) /\ Kept(k, g, X, B)
  BY <1>5, <1>8, <1>9, HoldsElsewhere
<1>11. Kept(k, g, X, B \ {p})
  BY <1>10 DEF Kept
<1>12. Kept(h, g, X, B \ {p})
  BY <1>5, <1>11, KeptTwice
<1>13. QED
  BY <1>7, <1>9, <1>10, <1>12 DEF Rep, g, k

(* Unlinking a block disturbs no block of a set E that holds no listed one.*)
LEMMA RemoveKeeps ==
  ASSUME NEW G, Shape(G), NEW h, NEW D, NEW l, Holds(h, G, D, l),
         NEW F, BH!Lists(l, F), NEW b \in F, NEW E, E \subseteq BH!Blocks(G) \ F
  PROVE  /\ Holds(RemoveBlock(h, b), G, D, BH!Without(l, b))
         /\ Get(RemoveBlock(h, b), G.brk - 4) = Get(h, G.brk - 4)
         /\ Kept(h, RemoveBlock(h, b), G, E)
BY RemoveRep

(* mem_sbrk moves brk and nothing else.                                    *)
LEMMA SbrkFacts ==
  ASSUME NEW h, MemOK(h), NEW n
  PROVE  /\ MemOK(Sbrk(h, n)) /\ Sbrk(h, n).brk = h.brk + n
         /\ Sbrk(h, n).start = h.start
         /\ \A x : Same(h, Sbrk(h, n), x)
<1> DEFINE g == Sbrk(h, n)
           v == h.brk + n
<1>1. g = [h EXCEPT !.brk = v]
  BY DEF Sbrk
<1> HIDE DEF g, v
<1>2. /\ MemOK(g) /\ g.brk = v /\ g.start = h.start
      /\ \A x : Same(h, g, x)
  BY <1>1, BrkIs
<1>3. QED
  BY <1>2 DEF g, v

(* extend_heap by n bytes.                                                 *)
LEMMA ExtendRep ==
  ASSUME NEW H, BH!Good(H), NEW h, Rep(h, H),
         NEW words \in Nat, NEW n \in Nat, n = (words + (words % 2)) * WSIZE,
         n % 8 = 0, n >= 24, BH!CanExtend(H, n)
  PROVE  LET g == ExtendHeap(h, words)
         IN Rep(g, BH!ExtendHeap(H, n)) /\ Kept(h, g, H, H.alloc)
<1> DEFINE X == BH!Extended(H, n)
           p == H.brk
           B == BH!Blocks(H)
           r == Sbrk(h, n)
           k == PutTags(r, p, n, 0)
           m == Put(k, HDRP(RightBlkp(k, p)), 1)
           g == ExtendHeap(h, words)
<1>1. /\ BH!ExtendHeap(H, n) = BH!Coalesce(X, p) /\ BH!Loose(X, p)
      /\ BH!Blocks(X) = B \cup {p} /\ p \notin B
      /\ X.size[p] = n /\ \A d \in B : X.size[d] = H.size[d]
      /\ X.alloc = H.alloc /\ X.list = H.list /\ X.brk = p + n
  BY BlockHeapOK, BH!ExtendedLoose, Numbers
<1>2. /\ Shape(H) /\ Shape(X) /\ H.alloc \subseteq B /\ p \notin X.alloc
  BY <1>1 DEF BH!Good, BH!Loose, Shape, BH!HeapType
<1>3. /\ Holds(h, H, B, H.list) /\ h.brk = p
  BY DEF Rep, Holds
<1> HIDE DEF X, p, B
<1>4. g = Coalesce(m, p)
  BY <1>3 DEF ExtendHeap
<1>5. /\ MemOK(r) /\ r.brk = p + n /\ r.start = h.start
      /\ \A a : Same(h, r, a)
  <2>1. MemOK(h)
    BY <1>3 DEF Holds
  <2>2. QED
    BY <2>1, <1>3, SbrkFacts
<1> HIDE DEF r
<1>6. Holds(r, X, BH!Blocks(X) \ {p}, X.list)
  <2>1. /\ H.list \in Seq(B) /\ Injective(H.list) /\ Chain(h, H.list)
        /\ \A x \in B : TagAt(h, H, x)
    BY <1>3 DEF Holds, B
  <2>2. Chain(r, H.list)
    BY <2>1, <1>5, ChainKept
  <2>3. H.list \in Seq(BH!Blocks(X))
    BY <1>1, <2>1
  <2>4. BH!Blocks(X) \ {p} = B
    BY <1>1
  <2>5. \A x \in B : TagAt(r, X, x)
    BY <2>1, <1>1, <1>5 DEF TagAt, Tag, Same
  <2>6. /\ Get(r, FirstBp - DSIZE) = 0
        /\ Get(r, HDRP(Prologue)) = MIN_BLOCKSIZE + 1
    BY <1>3, <1>5 DEF Holds, Same
  <2>7. QED
    BY <2>1, <2>2, <2>3, <2>4, <2>5, <2>6, <1>1, <1>5 DEF Holds
<1>7. p \in BH!Blocks(X)
  BY <1>1
<1>8. /\ Rep(m, X) /\ Kept(r, m, X, BH!Blocks(X) \ {p})
  BY <1>1, <1>2, <1>6, <1>7, GrowRep
<1> HIDE DEF m
<1>9. Rep(g, BH!ExtendHeap(H, n)) /\ Kept(m, g, X, X.alloc)
  BY <1>1, <1>4, <1>8, CoalesceRep
<1>10. Kept(h, g, H, H.alloc)
  <2>1. X.alloc \subseteq BH!Blocks(X) \ {p}
    BY <1>1, <1>2
  <2>2. Kept(r, m, X, X.alloc)
    BY <2>1, <1>8 DEF Kept
  <2>3. Kept(r, g, X, X.alloc)
    BY <2>2, <1>9, KeptTwice
  <2>4. \A x \in H.alloc : X.size[x] = H.size[x]
    BY <1>1, <1>2
  <2>5. QED
    BY <2>3, <2>4, <1>1, <1>5 DEF Kept, Own, Same
<1>11. QED
  BY <1>9, <1>10 DEF g

(* The same facts about a heap g said to be the result.                    *)
LEMMA PutIs ==
  ASSUME NEW h, MemOK(h), NEW a \in Words, NEW v \in Nat, NEW g, g = Put(h, a, v)
  PROVE  /\ MemOK(g) /\ g.brk = h.brk /\ Get(g, a) = v
         /\ \A x : x # a => Same(h, g, x)
BY PutFacts

(* mm_init, also on the leftovers of earlier traces.                       *)
LEMMA FreshRep ==
  ASSUME NEW h, MemOK(h), h.brk = MemStart, Get(h, FirstBp - DSIZE) = 0
  PROVE  Rep(MmInit(h), BH!FreshHeap)
<1> DEFINE p == MemStart
           h0 == [h EXCEPT !.brk = p + 48]
           h1 == Put(h0, p, 0)
           h2 == Put(h1, p + 4, 25)
           h3 == Put(h2, p + 8, 0)
           h4 == Put(h3, p + 12, 0)
           h5 == Put(h4, p + 24, 25)
           h6 == Put(h5, p + 28, 1)
           e == [h6 EXCEPT !.start = p + 8]
           X == BH!Extended(BH!EmptyHeap, 32)
           r == Sbrk(e, 32)
           k == PutTags(r, FirstBp, 32, 0)
           m == Put(k, HDRP(RightBlkp(k, FirstBp)), 1)
<1>1. MmInit(h) = ExtendHeap(e, InitWords)
  <2>1. Sbrk(h, 2 * MIN_BLOCKSIZE) = h0
    BY Numbers DEF Sbrk
  <2>2. /\ p + WSIZE = p + 4 /\ MIN_BLOCKSIZE + 1 = 25 /\ p + DSIZE = p + 8
        /\ p + DSIZE + WSIZE = p + 12 /\ p + MIN_BLOCKSIZE = p + 24
        /\ p + WSIZE + MIN_BLOCKSIZE = p + 28
    BY Numbers
  <2> HIDE DEF h0
  <2>3. QED
    BY <2>1, <2>2 DEF MmInit
<1>2. /\ p \in Words /\ p + 4 \in Words /\ p + 8 \in Words /\ p + 12 \in Words
      /\ p + 24 \in Words /\ p + 28 \in Words
      /\ 0 \in Nat /\ 1 \in Nat /\ 25 \in Nat /\ p \in Nat
  BY Numbers DEF Words
<1> HIDE DEF p, h0, h1, h2, h3, h4, h5, h6, e, r
<1>3. /\ MemOK(h0) /\ h0.brk = p + 48 /\ \A a : Same(h, h0, a)
  BY BrkIs DEF h0
<1>4. /\ MemOK(h1) /\ h1.brk = p + 48 /\ \A a : a # p => Same(h0, h1, a)
  <2>1. h1 = Put(h0, p, 0)
    BY DEF h1
  <2>2. p \in Words /\ 0 \in Nat /\ MemOK(h0)
    BY <1>2, <1>3
  <2>3. QED
    BY <2>1, <2>2, <1>3, PutIs
<1>5. /\ MemOK(h2) /\ h2.brk = p + 48 /\ \A a : a # p + 4 => Same(h1, h2, a)
      /\ Get(h2, p + 4) = 25
  <2>1. h2 = Put(h1, p + 4, 25)
    BY DEF h2
  <2>2. p + 4 \in Words /\ 25 \in Nat /\ MemOK(h1)
    BY <1>2, <1>4
  <2>3. QED
    BY <2>1, <2>2, <1>4, PutIs
<1>6. /\ MemOK(h3) /\ h3.brk = p + 48 /\ \A a : a # p + 8 => Same(h2, h3, a)
      /\ Get(h3, p + 8) = 0
  <2>1. h3 = Put(h2, p + 8, 0)
    BY DEF h3
  <2>2. p + 8 \in Words /\ 0 \in Nat /\ MemOK(h2)
    BY <1>2, <1>5
  <2>3. /\ MemOK(h3) /\ h3.brk = h2.brk /\ Get(h3, p + 8) = 0
        /\ \A a : a # p + 8 => Same(h2, h3, a)
    BY <2>1, <2>2, PutIs
  <2>4. QED
    BY <2>3, <1>5
<1>7. /\ MemOK(h4) /\ h4.brk = p + 48 /\ \A a : a # p + 12 => Same(h3, h4, a)
  <2>1. h4 = Put(h3, p + 12, 0)
    BY DEF h4
  <2>2. p + 12 \in Words /\ 0 \in Nat /\ MemOK(h3)
    BY <1>2, <1>6
  <2>3. QED
    BY <2>1, <2>2, <1>6, PutIs
<1>8. /\ MemOK(h5) /\ h5.brk = p + 48 /\ \A a : a # p + 24 => Same(h4, h5, a)
  <2>1. h5 = Put(h4, p + 24, 25)
    BY DEF h5
  <2>2. p + 24 \in Words /\ 25 \in Nat /\ MemOK(h4)
    BY <1>2, <1>7
  <2>3. QED
    BY <2>1, <2>2, <1>7, PutIs
<1>9. /\ MemOK(h6) /\ h6.brk = p + 48 /\ \A a : a # p + 28 => Same(h5, h6, a)
  <2>1. h6 = Put(h5, p + 28, 1)
    BY DEF h6
  <2>2. p + 28 \in Words /\ 1 \in Nat /\ MemOK(h5)
    BY <1>2, <1>8
  <2>3. QED
    BY <2>1, <2>2, <1>8, PutIs
<1>10. /\ MemOK(e) /\ e.brk = p + 48 /\ e.start = p + 8 /\ \A a : Same(h6, e, a)
  <2>1. e = [h6 EXCEPT !.start = p + 8]
    BY DEF e
  <2>2. QED
    BY <2>1, <1>9, StartIs
<1>11. /\ MemOK(r) /\ r.brk = p + 80 /\ r.start = p + 8 /\ \A a : Same(e, r, a)
  <2>1. r = [e EXCEPT !.brk = p + 80]
    BY <1>2, <1>10 DEF Sbrk, r
  <2>2. QED
    BY <2>1, <1>10, BrkIs
<1>12. /\ Get(r, p + 40) = 0 /\ Get(r, p + 4) = 25 /\ Get(r, p + 8) = 0
  <2>1. Get(h, p + 40) = 0
    BY Numbers DEF p
  <2>2. /\ p + 40 # p /\ p + 40 # p + 4 /\ p + 40 # p + 8 /\ p + 40 # p + 12
        /\ p + 40 # p + 24 /\ p + 40 # p + 28
        /\ p + 4 # p + 8 /\ p + 4 # p + 12 /\ p + 4 # p + 24 /\ p + 4 # p + 28
        /\ p + 8 # p + 12 /\ p + 8 # p + 24 /\ p + 8 # p + 28
    BY <1>2
  <2>3. /\ Get(h1, p + 40) = Get(h, p + 40)
        /\ Get(h2, p + 40) = Get(h1, p + 40)
        /\ Get(h3, p + 40) = Get(h2, p + 40) /\ Get(h3, p + 4) = Get(h2, p + 4)
    BY <2>2, <1>3, <1>4, <1>5, <1>6 DEF Same
  <2>4. \A a \in {p + 40, p + 4, p + 8} : Get(h4, a) = Get(h3, a)
    BY <2>2, <1>7 DEF Same
  <2>5. \A a \in {p + 40, p + 4, p + 8} : Get(h5, a) = Get(h4, a)
    BY <2>2, <1>8 DEF Same
  <2>6. \A a \in {p + 40, p + 4, p + 8} : Get(h6, a) = Get(h5, a)
    BY <2>2, <1>9 DEF Same
  <2>7. \A a \in {p + 40, p + 4, p + 8} : Get(r, a) = Get(h6, a)
    BY <1>10, <1>11 DEF Same
  <2>8. QED
    BY <2>1, <2>3, <2>4, <2>5, <2>6, <2>7, <1>5, <1>6
<1>13. /\ BH!FreshHeap = BH!Coalesce(X, FirstBp) /\ BH!Loose(X, FirstBp)
       /\ BH!Blocks(X) = {FirstBp} /\ X.size[FirstBp] = 32
       /\ X.alloc = {} /\ X.list = << >> /\ X.brk = FirstBp + 32
  <2>1. InitWords * WSIZE = 32
    BY Numbers
  <2>2. QED
    BY <2>1, BlockHeapOK, BH!FirstBlockLoose
<1>14. Shape(X)
  BY <1>13 DEF BH!Loose, Shape
<1>15. /\ FirstBp = p + 48 /\ Prologue = p + 8 /\ FirstBp - DSIZE = p + 40
       /\ HDRP(Prologue) = p + 4 /\ MIN_BLOCKSIZE + 1 = 25
  BY Numbers DEF p, HDRP
<1> HIDE DEF X
<1>16. Holds(r, X, BH!Blocks(X) \ {FirstBp}, X.list)
  <2>1. BH!Blocks(X) \ {FirstBp} = {} /\ X.list \in Seq(BH!Blocks(X))
        /\ Len(X.list) = 0
    BY <1>13
  <2>2. Injective(X.list)
    BY <1>13 DEF Injective
  <2>3. Chain(r, X.list)
    <3>1. At(X.list, 1) = Prologue
      BY <2>1 DEF At
    <3>2. QED
      BY <3>1, <2>1, <1>11, <1>12, <1>15, Numbers DEF Chain
  <2>4. r.brk = X.brk
    BY <1>2, <1>11, <1>13, <1>15
  <2>5. QED
    BY <2>1, <2>2, <2>3, <2>4, <1>11, <1>12, <1>15 DEF Holds
<1>17. FirstBp \in BH!Blocks(X) /\ FirstBp \notin X.alloc
  BY <1>13
<1>18. Rep(m, X)
  <2>1. /\ Shape(X) /\ FirstBp \in BH!Blocks(X) /\ FirstBp \notin X.alloc
        /\ X.brk = FirstBp + X.size[FirstBp]
        /\ Holds(r, X, BH!Blocks(X) \ {FirstBp}, X.list)
    BY <1>13, <1>14, <1>16, <1>17
  <2> DEFINE u == PutTags(r, FirstBp, X.size[FirstBp], 0)
             w == Put(u, HDRP(RightBlkp(u, FirstBp)), 1)
  <2>2. Rep(w, X)
    BY <2>1, GrowRep
  <2>3. w = m
    BY <1>13 DEF m
  <2> HIDE DEF w, u, m
  <2>4. QED
    BY <2>2, <2>3
<1>19. ExtendHeap(e, InitWords) = Coalesce(m, FirstBp)
  <2>1. (InitWords + (InitWords % 2)) * WSIZE = 32 /\ e.brk = FirstBp
    BY <1>10, <1>15, Numbers
  <2>2. QED
    BY <2>1 DEF ExtendHeap, r
<1> HIDE DEF m
<1>20. QED
  BY <1>1, <1>13, <1>18, <1>19, CoalesceRep

(* A heap that differs in the tag of one block only.                       *)
LEMMA RetagRep ==
  ASSUME NEW H, Shape(H), NEW X, Shape(X), NEW b \in BH!Blocks(X),
         X.brk = H.brk, BH!Blocks(H) \subseteq BH!Blocks(X),
         \A x \in BH!Blocks(H) \ {b} : /\ X.size[x] = H.size[x]
                                       /\ x \in X.alloc <=> x \in H.alloc,
         NEW h, Rep(h, H), NEW bit, bit = (IF b \in X.alloc THEN 1 ELSE 0)
  PROVE  LET k == PutTags(h, b, X.size[b], bit)
         IN /\ Holds(k, X, BH!Blocks(H) \cup {b}, H.list)
            /\ Get(k, X.brk - 4) = 1
            /\ Kept(h, k, X, BH!Blocks(X) \ {b})
<1> DEFINE D == BH!Blocks(H) \ {b}
           k == PutTags(h, b, X.size[b], IF b \in X.alloc THEN 1 ELSE 0)
<1>1. /\ Holds(h, H, BH!Blocks(H), H.list) /\ Get(h, X.brk - 4) = 1
  BY Numbers DEF Rep, HDRP
<1>2. /\ D \subseteq BH!Blocks(X) /\ D \cup {b} = BH!Blocks(H) \cup {b}
      /\ H.list \in Seq(BH!Blocks(X))
  BY <1>1 DEF Holds
<1>3. \A x \in D : TagAt(h, X, x)
  BY <1>1 DEF Holds, TagAt, Tag
<1>4. Holds(h, X, D, H.list)
  BY <1>1, <1>2, <1>3 DEF Holds
<1> HIDE DEF D
<1>5. /\ Holds(k, X, D \cup {b}, H.list)
      /\ Get(k, X.brk - 4) = Get(h, X.brk - 4)
      /\ Kept(h, k, X, BH!Blocks(X) \ {b})
  BY <1>4, TagBlock
<1> HIDE DEF k
<1>6. k = PutTags(h, b, X.size[b], bit)
  BY DEF k
<1>7. QED
  BY <1>1, <1>2, <1>5, <1>6

(* mm_free.                                                                *)
LEMMA FreeRep ==
  ASSUME NEW H, BH!Good(H), NEW h, Rep(h, H), NEW p \in H.alloc
  PROVE  LET g == Free(h, p)
         IN Rep(g, BH!Coalesce(BH!Clear(H, p), p)) /\ Kept(h, g, H, H.alloc \ {p})
<1> DEFINE X == BH!Clear(H, p)
           B == BH!Blocks(H)
           k == PutTags(h, p, X.size[p], 0)
           g == Free(h, p)
<1>1. Shape(H) /\ p \in B /\ H.alloc \subseteq B
  BY DEF BH!Good, Shape, BH!HeapType
<1>2. /\ BH!Loose(X, p) /\ X.size = H.size /\ X.alloc = H.alloc \ {p}
      /\ X.brk = H.brk
  BY BlockHeapOK, BH!ClearFacts
<1>3. X.list = H.list
  BY DEF BH!Clear, BH!Heap
<1> HIDE DEF X, k
<1>4. Shape(X) /\ BH!Blocks(X) = B /\ p \notin X.alloc
  BY <1>2 DEF BH!Loose, Shape, BH!Blocks
<1>5. g = Coalesce(k, p)
  <2>1. TagAt(h, H, p)
    BY <1>1 DEF Rep, Holds
  <2>2. GetSize(h, HDRP(p)) = X.size[p]
    BY <1>1, <1>2, <2>1, ReadTag
  <2>3. QED
    BY <2>2 DEF Free, k
<1>6. /\ Holds(k, X, B \cup {p}, H.list)
      /\ Get(k, X.brk - 4) = 1
      /\ Kept(h, k, X, B \ {p})
  <2>1. /\ p \in BH!Blocks(X) /\ BH!Blocks(H) \subseteq BH!Blocks(X)
        /\ 0 = IF p \in X.alloc THEN 1 ELSE 0
        /\ \A x \in B \ {p} : /\ X.size[x] = H.size[x]
                              /\ x \in X.alloc <=> x \in H.alloc
    BY <1>1, <1>2, <1>4
  <2> HIDE DEF B
  <2>2. X.brk = H.brk /\ Shape(H) /\ Shape(X)
    BY <1>1, <1>2, <1>4
  <2>3. /\ Holds(k, X, BH!Blocks(H) \cup {p}, H.list)
        /\ Get(k, X.brk - 4) = 1
        /\ Kept(h, k, X, BH!Blocks(X) \ {p})
    BY <2>1, <2>2, RetagRep DEF k, B
  <2>4. QED
    BY <2>3, <1>4 DEF B
<1>7. Rep(k, X)
  <2>1. B \cup {p} = BH!Blocks(X)
    BY <1>1, <1>4
  <2>2. Holds(k, X, BH!Blocks(X), X.list)
    BY <1>3, <1>4, <1>6, <2>1
  <2>3. HDRP(X.brk) = X.brk - 4
    BY Numbers DEF HDRP
  <2>4. QED
    BY <2>2, <2>3, <1>6 DEF Rep
<1>8. Rep(g, BH!Coalesce(X, p)) /\ Kept(k, g, X, X.alloc)
  BY <1>2, <1>5, <1>7, CoalesceRep
<1>9. Kept(h, g, H, H.alloc \ {p})
  <2>1. Kept(h, k, X, X.alloc)
    BY <1>1, <1>2, <1>6 DEF Kept
  <2>2. Kept(h, g, X, X.alloc)
    BY <1>8, <2>1, KeptTwice
  <2>3. QED
    BY <1>2, <2>2 DEF Kept, Own
<1>10. QED
  BY <1>8, <1>9 DEF g, X

(* place, whether the rest of the block is split off or not.               *)
LEMMA PlaceRep ==
  ASSUME NEW H, BH!Good(H), NEW h, Rep(h, H), NEW b \in BH!FreeBlocks(H),
         NEW asize \in Nat, asize % 8 = 0, asize >= 24, H.size[b] >= asize
  PROVE  LET g == Place(h, b, asize)
         IN Rep(g, BH!Place(H, b, asize)) /\ Kept(h, g, H, H.alloc)
<1> DEFINE B == BH!Blocks(H)
           F == BH!FreeBlocks(H)
           M == BH!Mark(BH!RemoveBlock(H, b), b)
           t == BH!Without(H.list, b)
           size == GetSize(h, HDRP(b))
           g == Place(h, b, asize)
<1>1. /\ Shape(H) /\ b \in B /\ b \notin H.alloc /\ H.alloc \subseteq B
      /\ H.alloc \subseteq B \ F /\ BH!Lists(H.list, F)
      /\ BH!HeapType(H) /\ BH!Tiled(H)
  BY BlockHeapOK, BH!GoodLists DEF BH!Good, Shape, BH!HeapType, BH!FreeBlocks
<1>2. /\ M.size = H.size /\ M.alloc = H.alloc \cup {b} /\ M.list = t
      /\ M.brk = H.brk
  BY DEF BH!Mark, BH!RemoveBlock, BH!Heap, BH!Without
<1>3. size = H.size[b]
  <2>1. TagAt(h, H, b)
    BY <1>1 DEF Rep, Holds
  <2>2. QED
    BY <1>1, <2>1, ReadTag
<1>4. /\ b \in Nat /\ H.size[b] \in Nat
  BY <1>1, BlockNumbers
<1> HIDE DEF size, M, F, t
<1>5. CASE ~(H.size[b] - asize >= 24)
  <2> DEFINE k == PutTags(h, b, M.size[b], 1)
             m == RemoveBlock(k, b)
  <2>1. g = m /\ BH!Place(H, b, asize) = M
    <3>1. g = m
      BY <1>2, <1>3, <1>5, Numbers DEF Place, size
    <3>2. BH!Place(H, b, asize) = M
      BY <1>5, Numbers DEF BH!Place, M
    <3>3. QED
      BY <3>1, <3>2
  <2>2. Shape(M) /\ BH!Blocks(M) = B
    <3>1. BH!Good(BH!Place(H, b, asize))
      BY <1>1, BlockHeapOK, BH!PlaceFacts, Numbers
    <3>2. Shape(M)
      BY <2>1, <3>1 DEF BH!Good, Shape
    <3>3. QED
      BY <3>2, <1>2 DEF BH!Blocks
  <2>3. /\ Holds(k, M, B \cup {b}, H.list)
        /\ Get(k, M.brk - 4) = 1
        /\ Kept(h, k, M, BH!Blocks(M) \ {b})
    <3>1. /\ b \in BH!Blocks(M) /\ BH!Blocks(H) \subseteq BH!Blocks(M)
          /\ 1 = IF b \in M.alloc THEN 1 ELSE 0
          /\ \A x \in B \ {b} : /\ M.size[x] = H.size[x]
                                /\ x \in M.alloc <=> x \in H.alloc
      BY <1>1, <1>2, <2>2
    <3> HIDE DEF B, k
    <3>2. QED
      BY <1>1, <1>2, <2>2, <3>1, RetagRep DEF k, B
  <2>4. B \cup {b} = B
    BY <1>1
  <2>5. b \in F
    BY DEF F
  <2> HIDE DEF k
  <2>6. /\ Holds(m, M, B, t)
        /\ Get(m, M.brk - 4) = Get(k, M.brk - 4)
        /\ Kept(k, m, M, H.alloc)
    <3>1. Holds(k, M, B, H.list)
      BY <2>3, <2>4
    <3>2. H.alloc \subseteq BH!Blocks(M) \ F
      BY <1>1, <2>2
    <3> HIDE DEF B
    <3>3. QED
      BY <1>1, <2>2, <2>5, <3>1, <3>2, RemoveRep DEF t
  <2>7. Rep(m, M)
    BY <1>2, <2>2, <2>3, <2>6, Numbers DEF Rep, HDRP
  <2>8. Kept(h, m, M, H.alloc)
    <3>1. Kept(h, k, M, H.alloc)
      BY <1>1, <2>2, <2>3 DEF Kept
    <3>2. QED
      BY <2>6, <3>1, KeptTwice
  <2>9. Kept(h, m, H, H.alloc)
    BY <1>2, <2>8 DEF Kept, Own
  <2>10. QED
    BY <2>1, <2>7, <2>9
<1>6. CASE H.size[b] - asize >= 24
  <2> DEFINE X == BH!Split(M, b, asize)
             r == b + asize
             k == PutTags(h, b, X.size[b], 1)
             m == RemoveBlock(k, b)
             u == PutTags(m, r, X.size[r], 0)
  <2>1. /\ BH!Loose(X, r) /\ X.alloc = H.alloc \cup {b} /\ X.brk = H.brk
        /\ \A p \in H.alloc : X.size[p] = H.size[p]
        /\ X.size[b] = asize
    BY <1>1, <1>6, BlockHeapOK, BH!SplitFacts, Numbers DEF M
  <2>2. BH!Place(H, b, asize) = BH!Coalesce(X, r)
    BY <1>6, Numbers DEF BH!Place, M
  <2>3. r \notin B
    <3>1. ASSUME r \in B PROVE FALSE
      <4>1. b < r
        BY <1>4
      <4>2. BH!RightOf(H, b) <= r
        BY <1>1, <3>1, <4>1 DEF BH!Tiled
      <4>3. QED
        BY <4>2, <1>4, <1>6 DEF BH!RightOf
    <3>2. QED
      BY <3>1
  <2>4. /\ BH!Blocks(X) = B \cup {r} /\ X.size[r] = H.size[b] - asize
        /\ \A x \in B \ {b} : X.size[x] = H.size[x]
        /\ X.list = t /\ r # b
    <3> DEFINE sz == [d \in BH!Blocks(M) \cup {b + asize} |->
                        CASE d = b         -> asize
                          [] d = b + asize -> M.size[b] - asize
                          [] OTHER         -> M.size[d]]
    <3>1. X = BH!Heap(sz, M.alloc, M.list, M.brk)
      BY DEF BH!Split
    <3>2. X.size = sz /\ X.list = M.list
      BY <3>1 DEF BH!Heap
    <3>3. BH!Blocks(M) = B
      BY <1>2 DEF BH!Blocks
    <3>4. r # b
      BY <1>1, <2>3
    <3>5. \A d \in B \cup {r} : sz[d] = CASE d = b -> asize
                                          [] d = r -> H.size[b] - asize
                                          [] OTHER -> H.size[d]
      BY <3>3, <1>2
    <3>6. DOMAIN sz = B \cup {r}
      BY <3>3
    <3> HIDE DEF sz, X
    <3>7. BH!Blocks(X) = B \cup {r}
      BY <3>2, <3>6 DEF BH!Blocks
    <3>8. X.size[r] = H.size[b] - asize
      BY <3>2, <3>4, <3>5
    <3>9. \A x \in B \ {b} : X.size[x] = H.size[x]
      BY <3>2, <3>5, <2>3
    <3>10. QED
      BY <3>2, <3>4, <3>7, <3>8, <3>9, <1>2
  <2> HIDE DEF X
  <2>5. Shape(X)
    BY <2>1 DEF BH!Loose, Shape
  <2>6. /\ Holds(k, X, B \cup {b}, H.list)
        /\ Get(k, X.brk - 4) = 1
        /\ Kept(h, k, X, BH!Blocks(X) \ {b})
    <3>1. /\ b \in BH!Blocks(X) /\ BH!Blocks(H) \subseteq BH!Blocks(X)
          /\ 1 = IF b \in X.alloc THEN 1 ELSE 0
          /\ \A x \in B \ {b} : /\ X.size[x] = H.size[x]
                                /\ x \in X.alloc <=> x \in H.alloc
      BY <1>1, <2>1, <2>4
    <3> HIDE DEF B, k
    <3>2. QED
      BY <1>1, <2>1, <2>5, <3>1, RetagRep DEF k, B
  <2>7. B \cup {b} = B /\ b \in F
    BY <1>1 DEF F
  <2> HIDE DEF k
  <2>8. /\ Holds(m, X, B, t)
        /\ Get(m, X.brk - 4) = Get(k, X.brk - 4)
        /\ Kept(k, m, X, H.alloc)
    <3>1. Holds(k, X, B, H.list)
      BY <2>6, <2>7
    <3>2. H.alloc \subseteq BH!Blocks(X) \ F
      BY <1>1, <2>4
    <3> HIDE DEF B
    <3>3. Shape(X) /\ BH!Lists(H.list, F) /\ b \in F
      BY <1>1, <2>5, <2>7
    <3> DEFINE E == H.alloc
    <3>4. E \subseteq BH!Blocks(X) \ F
      BY <3>2
    <3> HIDE DEF F, E
    <3>5. /\ Holds(RemoveBlock(k, b), X, B, BH!Without(H.list, b))
          /\ Get(RemoveBlock(k, b), X.brk - 4) = Get(k, X.brk - 4)
          /\ Kept(k, RemoveBlock(k, b), X, E)
      BY <3>1, <3>3, <3>4, RemoveKeeps
    <3>6. m = RemoveBlock(k, b) /\ t = BH!Without(H.list, b)
      BY DEF m, t
    <3> HIDE DEF m, t
    <3>7. QED
      BY <3>5, <3>6 DEF E
  <2> HIDE DEF m
  <2>9. RightBlkp(m, b) = r
    <3>1. TagAt(m, X, b) /\ b \in BH!Blocks(X)
      BY <2>4, <2>8, <1>1 DEF Holds
    <3>2. QED
      BY <3>1, <2>1, <2>5, ReadTag
  <2>10. g = Coalesce(u, r)
    <3>1. m = RemoveBlock(PutTags(h, b, asize, 1), b)
      BY <2>1 DEF k, m
    <3>2. X.size[r] = size - asize /\ size - asize >= MIN_BLOCKSIZE
      BY <1>3, <1>6, <2>4, Numbers
    <3> HIDE DEF r
    <3>3. QED
      BY <3>1, <3>2, <2>9 DEF Place, size
  <2>11. /\ Holds(u, X, BH!Blocks(X), t)
         /\ Get(u, X.brk - 4) = 1
         /\ Kept(m, u, X, BH!Blocks(X) \ {r})
    <3> DEFINE v == PutTags(m, r, X.size[r], IF r \in X.alloc THEN 1 ELSE 0)
    <3>1. r \in BH!Blocks(X) /\ r \notin X.alloc
      BY <2>1, <2>4 DEF BH!Loose, BH!FreeBlocks
    <3>2. v = u
      BY <3>1
    <3>3. /\ Holds(v, X, B \cup {r}, t)
          /\ Get(v, X.brk - 4) = Get(m, X.brk - 4)
          /\ Kept(m, v, X, BH!Blocks(X) \ {r})
      <4> HIDE DEF B, r
      <4>1. QED
        BY <3>1, <2>5, <2>8, TagBlock
    <3> HIDE DEF v, u
    <3>4. QED
      BY <3>2, <3>3, <2>4, <2>6, <2>8
  <2> HIDE DEF u
  <2>12. Rep(u, X)
    BY <2>4, <2>11, Numbers DEF Rep, HDRP
  <2>13. Rep(g, BH!Place(H, b, asize)) /\ Kept(u, g, X, X.alloc)
    BY <2>1, <2>2, <2>10, <2>12, CoalesceRep
  <2>14. Kept(h, g, X, H.alloc)
    <3>1. Kept(h, k, X, H.alloc) /\ Kept(m, u, X, H.alloc) /\ Kept(u, g, X, H.alloc)
      BY <1>1, <2>1, <2>3, <2>4, <2>6, <2>11, <2>13 DEF Kept
    <3>2. Kept(h, m, X, H.alloc)
      BY <3>1, <2>8, KeptTwice
    <3>3. Kept(h, u, X, H.alloc)
      BY <3>1, <3>2, KeptTwice
    <3>4. QED
      BY <3>1, <3>3, KeptTwice
  <2>15. Kept(h, g, H, H.alloc)
    BY <2>1, <2>14 DEF Kept, Own
  <2>16. QED
    BY <2>13, <2>15
<1>7. QED
  BY <1>5, <1>6, <1>4

(* a run of n rounds of F from x                                           *)
Run(F, x, n, g) ==
  /\ g \in [0..n -> Nat] /\ g[0] = x
  /\ \A m \in 1..n : g[m] = F[g[m - 1]]

(* Applying F to x over and over has a record of every length ...          *)
LEMMA RunExists ==
  ASSUME NEW F \in [Nat -> Nat], NEW x \in Nat, NEW n \in Nat
  PROVE  \E g : Run(F, x, n, g)
<1> DEFINE Missing == {m \in Nat : ~ \E g : Run(F, x, m, g)}
<1> SUFFICES ASSUME Missing # {} PROVE FALSE
  OBVIOUS
<1>1. PICK m \in Missing : \A k \in Missing : m <= k
  <2>1. Missing \subseteq Nat
    OBVIOUS
  <2> HIDE DEF Missing
  <2>2. QED
    BY <2>1, BlockHeapOK, BH!LeastOf
<1>2. m \in Nat /\ ~ \E g : Run(F, x, m, g)
  OBVIOUS
<1>3. m # 0
  <2> DEFINE g == [i \in 0..0 |-> x]
  <2>1. Run(F, x, 0, g)
    BY DEF Run
  <2>2. QED
    BY <1>2, <2>1
<1>4. m - 1 \in Nat /\ m - 1 \notin Missing
  BY <1>1, <1>2, <1>3
<1>5. PICK g : Run(F, x, m - 1, g)
  BY <1>4
<1> DEFINE f == [i \in 0..m |-> IF i = m THEN F[g[m - 1]] ELSE g[i]]
<1>6. /\ g \in [0..m - 1 -> Nat] /\ g[0] = x
      /\ \A i \in 1..m - 1 : g[i] = F[g[i - 1]]
  BY <1>5 DEF Run
<1>7. f[0] = x
  BY <1>2, <1>3, <1>6
<1>8. f \in [0..m -> Nat]
  <2>1. g[m - 1] \in Nat
    BY <1>4, <1>6
  <2>2. F[g[m - 1]] \in Nat
    BY <2>1
  <2>3. ASSUME NEW i \in 0..m, i # m PROVE g[i] \in Nat
    <3>1. i \in 0..m - 1
      BY <1>2, <1>4, <2>3
    <3>2. QED
      BY <3>1, <1>6
  <2>4. QED
    BY <2>2, <2>3
<1>9. \A i \in 1..m : f[i] = F[f[i - 1]]
  <2>1. ASSUME NEW i \in 1..m PROVE f[i] = F[f[i - 1]]
    <3>1. f[i - 1] = g[i - 1]
      BY <1>2
    <3>2. CASE i = m
      BY <3>1, <3>2, <1>2
    <3>3. CASE i # m
      <4>1. i \in 1..m - 1 /\ i \in 0..m
        BY <3>3, <1>2
      <4>2. g[i] = F[g[i - 1]]
        BY <1>6, <4>1
      <4>3. f[i] = g[i]
        BY <3>3, <4>1
      <4>4. QED
        BY <3>1, <4>2, <4>3
    <3>4. QED
      BY <3>2, <3>3
  <2>2. QED
    BY <2>1
<1> HIDE DEF f
<1>10. Run(F, x, m, f)
  BY <1>7, <1>8, <1>9 DEF Run
<1>11. QED
  BY <1>2, <1>10

(* ... and any two records agree as far as both go.                        *)
LEMMA RunsAgree ==
  ASSUME NEW F \in [Nat -> Nat], NEW x \in Nat, NEW n \in Nat, NEW k \in Nat,
         NEW g, Run(F, x, n, g), NEW h, Run(F, x, k, h), NEW i \in Nat,
         i <= n, i <= k
  PROVE  g[i] = h[i]
<1> DEFINE Bad == {j \in Nat : j <= n /\ j <= k /\ g[j] # h[j]}
<1> SUFFICES ASSUME Bad # {} PROVE FALSE
  OBVIOUS
<1>1. PICK j \in Bad : \A l \in Bad : j <= l
  <2>1. Bad \subseteq Nat
    OBVIOUS
  <2> HIDE DEF Bad
  <2>2. QED
    BY <2>1, BlockHeapOK, BH!LeastOf
<1>2. j # 0
  BY <1>1 DEF Run
<1>3. /\ j \in 1..n /\ j \in 1..k /\ j - 1 \in Nat /\ j - 1 <= n /\ j - 1 <= k
  BY <1>1, <1>2
<1>4. g[j - 1] = h[j - 1]
  BY <1>1, <1>3
<1>5. g[j] = F[g[j - 1]] /\ h[j] = F[h[j - 1]]
  BY <1>3 DEF Run
<1>6. QED
  BY <1>1, <1>4, <1>5

(* A function defined by recursion over the rounds exists.                 *)
LEMMA IterExists ==
  ASSUME NEW F \in [Nat -> Nat], NEW x \in Nat
  PROVE  \E f \in [Nat -> Nat] :
           /\ f[0] = x
           /\ \A n \in Nat \ {0} : f[n] = F[f[n - 1]]
<1> DEFINE r(n) == CHOOSE g : Run(F, x, n, g)
           f == [n \in Nat |-> r(n)[n]]
<1>1. \A n \in Nat : Run(F, x, n, r(n))
  BY RunExists
<1> HIDE DEF r
<1>2. f \in [Nat -> Nat]
  BY <1>1 DEF Run
<1>3. f[0] = x
  BY <1>1 DEF Run
<1>4. ASSUME NEW n \in Nat \ {0} PROVE f[n] = F[f[n - 1]]
  <2>1. n \in Nat /\ n - 1 \in Nat /\ n - 1 <= n /\ n \in 1..n
    OBVIOUS
  <2>2. r(n)[n] = F[r(n)[n - 1]]
    BY <1>1, <2>1 DEF Run
  <2>3. r(n)[n - 1] = r(n - 1)[n - 1]
    BY <1>1, <2>1, RunsAgree
  <2>4. QED
    BY <2>1, <2>2, <2>3
<1>5. QED
  BY <1>2, <1>3, <1>4

(* What the loop down the free list and the walk over the blocks compute.  *)
LEMMA DownFacts ==
  ASSUME NEW h, MemOK(h), h.start \in Nat
  PROVE  /\ Down(h)[0] = h.start
         /\ \A n \in Nat \ {0} : Down(h)[n] = PrevBlkp(h, Down(h)[n - 1])
<1> DEFINE F == [b \in Nat |-> PrevBlkp(h, b)]
           Is(bp) == bp = [n \in Nat |-> IF n = 0 THEN h.start
                                         ELSE PrevBlkp(h, bp[n - 1])]
<1>1. F \in [Nat -> Nat]
  BY GetType DEF PrevBlkp
<1> HIDE DEF F
<1>2. PICK f \in [Nat -> Nat] : f[0] = h.start
                                /\ \A n \in Nat \ {0} : f[n] = F[f[n - 1]]
  BY <1>1, IterExists
<1>3. \A n \in Nat \ {0} : f[n] = PrevBlkp(h, f[n - 1])
  <2>1. ASSUME NEW n \in Nat \ {0} PROVE f[n] = PrevBlkp(h, f[n - 1])
    <3>1. f[n - 1] \in Nat /\ f[n] = F[f[n - 1]]
      BY <1>2
    <3>2. QED
      BY <3>1 DEF F
  <2>2. QED
    BY <2>1
<1>4. Is(f)
  <2> DEFINE g == [n \in Nat |-> IF n = 0 THEN h.start ELSE PrevBlkp(h, f[n - 1])]
  <2>1. \A n \in Nat : f[n] = g[n]
    BY <1>2, <1>3
  <2>2. f = g
    BY <1>2, <2>1
  <2>3. QED
    BY <2>2
<1>5. Down(h) = CHOOSE bp : Is(bp)
  BY DEF Down
<1> HIDE DEF Is
<1>6. Is(Down(h))
  BY <1>4, <1>5
<1>7. Down(h) = [n \in Nat |-> IF n = 0 THEN h.start
                               ELSE PrevBlkp(h, Down(h)[n - 1])]
  BY <1>6 DEF Is
<1> DEFINE d == Down(h)
<1>8. d = [n \in Nat |-> IF n = 0 THEN h.start ELSE PrevBlkp(h, d[n - 1])]
  BY <1>7
<1> HIDE DEF d
<1>9. d[0] = h.start /\ \A n \in Nat \ {0} : d[n] = PrevBlkp(h, d[n - 1])
  <2> DEFINE e == [n \in Nat |-> IF n = 0 THEN h.start ELSE PrevBlkp(h, d[n - 1])]
  <2>1. e[0] = h.start /\ \A n \in Nat \ {0} : e[n] = PrevBlkp(h, d[n - 1])
    OBVIOUS
  <2> HIDE DEF e
  <2>2. d = e
    BY <1>8 DEF e
  <2>3. QED
    BY <2>1, <2>2
<1>10. QED
  BY <1>9 DEF d

(* Across is the function its recursive equation describes.                *)
LEMMA AcrossFacts ==
  ASSUME NEW h, MemOK(h)
  PROVE  /\ Across(h)[0] = FirstBp
         /\ \A n \in Nat \ {0} : Across(h)[n] = RightBlkp(h, Across(h)[n - 1])
<1> DEFINE F == [b \in Nat |-> RightBlkp(h, b)]
           Is(bp) == bp = [n \in Nat |-> IF n = 0 THEN FirstBp
                                         ELSE RightBlkp(h, bp[n - 1])]
<1>1. F \in [Nat -> Nat]
  <2>1. ASSUME NEW b \in Nat PROVE RightBlkp(h, b) \in Nat
    <3>1. Get(h, HDRP(b)) \in Nat
      BY GetType
    <3>2. QED
      BY <3>1, Numbers DEF RightBlkp, GetSize
  <2>2. QED
    BY <2>1
<1> HIDE DEF F
<1>2. PICK f \in [Nat -> Nat] : f[0] = FirstBp
                                /\ \A n \in Nat \ {0} : f[n] = F[f[n - 1]]
  <2>1. FirstBp \in Nat
    BY Numbers
  <2>2. QED
    BY <1>1, <2>1, IterExists
<1>3. \A n \in Nat \ {0} : f[n] = RightBlkp(h, f[n - 1])
  <2>1. ASSUME NEW n \in Nat \ {0} PROVE f[n] = RightBlkp(h, f[n - 1])
    <3>1. f[n - 1] \in Nat /\ f[n] = F[f[n - 1]]
      BY <1>2
    <3>2. QED
      BY <3>1 DEF F
  <2>2. QED
    BY <2>1
<1>4. Is(f)
  <2> DEFINE g == [n \in Nat |-> IF n = 0 THEN FirstBp ELSE RightBlkp(h, f[n - 1])]
  <2>1. \A n \in Nat : f[n] = g[n]
    BY <1>2, <1>3
  <2>2. f = g
    BY <1>2, <2>1
  <2>3. QED
    BY <2>2
<1>5. Across(h) = CHOOSE bp : Is(bp)
  BY DEF Across
<1> HIDE DEF Is
<1>6. Is(Across(h))
  BY <1>4, <1>5
<1>7. Across(h) = [n \in Nat |-> IF n = 0 THEN FirstBp
                               ELSE RightBlkp(h, Across(h)[n - 1])]
  BY <1>6 DEF Is
<1> DEFINE d == Across(h)
<1>8. d = [n \in Nat |-> IF n = 0 THEN FirstBp ELSE RightBlkp(h, d[n - 1])]
  BY <1>7
<1> HIDE DEF d
<1>9. d[0] = FirstBp /\ \A n \in Nat \ {0} : d[n] = RightBlkp(h, d[n - 1])
  <2> DEFINE e == [n \in Nat |-> IF n = 0 THEN FirstBp ELSE RightBlkp(h, d[n - 1])]
  <2>1. e[0] = FirstBp /\ \A n \in Nat \ {0} : e[n] = RightBlkp(h, d[n - 1])
    OBVIOUS
  <2> HIDE DEF e
  <2>2. d = e
    BY <1>8 DEF e
  <2>3. QED
    BY <2>1, <2>2
<1>10. QED
  BY <1>9 DEF d

(* A heap has no more blocks than MaxBlocks, and no longer a free list.    *)
LEMMA ShortList ==
  ASSUME NEW H, Shape(H), NEW l \in Seq(BH!Blocks(H)), Injective(l)
  PROVE  Len(l) \in 0..MaxBlocks
<1> DEFINE slot(b) == (b - FirstBp) \div 24
           f == [i \in 1..Len(l) |-> slot(l[i])]
           T == 0..MaxBlocks - 1
<1>1. \A b \in BH!Blocks(H) : slot(b) \in T
  <2>1. ASSUME NEW b \in BH!Blocks(H) PROVE slot(b) \in T
    <3>1. /\ b \in Nat /\ FirstBp <= b /\ b + 24 <= MaxAddr
      <4>1. /\ b \in Nat /\ FirstBp <= b /\ H.size[b] \in Nat /\ H.size[b] >= 24
            /\ b + H.size[b] <= H.brk /\ H.brk \in Nat /\ H.brk <= MaxAddr
        BY BlockNumbers
      <4>2. QED
        BY <4>1, Numbers
    <3>2. b - FirstBp \in Nat /\ b - FirstBp + 24 <= MaxHeap
      BY <3>1, Numbers
    <3>3. QED
      BY <3>2, Numbers DEF MaxBlocks
  <2>2. QED
    BY <2>1
<1>2. \A b, c \in BH!Blocks(H) : slot(b) = slot(c) => b = c
  <2>1. ASSUME NEW b \in BH!Blocks(H), NEW c \in BH!Blocks(H), b < c
        PROVE  slot(b) < slot(c)
    <3>1. /\ b \in Nat /\ FirstBp <= b /\ H.size[b] >= 24 /\ H.size[b] \in Nat
          /\ c \in Nat /\ FirstBp <= c
      BY BlockNumbers
    <3>2. b + H.size[b] <= c
      BY <2>1 DEF Shape, BH!Tiled, BH!RightOf
    <3>3. b - FirstBp \in Nat /\ c - FirstBp \in Nat /\ b - FirstBp + 24 <= c - FirstBp
      BY <3>1, <3>2, Numbers
    <3>4. QED
      BY <3>3
  <2>2. ASSUME NEW b \in BH!Blocks(H), NEW c \in BH!Blocks(H), slot(b) = slot(c)
        PROVE  b = c
    <3>1. b \in Nat /\ c \in Nat
      BY BlockNumbers
    <3>2. slot(b) \in Int /\ slot(c) \in Int
      BY <1>1
    <3> HIDE DEF slot
    <3>3. ~(b < c) /\ ~(c < b)
      BY <2>1, <2>2, <3>2
    <3>4. QED
      BY <3>1, <3>3
  <2>3. QED
    BY <2>2
<1> HIDE DEF slot, T
<1>3. f \in Injection(1..Len(l), T)
  <2>1. f \in [1..Len(l) -> T]
    BY <1>1
  <2>2. \A i, j \in 1..Len(l) : f[i] = f[j] => i = j
    BY <1>2 DEF Injective
  <2> HIDE DEF f
  <2>3. QED
    BY <2>1, <2>2 DEF Injection, IsInjective
<1>4. MaxBlocks \in Nat
  BY Numbers DEF MaxBlocks
<1>5. IsFiniteSet(T) /\ Cardinality(T) = MaxBlocks
  BY <1>4, FS_Interval DEF T
<1>6. Cardinality(1..Len(l)) <= MaxBlocks
  <2> HIDE DEF f
  <2>1. QED
    BY <1>3, <1>5, FS_Injection
<1>7. Len(l) \in Nat
  OBVIOUS
<1>8. Cardinality(1..Len(l)) = Len(l)
  <2> DEFINE n == Len(l)
  <2>1. n \in Nat
    BY <1>7
  <2> HIDE DEF n
  <2>2. n \in Int /\ 1 \in Int /\ (1 > n => n = 0) /\ n - 1 + 1 = n
    BY <2>1
  <2>3. Cardinality(1..n) = IF 1 > n THEN 0 ELSE n - 1 + 1
    BY <2>2, FS_Interval
  <2>4. Cardinality(1..n) = n
    BY <2>2, <2>3
  <2>5. QED
    BY <2>4 DEF n
<1>9. QED
  BY <1>4, <1>6, <1>7, <1>8

(* The loop down the list visits the prologue after the last free block,   *)
(* and takes it for allocated.                                             *)
LEMMA ListWalk ==
  ASSUME NEW H, Shape(H), BH!ListExact(H), NEW h, Rep(h, H)
  PROVE  LET l == H.list
         IN /\ Len(l) \in 0..MaxBlocks
            /\ \A n \in 0..Len(l) : Down(h)[n] = At(l, n + 1)
            /\ \A n \in 0..Len(l) - 1 :
                 Down(h)[n] = l[n + 1] /\ ~IsAlloc(h, Down(h)[n])
            /\ IsAlloc(h, Down(h)[Len(l)])
<1> DEFINE l == H.list
<1>1. /\ MemOK(h) /\ l \in Seq(BH!Blocks(H)) /\ Injective(l) /\ Chain(h, l)
      /\ Get(h, HDRP(Prologue)) = 25 /\ Len(l) \in Nat /\ DOMAIN l = 1..Len(l)
      /\ \A x \in BH!Blocks(H) : TagAt(h, H, x)
  BY Numbers DEF Rep, Holds
<1>2. Len(l) \in 0..MaxBlocks
  BY <1>1, ShortList
<1>3. h.start \in Nat
  <2>1. 1 \in 1..Len(l) + 1
    BY <1>1
  <2>2. At(l, 1) \in Nat
    BY <1>1, <2>1, Spread
  <2>3. QED
    BY <1>1, <2>2 DEF Chain
<1>4. /\ Down(h)[0] = h.start
      /\ \A n \in Nat \ {0} : Down(h)[n] = PrevBlkp(h, Down(h)[n - 1])
  BY <1>1, <1>3, DownFacts
<1> HIDE DEF l
<1>5. \A n \in 0..Len(l) : Down(h)[n] = At(l, n + 1)
  <2> DEFINE Bad == {n \in 0..Len(l) : Down(h)[n] # At(l, n + 1)}
  <2> SUFFICES ASSUME Bad # {} PROVE FALSE
    OBVIOUS
  <2>1. PICK n \in Bad : \A k \in Bad : n <= k
    <3>1. Bad \subseteq Nat
      OBVIOUS
    <3> HIDE DEF Bad
    <3>2. QED
      BY <3>1, BlockHeapOK, BH!LeastOf
  <2>2. n # 0
    BY <1>1, <1>4, <2>1 DEF Chain
  <2>3. /\ n \in 1..Len(l) /\ n - 1 \in 0..Len(l) /\ n - 1 + 1 = n /\ n \in Nat \ {0}
        /\ n - 1 < n
    BY <2>1, <2>2, <1>1
  <2>4. Down(h)[n - 1] = At(l, n)
    <3>1. n - 1 \notin Bad
      BY <2>1, <2>3
    <3>2. QED
      BY <3>1, <2>3
  <2>5. Down(h)[n] = PrevBlkp(h, At(l, n))
    BY <1>4, <2>3, <2>4
  <2>6. Get(h, At(l, n) + DSIZE) = At(l, n + 1)
    BY <1>1, <2>3 DEF Chain
  <2>7. QED
    BY <2>1, <2>5, <2>6 DEF PrevBlkp
<1>6. ASSUME NEW n \in 0..Len(l) - 1
      PROVE  Down(h)[n] = l[n + 1] /\ ~IsAlloc(h, Down(h)[n])
  <2>1. n \in 0..Len(l) /\ n + 1 \in 1..Len(l) /\ n + 1 <= Len(l)
    BY <1>1
  <2>2. Down(h)[n] = l[n + 1]
    BY <1>5, <2>1 DEF At
  <2>3. l[n + 1] \in BH!Blocks(H)
    BY <1>1, <2>1
  <2>4. l[n + 1] \notin H.alloc
    BY <1>1, <2>1 DEF BH!ListExact, l
  <2>5. GetAlloc(h, HDRP(l[n + 1])) = 0
    BY <1>1, <2>3, <2>4, ReadTag
  <2>6. QED
    BY <2>2, <2>5 DEF IsAlloc
<1>7. IsAlloc(h, Down(h)[Len(l)])
  <2>1. Len(l) \in 0..Len(l) /\ ~(Len(l) + 1 <= Len(l))
    BY <1>1
  <2>2. Down(h)[Len(l)] = Prologue
    BY <1>5, <2>1 DEF At
  <2>3. QED
    BY <1>1, <2>2 DEF IsAlloc, GetAlloc
<1>8. QED
  BY <1>2, <1>5, <1>6, <1>7 DEF l

(* The free list read off the words is the list of the blocks.             *)
LEMMA ListExactly ==
  ASSUME NEW H, Shape(H), BH!ListExact(H), NEW h, Rep(h, H)
  PROVE  FreeList(h) = H.list
<1> DEFINE l == H.list
           IsEnd(n) == /\ IsAlloc(h, Down(h)[n])
                      /\ \A m \in 0..n - 1 : ~IsAlloc(h, Down(h)[m])
<1>1. /\ Len(l) \in 0..MaxBlocks
      /\ \A n \in 0..Len(l) - 1 :
           Down(h)[n] = l[n + 1] /\ ~IsAlloc(h, Down(h)[n])
      /\ IsAlloc(h, Down(h)[Len(l)])
  BY ListWalk
<1>2. l \in Seq(BH!Blocks(H))
  BY DEF Rep, Holds
<1>3. IsEnd(Len(l))
  BY <1>1
<1>4. \A n \in 0..MaxBlocks : IsEnd(n) => n = Len(l)
  <2>1. ASSUME NEW n \in 0..MaxBlocks, IsEnd(n), n < Len(l) PROVE FALSE
    <3>1. n \in 0..Len(l) - 1
      BY <1>1, <2>1
    <3>2. QED
      BY <1>1, <2>1, <3>1
  <2>2. ASSUME NEW n \in 0..MaxBlocks, IsEnd(n), Len(l) < n PROVE FALSE
    <3>1. Len(l) \in 0..n - 1
      BY <1>1, <2>2
    <3>2. QED
      BY <1>1, <2>2, <3>1
  <2> HIDE DEF IsEnd
  <2>3. QED
    BY <1>1, <2>1, <2>2
<1>5. ListLength(h) = CHOOSE n \in 0..MaxBlocks : IsEnd(n)
  BY DEF ListLength
<1> HIDE DEF IsEnd
<1>6. ListLength(h) = Len(l)
  BY <1>1, <1>3, <1>4, <1>5
<1> HIDE DEF l
<1>7. FreeList(h) = [i \in 1..Len(l) |-> Down(h)[i - 1]]
  BY <1>6 DEF FreeList
<1>8. \A i \in 1..Len(l) : Down(h)[i - 1] = l[i]
  <2>1. ASSUME NEW i \in 1..Len(l) PROVE Down(h)[i - 1] = l[i]
    <3>1. i - 1 \in 0..Len(l) - 1 /\ (i - 1) + 1 = i
      BY <1>1
    <3>2. Down(h)[i - 1] = l[(i - 1) + 1]
      BY <1>1, <3>1
    <3>3. QED
      BY <3>1, <3>2
  <2>2. QED
    BY <2>1
<1>9. FreeList(h) = [i \in 1..Len(l) |-> l[i]]
  BY <1>7, <1>8
<1>10. l = [i \in 1..Len(l) |-> l[i]]
  BY <1>2
<1>11. QED
  BY <1>9, <1>10 DEF l

(* The walk from block to block visits every block, and ends at the break. *)
LEMMA BlockWalk ==
  ASSUME NEW H, Shape(H), NEW h, Rep(h, H)
  PROVE  \E N \in 0..MaxBlocks :
           /\ Across(h)[N] = H.brk
           /\ BH!Blocks(H) = {Across(h)[n] : n \in 0..N - 1}
<1> DEFINE B == BH!Blocks(H)
           T == {n \in Nat : Across(h)[n] \notin B}
<1>1. /\ Across(h)[0] = FirstBp
      /\ \A n \in Nat \ {0} : Across(h)[n] = RightBlkp(h, Across(h)[n - 1])
  BY AcrossFacts DEF Rep, Holds
<1>2. ASSUME NEW n \in Nat \ {0}, Across(h)[n - 1] \in B
      PROVE  /\ Across(h)[n] = Across(h)[n - 1] + H.size[Across(h)[n - 1]]
             /\ Across(h)[n] \in B \cup {H.brk}
  <2> DEFINE c == Across(h)[n - 1]
  <2>1. c \in B
    BY <1>2
  <2> HIDE DEF c
  <2>2. RightBlkp(h, c) = c + H.size[c]
    <3>1. TagAt(h, H, c)
      BY <2>1 DEF Rep, Holds
    <3>2. QED
      BY <2>1, <3>1, ReadTag
  <2>3. c + H.size[c] \in B \cup {H.brk}
    BY <2>1 DEF Shape, BH!Tiled, BH!RightOf
  <2>4. Across(h)[n] = RightBlkp(h, c)
    BY <1>1 DEF c
  <2>5. QED
    BY <2>2, <2>3, <2>4 DEF c
<1>3. /\ FirstBp \in B /\ FirstBp \in Nat
      /\ \A b \in B : /\ b \in Nat /\ FirstBp <= b /\ H.size[b] \in Nat
                      /\ H.size[b] >= 24 /\ b + H.size[b] <= H.brk
      /\ H.brk \in Nat /\ H.brk <= MaxAddr
  <2>1. FirstBp \in B
    BY DEF Shape, BH!Tiled
  <2>2. QED
    BY <2>1, BlockNumbers, Numbers
<1> HIDE DEF B
<1>4. \A n \in Nat : (\A m \in 0..n - 1 : m \notin T)
                     => Across(h)[n] \in Nat /\ Across(h)[n] >= FirstBp + 24 * n
  <2> DEFINE P(n) == (\A m \in 0..n - 1 : m \notin T)
                     => Across(h)[n] \in Nat /\ Across(h)[n] >= FirstBp + 24 * n
             Bad == {n \in Nat : ~P(n)}
  <2> SUFFICES ASSUME Bad # {} PROVE FALSE
    OBVIOUS
  <2>1. PICK n \in Bad : \A k \in Bad : n <= k
    <3>1. Bad \subseteq Nat
      OBVIOUS
    <3> HIDE DEF Bad
    <3>2. QED
      BY <3>1, BlockHeapOK, BH!LeastOf
  <2>2. n \in Nat /\ (\A m \in 0..n - 1 : m \notin T)
        /\ ~(Across(h)[n] \in Nat /\ Across(h)[n] >= FirstBp + 24 * n)
    BY <2>1
  <2>3. n # 0
    BY <1>1, <1>3, <2>2
  <2>4. n - 1 \in Nat /\ n - 1 \in 0..n - 1 /\ n \in Nat \ {0} /\ n - 1 < n
    BY <2>2, <2>3
  <2>5. P(n - 1)
    BY <2>1, <2>4
  <2>6. \A m \in 0..(n - 1) - 1 : m \notin T
    BY <2>2
  <2>7. Across(h)[n - 1] \in Nat /\ Across(h)[n - 1] >= FirstBp + 24 * (n - 1)
    BY <2>5, <2>6
  <2>8. Across(h)[n - 1] \in B
    BY <2>2, <2>4
  <2>9. /\ Across(h)[n] = Across(h)[n - 1] + H.size[Across(h)[n - 1]]
        /\ H.size[Across(h)[n - 1]] \in Nat /\ H.size[Across(h)[n - 1]] >= 24
    BY <1>2, <1>3, <2>4, <2>8
  <2>10. QED
    BY <2>2, <2>7, <2>9, <1>3
<1>5. T # {}
  <2> SUFFICES ASSUME T = {} PROVE FALSE
    OBVIOUS
  <2>1. Across(h)[H.brk] \in Nat /\ Across(h)[H.brk] >= FirstBp + 24 * H.brk
    BY <1>3, <1>4
  <2>2. Across(h)[H.brk] \in B
    BY <1>3
  <2>3. QED
    BY <1>3, <2>1, <2>2
<1>6. PICK N \in T : \A k \in T : N <= k
  <2>1. T \subseteq Nat
    OBVIOUS
  <2> HIDE DEF T
  <2>2. QED
    BY <1>5, <2>1, BlockHeapOK, BH!LeastOf
<1>7. N \in Nat \ {0} /\ N - 1 \in Nat /\ \A m \in 0..N - 1 : Across(h)[m] \in B
  <2>1. N \in Nat /\ Across(h)[N] \notin B
    BY <1>6
  <2>2. N # 0
    BY <1>1, <1>3, <2>1
  <2>3. \A m \in 0..N - 1 : m \in Nat /\ ~(N <= m)
    BY <2>1
  <2>4. \A m \in 0..N - 1 : m \notin T
    BY <1>6, <2>3
  <2>5. QED
    BY <2>1, <2>2, <2>3, <2>4
<1>8. Across(h)[N] = H.brk
  <2>1. Across(h)[N - 1] \in B
    BY <1>7
  <2>2. Across(h)[N] \in B \cup {H.brk}
    BY <1>2, <1>7, <2>1
  <2>3. QED
    BY <1>6, <2>2
<1>9. N \in 0..MaxBlocks
  <2>1. H.brk >= FirstBp + 24 * N
    BY <1>4, <1>7, <1>8
  <2>2. 24 * N <= MaxHeap
    BY <1>3, <1>7, <2>1, Numbers
  <2>3. N <= MaxHeap \div 24
    BY <2>2, <1>7, Numbers
  <2>4. QED
    BY <2>3, <1>7, Numbers DEF MaxBlocks
<1>10. B \subseteq {Across(h)[n] : n \in 0..N - 1}
  <2> DEFINE U == {b \in B : \A n \in 0..N - 1 : Across(h)[n] # b}
  <2> SUFFICES ASSUME U # {} PROVE FALSE
    OBVIOUS
  <2>1. PICK b \in U : \A c \in U : b <= c
    <3>1. U \subseteq Nat
      BY <1>3
    <3> HIDE DEF U
    <3>2. QED
      BY <3>1, BlockHeapOK, BH!LeastOf
  <2>2. b \in B /\ \A n \in 0..N - 1 : Across(h)[n] # b
    BY <2>1
  <2>3. b # FirstBp
    <3>1. 0 \in 0..N - 1
      BY <1>7
    <3>2. QED
      BY <3>1, <2>2, <1>1
  <2>4. PICK c \in B : c + H.size[c] = b
    BY <2>2, <2>3, LeftNeighbour DEF B
  <2>5. c \in Nat /\ b \in Nat /\ c < b /\ b < H.brk
    BY <1>3, <2>2, <2>4
  <2>6. c \notin U
    BY <2>1, <2>5
  <2>7. PICK m \in 0..N - 1 : Across(h)[m] = c
    BY <2>4, <2>6
  <2>8. m + 1 \in Nat \ {0} /\ (m + 1) - 1 = m /\ (m + 1 \in 0..N - 1 \/ m + 1 = N)
    BY <1>7, <2>7
  <2>9. Across(h)[m + 1] = b
    <3>1. Across(h)[(m + 1) - 1] = c
      BY <2>7, <2>8
    <3>2. /\ Across(h)[m + 1] = Across(h)[(m + 1) - 1] + H.size[Across(h)[(m + 1) - 1]]
      BY <1>2, <2>4, <2>8, <3>1
    <3>3. QED
      BY <2>4, <3>1, <3>2
  <2>10. QED
    BY <1>8, <2>2, <2>5, <2>8, <2>9
<1>11. {Across(h)[n] : n \in 0..N - 1} \subseteq B
  BY <1>7
<1>12. QED
  BY <1>8, <1>9, <1>10, <1>11 DEF B

(* What the words of a heap are read as is the heap they represent.        *)
LEMMA RepExact ==
  ASSUME NEW H, Shape(H), BH!ListExact(H), NEW h, Rep(h, H)
  PROVE  BlockHeapOf(h) = BH!Heap(H.size, H.alloc, H.list, H.brk)
<1> DEFINE B == BH!Blocks(H)
           IsEnd(n) == /\ AtEnd(h, Across(h)[n])
                       /\ \A m \in 0..n - 1 : ~AtEnd(h, Across(h)[m])
<1>1. PICK N \in 0..MaxBlocks :
        /\ Across(h)[N] = H.brk
        /\ B = {Across(h)[n] : n \in 0..N - 1}
  BY BlockWalk
<1>2. h.brk = H.brk /\ H.brk \in Nat
  BY DEF Rep, Holds, Shape, BH!HeapType
<1>3. \A b \in B : ~AtEnd(h, b) /\ GetSize(h, HDRP(b)) = H.size[b]
                   /\ GetAlloc(h, HDRP(b)) = IF b \in H.alloc THEN 1 ELSE 0
  <2>1. ASSUME NEW b \in B
        PROVE  ~AtEnd(h, b) /\ GetSize(h, HDRP(b)) = H.size[b]
               /\ GetAlloc(h, HDRP(b)) = IF b \in H.alloc THEN 1 ELSE 0
    <3>1. TagAt(h, H, b)
      BY DEF Rep, Holds
    <3>2. /\ b \in Nat /\ H.size[b] \in Nat /\ H.size[b] >= 24
          /\ b + H.size[b] <= H.brk
      BY BlockNumbers
    <3>3. /\ GetSize(h, HDRP(b)) = H.size[b]
          /\ GetAlloc(h, HDRP(b)) = IF b \in H.alloc THEN 1 ELSE 0
      BY <3>1, ReadTag
    <3>4. ~(b >= H.brk)
      BY <1>2, <3>2
    <3>5. QED
      BY <1>2, <3>2, <3>3, <3>4 DEF AtEnd
  <2>2. QED
    BY <2>1
<1>4. AtEnd(h, H.brk)
  BY <1>2 DEF AtEnd
<1>5. \A n \in 0..N - 1 : ~AtEnd(h, Across(h)[n])
  BY <1>1, <1>3
<1>6. IsEnd(N)
  BY <1>1, <1>4, <1>5
<1>7. \A n \in 0..MaxBlocks : IsEnd(n) => n = N
  <2>1. ASSUME NEW n \in 0..MaxBlocks, IsEnd(n), n < N PROVE FALSE
    <3>1. n \in 0..N - 1
      BY <1>1, <2>1
    <3>2. QED
      BY <1>5, <2>1, <3>1
  <2>2. ASSUME NEW n \in 0..MaxBlocks, IsEnd(n), N < n PROVE FALSE
    <3>1. N \in 0..n - 1
      BY <1>1, <2>2
    <3>2. QED
      BY <1>6, <2>2, <3>1
  <2> HIDE DEF IsEnd
  <2>3. QED
    BY <1>1, <2>1, <2>2
<1>8. BlockCount(h) = CHOOSE n \in 0..MaxBlocks : IsEnd(n)
  BY DEF BlockCount
<1> HIDE DEF IsEnd
<1>9. BlockCount(h) = N
  BY <1>1, <1>6, <1>7, <1>8
<1>10. Blocks(h) = B
  BY <1>1, <1>9 DEF Blocks
<1>11. H.size = [b \in B |-> H.size[b]] /\ H.alloc \subseteq B
  BY DEF Shape, BH!HeapType, BH!Blocks
<1> HIDE DEF B
<1>12. [b \in Blocks(h) |-> GetSize(h, HDRP(b))] = H.size
  BY <1>3, <1>10, <1>11
<1>13. {b \in Blocks(h) : GetAlloc(h, HDRP(b)) = 1} = H.alloc
  BY <1>3, <1>10, <1>11
<1>14. FreeList(h) = H.list
  BY ListExactly
<1>15. QED
  BY <1>2, <1>12, <1>13, <1>14 DEF BlockHeapOf, BH!Heap

(* A number below m is its own remainder.                                  *)
LEMMA ModSmall ==
  ASSUME NEW m \in Nat, NEW x \in 0..m - 1
  PROVE  x % m = x
<1>1. m > 0 /\ x \in Int /\ x >= 0 /\ x < m
  OBVIOUS
<1>2. QED
  BY <1>1, Z3

(* The size mm_malloc asks for does not wrap for the driver's requests.    *)
LEMMA SameBlockSize ==
  ASSUME NEW n \in Requests
  PROVE  /\ BlockSize(n) = BH!BlockSize(n)
         /\ BlockSize(n) \in Nat /\ BlockSize(n) >= 24 /\ BlockSize(n) % 8 = 0
         /\ BlockSize(n) >= n + 8 /\ n \in Nat
<1>1. n \in Nat /\ 2 * n < SizeMod /\ SizeMod >= 32 /\ SizeMod \in Nat
  BY Numbers
<1>2. n + 7 \in 0..SizeMod - 1
  BY <1>1
<1>3. (n + 7) % SizeMod = n + 7
  BY <1>1, <1>2, ModSmall
<1>4. Align(n) = ((n + 7) \div 8) * 8
  BY <1>3, Numbers DEF Align
<1>5. Align(n) + 8 \in 0..SizeMod - 1
  BY <1>1, <1>4
<1>6. (Align(n) + 8) % SizeMod = Align(n) + 8
  BY <1>1, <1>5, ModSmall
<1>7. BH!AlignUp(n) = Align(n)
  BY <1>4, Numbers DEF BH!AlignUp
<1>8. BlockSize(n) = BH!BlockSize(n)
  BY <1>6, <1>7, Numbers DEF BlockSize, BH!BlockSize
<1>9. QED
  BY <1>1, <1>8, BlockHeapOK, BH!BlockSizeFacts, Numbers

(* find_freeblock returns the first fit of the list, or NULL.              *)
LEMMA FindRep ==
  ASSUME NEW H, BH!Good(H), NEW h, Rep(h, H), NEW asize \in Nat
  PROVE  LET bp == FindFreeblock(h, asize)
         IN \/ /\ bp = NULL /\ BH!NoFit(H, asize)
            \/ \E i \in DOMAIN H.list :
                 /\ bp = H.list[i] /\ BH!FirstFit(H, asize, i) /\ bp # NULL
                 /\ bp \in BH!FreeBlocks(H) /\ H.size[bp] >= asize
<1> DEFINE l == H.list
           S(n) == Stops(h, asize, Down(h)[n])
           IsLast(n) == S(n) /\ \A m \in 0..n - 1 : ~S(m)
           last == CHOOSE n \in 0..MaxBlocks : IsLast(n)
           bp == Down(h)[last]
<1>1. /\ Shape(H) /\ BH!ListExact(H) /\ l \in Seq(BH!Blocks(H))
      /\ DOMAIN l = 1..Len(l) /\ Len(l) \in Nat
      /\ \A x \in BH!Blocks(H) : TagAt(h, H, x)
  BY DEF BH!Good, Shape, BH!HeapType, Rep, Holds
<1>2. /\ Len(l) \in 0..MaxBlocks
      /\ \A n \in 0..Len(l) - 1 : Down(h)[n] = l[n + 1] /\ ~IsAlloc(h, Down(h)[n])
      /\ IsAlloc(h, Down(h)[Len(l)])
  BY <1>1, ListWalk
<1>3. \A n \in 0..Len(l) - 1 :
        /\ n + 1 \in DOMAIN l /\ l[n + 1] \in BH!FreeBlocks(H)
        /\ S(n) <=> H.size[l[n + 1]] >= asize
  <2>1. ASSUME NEW n \in 0..Len(l) - 1
        PROVE  /\ n + 1 \in DOMAIN l /\ l[n + 1] \in BH!FreeBlocks(H)
               /\ S(n) <=> H.size[l[n + 1]] >= asize
    <3>1. n + 1 \in DOMAIN l
      BY <1>1
    <3>2. l[n + 1] \in BH!Blocks(H) /\ l[n + 1] \notin H.alloc
      BY <1>1, <3>1 DEF BH!ListExact
    <3>3. GetSize(h, HDRP(l[n + 1])) = H.size[l[n + 1]]
          /\ H.size[l[n + 1]] \in Nat
      BY <1>1, <3>2, ReadTag, BlockNumbers
    <3>4. Down(h)[n] = l[n + 1] /\ ~IsAlloc(h, l[n + 1])
      BY <1>2
    <3>5. S(n) <=> H.size[l[n + 1]] >= asize
      BY <3>3, <3>4 DEF Stops
    <3>6. QED
      BY <3>1, <3>2, <3>5 DEF BH!FreeBlocks
  <2>2. QED
    BY <2>1
<1>4. S(Len(l))
  BY <1>2 DEF Stops
<1> HIDE DEF l, S
<1>5. \E n \in 0..MaxBlocks : IsLast(n)
  <2> DEFINE U == {n \in 0..Len(l) : S(n)}
  <2>1. U \subseteq Nat /\ U # {}
    BY <1>1, <1>4
  <2>2. PICK n \in U : \A k \in U : n <= k
    <3> HIDE DEF U
    <3>1. QED
      BY <2>1, BlockHeapOK, BH!LeastOf
  <2>3. n \in 0..MaxBlocks /\ S(n)
    <3>1. n \in 0..Len(l) /\ S(n)
      BY <2>2
    <3>2. Len(l) <= MaxBlocks /\ MaxBlocks \in Nat
      BY <1>2, Numbers DEF MaxBlocks, l
    <3>3. QED
      BY <1>1, <3>1, <3>2
  <2>4. \A m \in 0..n - 1 : m \in 0..Len(l) /\ ~(n <= m)
    BY <1>1, <2>2
  <2>5. \A m \in 0..n - 1 : ~S(m)
    BY <2>2, <2>4
  <2>6. QED
    BY <2>3, <2>5
<1> HIDE DEF IsLast
<1>6. last \in 0..MaxBlocks /\ IsLast(last)
  BY <1>5
<1>7. FindFreeblock(h, asize) = IF IsAlloc(h, bp) THEN NULL ELSE bp
  BY DEF FindFreeblock, IsLast, S
<1> HIDE DEF last
<1>8. last <= Len(l)
  <2>1. ASSUME Len(l) < last PROVE FALSE
    <3>1. Len(l) \in 0..last - 1
      BY <1>1, <1>6, <2>1
    <3>2. QED
      BY <1>4, <1>6, <3>1 DEF IsLast
  <2>2. QED
    BY <1>1, <1>6, <2>1
<1>9. CASE last = Len(l)
  <2>1. FindFreeblock(h, asize) = NULL
    BY <1>2, <1>7, <1>9
  <2>2. ASSUME NEW i \in DOMAIN l PROVE ~(H.size[l[i]] >= asize)
    <3>1. i - 1 \in 0..Len(l) - 1 /\ i - 1 \in 0..last - 1 /\ (i - 1) + 1 = i
      BY <1>1, <1>9
    <3>2. ~S(i - 1)
      BY <1>6, <3>1 DEF IsLast
    <3>3. S(i - 1) <=> H.size[l[(i - 1) + 1]] >= asize
      BY <1>3, <3>1
    <3>4. QED
      BY <3>1, <3>2, <3>3
  <2>3. BH!NoFit(H, asize)
    BY <2>2 DEF BH!NoFit, BH!Fits, l
  <2>4. QED
    BY <2>1, <2>3
<1>10. CASE last < Len(l)
  <2> DEFINE i == last + 1
  <2>1. /\ last \in 0..Len(l) - 1 /\ i \in DOMAIN l
        /\ \A j \in DOMAIN l : j < i => j - 1 \in 0..last - 1 /\ (j - 1) + 1 = j
                                        /\ j - 1 \in 0..Len(l) - 1
    BY <1>1, <1>6, <1>10
  <2>2. bp = l[i] /\ ~IsAlloc(h, bp) /\ l[i] \in BH!FreeBlocks(H)
    BY <1>2, <1>3, <2>1
  <2>3. H.size[l[i]] >= asize
    BY <1>3, <1>6, <2>1 DEF IsLast
  <2>4. ASSUME NEW j \in DOMAIN l, j < i PROVE ~(H.size[l[j]] >= asize)
    <3>1. ~S(j - 1)
      BY <1>6, <2>1, <2>4 DEF IsLast
    <3>2. S(j - 1) <=> H.size[l[(j - 1) + 1]] >= asize
      BY <1>3, <2>1, <2>4
    <3>3. QED
      BY <2>1, <2>4, <3>1, <3>2
  <2>5. l[i] # NULL
    <3>1. l[i] \in Nat /\ FirstBp <= l[i]
      BY <1>1, <2>2, BlockNumbers DEF BH!FreeBlocks
    <3>2. QED
      BY <3>1, Numbers
  <2>6. FindFreeblock(h, asize) = l[i]
    BY <1>7, <2>2
  <2> HIDE DEF i
  <2>7. BH!FirstFit(H, asize, i)
    BY <2>3, <2>4 DEF BH!FirstFit, BH!Fits, l
  <2>8. QED
    BY <2>1, <2>2, <2>3, <2>5, <2>6, <2>7 DEF l
<1>11. last = Len(l) \/ last < Len(l)
  <2>1. last \in Nat
    BY <1>6
  <2>2. Len(l) \in Nat
    BY <1>1
  <2>3. QED
    BY <2>1, <2>2, <1>8
<1> HIDE DEF bp
<1>12. QED
  BY <1>9, <1>10, <1>11

(* mm_malloc: NULL and nothing done, the first fit of the free list, or a  *)
(* piece of a grown heap.                                                  *)
LEMMA MallocRep ==
  ASSUME NEW H, BH!Good(H), NEW h, Rep(h, H), NEW n \in Requests
  PROVE  LET r == Malloc(h, n)
             A == BH!BlockSize(n)
             E == BH!ExtendSize(A)
             g == BH!ExtendHeap(H, E)
         IN \/ r.ptr = NULL /\ r.heap = h
            \/ /\ n > 0 /\ r.ptr # NULL
               /\ \E i \in DOMAIN H.list :
                    BH!FirstFit(H, A, i) /\ r.ptr = H.list[i]
               /\ r.ptr \in BH!FreeBlocks(H) /\ H.size[r.ptr] >= A
               /\ Rep(r.heap, BH!Place(H, r.ptr, A))
               /\ Kept(h, r.heap, H, H.alloc)
            \/ /\ n > 0 /\ r.ptr # NULL
               /\ BH!NoFit(H, A) /\ BH!CanExtend(H, E)
               /\ r.ptr = g.list[1] /\ BH!Good(g) /\ r.ptr \in BH!FreeBlocks(g)
               /\ g.size[r.ptr] >= A /\ g.alloc = H.alloc
               /\ \A p \in H.alloc : g.size[p] = H.size[p]
               /\ Rep(r.heap, BH!Place(g, r.ptr, A))
               /\ Kept(h, r.heap, H, H.alloc)
<1> DEFINE A == BH!BlockSize(n)
           E == BH!ExtendSize(A)
           g == BH!ExtendHeap(H, E)
           bp == FindFreeblock(h, A)
           words == (IF A > CHUNKSIZE THEN A ELSE CHUNKSIZE) \div WSIZE
           k == ExtendHeap(h, words)
           r == Malloc(h, n)
<1>1. /\ BlockSize(n) = A /\ A \in Nat /\ A >= 24 /\ A % 8 = 0 /\ n \in Nat
  BY SameBlockSize
<1> HIDE DEF A
<1>2. /\ E \in Nat /\ E >= A /\ E >= 24 /\ E % 8 = 0
      /\ words \in Nat /\ (words + (words % 2)) * WSIZE = E
  <2>1. E = IF A > 4096 THEN A ELSE 4096
    BY Numbers DEF BH!ExtendSize
  <2> HIDE DEF E
  <2>2. E \in Nat /\ E >= A /\ E >= 24 /\ E % 8 = 0
    BY <1>1, <2>1
  <2>3. words = E \div 4
    BY <2>1, Numbers
  <2>4. (E \div 4) % 2 = 0 /\ (E \div 4) * 4 = E /\ E \div 4 \in Nat
    BY <2>2
  <2> HIDE DEF words
  <2>5. QED
    BY <2>2, <2>3, <2>4, Numbers
<1>3. CanExtend(h, words) <=> BH!CanExtend(H, E)
  <2>1. h.brk = H.brk
    BY DEF Rep, Holds
  <2> HIDE DEF words, E
  <2>2. QED
    BY <2>1, <1>2 DEF CanExtend, CanSbrk, BH!CanExtend
<1> HIDE DEF E
<1>4. r = CASE n = 0               -> [heap |-> h, ptr |-> NULL]
            [] n # 0 /\ bp # NULL  -> [heap |-> Place(h, bp, A), ptr |-> bp]
            [] n # 0 /\ bp = NULL /\ CanExtend(h, words) ->
                 [heap |-> Place(k, k.start, A), ptr |-> k.start]
            [] OTHER               -> [heap |-> h, ptr |-> NULL]
  BY <1>1 DEF Malloc
<1>5. \/ /\ bp = NULL /\ BH!NoFit(H, A)
      \/ \E i \in DOMAIN H.list :
           /\ bp = H.list[i] /\ BH!FirstFit(H, A, i) /\ bp # NULL
           /\ bp \in BH!FreeBlocks(H) /\ H.size[bp] >= A
  BY <1>1, FindRep
<1> HIDE DEF r, bp, k, words
<1>6. CASE n = 0 \/ (bp = NULL /\ ~CanExtend(h, words))
  BY <1>4, <1>6 DEF r
<1>7. CASE n # 0 /\ bp # NULL
  <2>1. r.heap = Place(h, bp, A) /\ r.ptr = bp /\ n > 0
    BY <1>1, <1>4, <1>7
  <2>2. PICK i \in DOMAIN H.list :
           /\ bp = H.list[i] /\ BH!FirstFit(H, A, i) /\ bp # NULL
           /\ bp \in BH!FreeBlocks(H) /\ H.size[bp] >= A
    BY <1>5, <1>7
  <2>3. Rep(Place(h, bp, A), BH!Place(H, bp, A))
        /\ Kept(h, Place(h, bp, A), H, H.alloc)
    BY <1>1, <2>2, PlaceRep
  <2>4. QED
    BY <2>1, <2>2, <2>3 DEF A, r
<1>8. CASE n # 0 /\ bp = NULL /\ CanExtend(h, words)
  <2>1. r.heap = Place(k, k.start, A) /\ r.ptr = k.start /\ n > 0
    BY <1>1, <1>4, <1>8
  <2>2. BH!NoFit(H, A) /\ BH!CanExtend(H, E)
    BY <1>3, <1>5, <1>8
  <2>3. Rep(k, g) /\ Kept(h, k, H, H.alloc)
    BY <1>2, <2>2, ExtendRep DEF k
  <2>4. /\ BH!Good(g) /\ g.alloc = H.alloc
        /\ \A p \in H.alloc : g.size[p] = H.size[p]
        /\ 1 \in DOMAIN g.list /\ g.size[g.list[1]] >= E
    BY <1>2, <2>2, BlockHeapOK, BH!ExtendFacts, Numbers
  <2> HIDE DEF g
  <2>5. /\ Shape(g) /\ BH!ListExact(g) /\ BH!HeapType(g)
        /\ g.list \in Seq(BH!Blocks(g)) /\ Chain(k, g.list)
    BY <2>3, <2>4 DEF BH!Good, Shape, Rep, Holds
  <2>6. g.list[1] \in BH!FreeBlocks(g)
    BY <2>4, <2>5 DEF BH!ListExact, BH!FreeBlocks
  <2>7. k.start = g.list[1]
    <3>1. 1 <= Len(g.list)
      BY <2>4, <2>5
    <3>2. QED
      BY <3>1, <2>5 DEF Chain, At
  <2>8. g.size[g.list[1]] >= A /\ g.list[1] # NULL
    <3>1. g.list[1] \in Nat /\ FirstBp <= g.list[1] /\ g.size[g.list[1]] \in Nat
      BY <2>5, <2>6, BlockNumbers DEF BH!FreeBlocks
    <3>2. QED
      BY <3>1, <2>4, <1>1, <1>2, Numbers
  <2>9. Rep(r.heap, BH!Place(g, k.start, A)) /\ Kept(k, r.heap, g, g.alloc)
    <3> DEFINE b == g.list[1]
    <3>1. b \in BH!FreeBlocks(g) /\ g.size[b] >= A /\ k.start = b
      BY <2>6, <2>7, <2>8
    <3> HIDE DEF b
    <3>2. Rep(Place(k, b, A), BH!Place(g, b, A))
          /\ Kept(k, Place(k, b, A), g, g.alloc)
      BY <1>1, <2>3, <2>4, <3>1, PlaceRep
    <3>3. QED
      BY <2>1, <3>1, <3>2
  <2>10. Kept(h, r.heap, H, H.alloc)
    <3>1. Kept(k, r.heap, H, H.alloc)
      BY <2>4, <2>9 DEF Kept, Own
    <3>2. QED
      BY <2>3, <3>1, KeptTwice
  <2>11. QED
    BY <2>1, <2>2, <2>4, <2>6, <2>7, <2>8, <2>9, <2>10 DEF A, E, g, r
<1>9. QED
  BY <1>6, <1>7, <1>8

(* What is written into the payload of an allocated block concerns neither *)
(* tags nor links.                                                         *)
LEMMA PayloadFree ==
  ASSUME NEW G, Shape(G), BH!ListExact(G), NEW h, Rep(h, G), NEW p \in G.alloc,
         NEW g, MemOK(g), g.brk = h.brk, g.start = h.start,
         \A a \in Int : ~(p <= a /\ a < p + G.size[p] - 8) => Same(h, g, a)
  PROVE  Rep(g, G) /\ Kept(h, g, G, BH!Blocks(G) \ {p})
<1> DEFINE l == G.list
           B == BH!Blocks(G)
<1>1. /\ Holds(h, G, B, l) /\ Get(h, HDRP(G.brk)) = 1
      /\ l \in Seq(B) /\ Injective(l) /\ Chain(h, l) /\ Len(l) \in Nat
      /\ p \in B /\ \A x \in B : TagAt(h, G, x)
      /\ DOMAIN l = 1..Len(l) /\ h.brk = G.brk
  BY DEF Rep, Holds, Shape, BH!HeapType
<1>2. ASSUME NEW a \in Int, ~Own(G, p, a) PROVE Same(h, g, a)
  <2>1. p \in Nat /\ G.size[p] \in Nat
    BY <1>1, BlockNumbers
  <2>2. QED
    BY <1>2, <2>1, Numbers DEF Own
<1>3. Kept(h, g, G, B \ {p})
  <2>1. ASSUME NEW x \in B \ {p}, NEW a \in Int, Own(G, x, a) PROVE Same(h, g, a)
    BY <1>1, <1>2, <2>1, Apart
  <2>2. QED
    BY <2>1 DEF Kept
<1>4. /\ Same(h, g, FirstBp - 8) /\ Same(h, g, Prologue - 4)
      /\ Same(h, g, Prologue) /\ Same(h, g, G.brk - 4)
  <2>1. /\ FirstBp - 8 \in Int /\ Prologue - 4 \in Int /\ Prologue \in Int
        /\ G.brk - 4 \in Int
        /\ FirstBp - 8 < FirstBp - 4 /\ Prologue - 4 < FirstBp - 4
        /\ Prologue < FirstBp - 4 /\ G.brk - 4 >= G.brk - 4
    BY <1>1, BlockNumbers, Numbers
  <2>2. QED
    BY <1>1, <1>2, <2>1, OutsideBlocks
<1>5. ASSUME NEW x \in B, x # p
      PROVE  /\ Same(h, g, x - 4) /\ Same(h, g, x) /\ Same(h, g, x + 8)
             /\ Same(h, g, x + G.size[x] - 8)
  <2>1. /\ Own(G, x, x - 4) /\ Own(G, x, x) /\ Own(G, x, x + 8)
        /\ Own(G, x, x + G.size[x] - 8)
    BY BlockWords
  <2>2. x \in Nat /\ G.size[x] \in Nat
    BY BlockNumbers
  <2>3. x - 4 \in Int /\ x \in Int /\ x + 8 \in Int /\ x + G.size[x] - 8 \in Int
    BY <2>2
  <2>4. x \in B \ {p}
    BY <1>5
  <2>5. QED
    BY <1>3, <2>1, <2>3, <2>4 DEF Kept
<1>6. \A x \in B : TagAt(g, G, x)
  <2>1. ASSUME NEW x \in B PROVE Same(h, g, x - 4) /\ Same(h, g, x + G.size[x] - 8)
    <3>1. CASE x # p
      BY <1>5, <3>1
    <3>2. CASE x = p
      <4>1. p \in Nat /\ G.size[p] \in Nat
        BY <1>1, BlockNumbers
      <4>2. QED
        BY <3>2, <4>1
    <3>3. QED
      BY <3>1, <3>2
  <2>2. QED
    BY <1>1, <2>1, Numbers DEF TagAt, Same, HDRP
<1>7. \A i \in 1..Len(l) : l[i] \in B /\ l[i] # p
  BY <1>1 DEF BH!ListExact
<1>8. Chain(g, l)
  <2>1. \A i \in 1..Len(l) + 1 : Same(h, g, At(l, i))
    BY <1>4, <1>5, <1>7 DEF At
  <2>2. \A i \in 1..Len(l) : Same(h, g, At(l, i) + 8)
    BY <1>5, <1>7 DEF At
  <2>3. QED
    BY <1>1, <2>1, <2>2, ChainKept
<1>9. Holds(g, G, B, l)
  BY <1>1, <1>4, <1>6, <1>8, Numbers DEF Holds, Same, HDRP
<1>10. QED
  BY <1>1, <1>3, <1>4, <1>9, Numbers DEF Rep, Same, HDRP

(* the client's memset                                                     *)
LEMMA FillFacts ==
  ASSUME NEW h, MemOK(h), NEW p \in Words, NEW n \in Nat, n > 0, NEW id \in Ids
  PROVE  LET g == ClientFill(h, p, n, id)
         IN /\ MemOK(g) /\ g.brk = h.brk /\ g.start = h.start
            /\ Get(g, p) = Fill(id)
            /\ \A a : ~InPayload(a, p, n) => Same(h, g, a)
            /\ \A a \in DOMAIN g.mem : InPayload(a, p, n) => a = p
<1> DEFINE keep == {a \in DOMAIN h.mem : ~InPayload(a, p, n)}
           f == [y \in keep \cup {p} |-> IF y = p THEN Fill(id) ELSE h.mem[y]]
           g == ClientFill(h, p, n, id)
<1>1. Fill(id) \in Nat
  BY FreeListMallocAssumption DEF Fill
<1>2. InPayload(p, p, n)
  BY DEF InPayload, Words
<1>3. g = [h EXCEPT !.mem = f]
  <2>1. Update(Restrict(h.mem, keep), p, Fill(id)) = f
    BY DEF Update, Restrict
  <2>2. QED
    BY <2>1 DEF ClientFill
<1>4. /\ g.mem = f /\ g.brk = h.brk /\ g.start = h.start
      /\ g = [mem |-> g.mem, brk |-> g.brk, start |-> g.start]
  <2>1. h = [mem |-> h.mem, brk |-> h.brk, start |-> h.start]
    BY DEF MemOK
  <2> HIDE DEF f, g
  <2>2. QED
    BY <1>3, <2>1
<1> HIDE DEF g
<1>5. DOMAIN f = keep \cup {p} /\ f[p] = Fill(id)
      /\ \A a \in keep : a # p => f[a] = h.mem[a]
  OBVIOUS
<1>6. f \in [DOMAIN f -> Nat] /\ DOMAIN f \subseteq Words
  BY <1>1 DEF MemOK
<1> HIDE DEF f
<1>7. MemOK(g)
  BY <1>4, <1>6 DEF MemOK
<1>8. ASSUME NEW a, ~InPayload(a, p, n) PROVE Same(h, g, a)
  <2>1. a # p
    BY <1>2, <1>8
  <2>2. a \in keep <=> a \in DOMAIN h.mem
    BY <1>8
  <2> HIDE DEF keep
  <2>3. QED
    BY <2>1, <2>2, <1>4, <1>5 DEF Same, Get
<1>9. Get(g, p) = Fill(id)
  BY <1>4, <1>5 DEF Get
<1>10. \A a \in DOMAIN g.mem : InPayload(a, p, n) => a = p
  BY <1>4, <1>5
<1>11. QED
  BY <1>4, <1>7, <1>8, <1>9, <1>10 DEF g

(* The client fills the payload of an allocated block.                     *)
LEMMA FillRep ==
  ASSUME NEW G, BH!Good(G), NEW h, Rep(h, G), NEW p \in G.alloc,
         NEW n \in Nat, n > 0, n + 8 <= G.size[p], NEW id \in Ids
  PROVE  LET g == ClientFill(h, p, n, id)
         IN /\ Rep(g, G) /\ Kept(h, g, G, BH!Blocks(G) \ {p})
            /\ Get(g, p) = Fill(id)
            /\ \A a \in DOMAIN g.mem : InPayload(a, p, n) => a = p
<1> DEFINE g == ClientFill(h, p, n, id)
<1>1. Shape(G) /\ BH!ListExact(G) /\ p \in BH!Blocks(G) /\ MemOK(h)
  BY DEF BH!Good, Shape, BH!HeapType, Rep, Holds
<1>2. p \in Words /\ p \in Nat /\ G.size[p] \in Nat
  BY <1>1, BlockWords, BlockNumbers
<1>3. /\ MemOK(g) /\ g.brk = h.brk /\ g.start = h.start
      /\ Get(g, p) = Fill(id)
      /\ \A a : ~InPayload(a, p, n) => Same(h, g, a)
      /\ \A a \in DOMAIN g.mem : InPayload(a, p, n) => a = p
  BY <1>1, <1>2, FillFacts
<1> HIDE DEF g
<1>4. \A a \in Int : ~(p <= a /\ a < p + G.size[p] - 8) => Same(h, g, a)
  <2>1. ASSUME NEW a \in Int, ~(p <= a /\ a < p + G.size[p] - 8)
        PROVE  Same(h, g, a)
    <3>1. ~InPayload(a, p, n)
      BY <1>2, <2>1 DEF InPayload
    <3>2. QED
      BY <1>3, <3>1
  <2>2. QED
    BY <2>1
<1>5. Rep(g, G) /\ Kept(h, g, G, BH!Blocks(G) \ {p})
  BY <1>1, <1>3, <1>4, PayloadFree
<1>6. QED
  BY <1>3, <1>5 DEF g

(* the client's bytes in one of its payloads                               *)
Intact(h, p, n, id) ==
  /\ Get(h, p) = Fill(id)
  /\ \A a \in DOMAIN h.mem : InPayload(a, p, n) => a = p

(* A payload stays intact while its block is kept.                         *)
LEMMA IntactKept ==
  ASSUME NEW H, Shape(H), NEW p \in BH!Blocks(H), NEW n \in Nat,
         n + 8 <= H.size[p], NEW h, NEW g, MemOK(g), Kept(h, g, H, {p}),
         NEW id, Intact(h, p, n, id)
  PROVE  Intact(g, p, n, id)
<1>1. p \in Nat /\ H.size[p] \in Nat
  BY BlockNumbers
<1>2. \A a \in Int : p <= a /\ a < p + n => Same(h, g, a)
  BY <1>1, Numbers DEF Kept, Own
<1>3. Get(g, p) = Fill(id)
  <2>1. Own(H, p, p) /\ p \in Int
    BY <1>1, BlockWords
  <2>2. Same(h, g, p)
    BY <2>1 DEF Kept
  <2>3. QED
    BY <2>2 DEF Same, Intact
<1>4. ASSUME NEW a \in DOMAIN g.mem, InPayload(a, p, n) PROVE a = p
  <2>1. a \in Int
    BY <1>4 DEF MemOK, Words
  <2>2. a \in DOMAIN h.mem
    BY <1>2, <1>4, <2>1 DEF InPayload, Same
  <2>3. QED
    BY <1>4, <2>2 DEF Intact
<1>5. QED
  BY <1>3, <1>4 DEF Intact

(* Every operation of BlockHeap returns a heap with just the four fields.  *)
Record(G) == G = BH!Heap(G.size, G.alloc, G.list, G.brk)

(* The operations of BlockHeap return records of its four fields.          *)
LEMMA Records ==
  /\ \A s, a, l, k : Record(BH!Heap(s, a, l, k))
  /\ \A H, b : Record(BH!Coalesce(H, b))
  /\ \A H, b, n : Record(BH!Place(H, b, n))
  /\ Record(BH!FreshHeap)
<1>1. \A s, a, l, k : Record(BH!Heap(s, a, l, k))
  BY DEF Record, BH!Heap
<1>2. \A H, b : Record(BH!Coalesce(H, b))
  <2>1. \A H, b : Record(BH!InsertBlock(H, b))
    BY <1>1 DEF BH!InsertBlock
  <2>2. QED
    BY <2>1 DEF BH!Coalesce
<1>3. \A H, b, n : Record(BH!Place(H, b, n))
  <2>1. \A H, b : Record(BH!Mark(H, b))
    BY <1>1 DEF BH!Mark
  <2>2. QED
    BY <1>2, <2>1 DEF BH!Place
<1>4. Record(BH!FreshHeap)
  BY <1>2 DEF BH!FreshHeap, BH!ExtendHeap
<1>5. QED
  BY <1>1, <1>2, <1>3, <1>4

(* Reading the blocks off words that represent G gives G.                  *)
LEMMA ReadBack ==
  ASSUME NEW G, BH!Good(G), Record(G), NEW h, Rep(h, G)
  PROVE  BlockHeapOf(h) = G
<1>1. Shape(G) /\ BH!ListExact(G)
  BY DEF BH!Good, Shape
<1>2. QED
  BY <1>1, RepExact DEF Record

-----------------------------------------------------------------------------
(* The driver's table, by request and by pointer.                          *)
OneEach(l) == \A i, j \in DOMAIN l : l[i].ptr = l[j].ptr => i = j

(* The client's table, read by pointer, gives each pointer its size.       *)
LEMMA LiveAt ==
  ASSUME NEW l, OneEach(l)
  PROVE  /\ DOMAIN LiveOf(l) = PtrsOf(l)
         /\ LiveOf(l) = [p \in PtrsOf(l) |-> LiveOf(l)[p]]
         /\ \A i \in DOMAIN l : /\ l[i].ptr \in PtrsOf(l)
                                /\ LiveOf(l)[l[i].ptr] = l[i].size
<1>1. DOMAIN LiveOf(l) = PtrsOf(l) /\ LiveOf(l) = [p \in PtrsOf(l) |-> LiveOf(l)[p]]
  BY DEF LiveOf
<1>2. ASSUME NEW i \in DOMAIN l
      PROVE  l[i].ptr \in PtrsOf(l) /\ LiveOf(l)[l[i].ptr] = l[i].size
  <2>1. l[i].ptr \in PtrsOf(l)
    BY DEF PtrsOf
  <2>2. LiveOf(l)[l[i].ptr] = l[CHOOSE j \in DOMAIN l : l[j].ptr = l[i].ptr].size
    BY <2>1 DEF LiveOf
  <2>3. (CHOOSE j \in DOMAIN l : l[j].ptr = l[i].ptr) = i
    BY DEF OneEach
  <2>4. QED
    BY <2>1, <2>2, <2>3
<1>3. QED
  BY <1>1, <1>2

(* A table of pointers is known by its domain and its sizes.               *)
LEMMA LiveIs ==
  ASSUME NEW l, OneEach(l), NEW f, NEW S, f = [p \in S |-> f[p]],
         PtrsOf(l) = S, \A i \in DOMAIN l : f[l[i].ptr] = l[i].size
  PROVE  LiveOf(l) = f
<1>1. \A p \in PtrsOf(l) : LiveOf(l)[p] = f[p]
  <2>1. ASSUME NEW p \in PtrsOf(l) PROVE LiveOf(l)[p] = f[p]
    <3>1. PICK i \in DOMAIN l : l[i].ptr = p
      BY DEF PtrsOf
    <3>2. LiveOf(l)[l[i].ptr] = l[i].size
      BY LiveAt
    <3>3. QED
      BY <3>1, <3>2
  <2>2. QED
    BY <2>1
<1>2. QED
  BY <1>1, LiveAt

(* It changes as BlockHeap's table does: after mm_malloc ...               *)
LEMMA LiveAdd ==
  ASSUME NEW l, OneEach(l), NEW id, id \notin DOMAIN l,
         NEW e, e.ptr \notin PtrsOf(l), NEW k, k = Update(l, id, e)
  PROVE  LiveOf(k) = Update(LiveOf(l), e.ptr, e.size)
<1> DEFINE p == e.ptr
           n == e.size
           f == [q \in DOMAIN LiveOf(l) \cup {p} |->
                   IF q = p THEN n ELSE LiveOf(l)[q]]
<1>1. /\ DOMAIN k = DOMAIN l \cup {id} /\ k[id] = e
      /\ \A i \in DOMAIN l : k[i] = l[i]
  BY DEF Update
<1> HIDE DEF p, n
<1>2. \A i \in DOMAIN l : l[i].ptr # p /\ l[i].ptr \in PtrsOf(l)
  BY DEF PtrsOf, p
<1>3. OneEach(k)
  BY <1>1, <1>2 DEF OneEach, p
<1>4. PtrsOf(k) = PtrsOf(l) \cup {p}
  <2>1. \A q \in PtrsOf(k) : q \in PtrsOf(l) \cup {p}
    BY <1>1 DEF PtrsOf, p
  <2>2. \A q \in PtrsOf(l) : q \in PtrsOf(k)
    BY <1>1 DEF PtrsOf
  <2>3. p \in PtrsOf(k)
    BY <1>1 DEF PtrsOf, p
  <2>4. QED
    BY <2>1, <2>2, <2>3
<1>5. DOMAIN LiveOf(l) = PtrsOf(l) /\ \A i \in DOMAIN l : LiveOf(l)[l[i].ptr] = l[i].size
  BY LiveAt
<1>6. \A i \in DOMAIN k : f[k[i].ptr] = k[i].size
  <2>1. ASSUME NEW i \in DOMAIN l PROVE f[k[i].ptr] = k[i].size
    BY <1>1, <1>2, <1>5
  <2>2. f[k[id].ptr] = k[id].size
    BY <1>1 DEF p, n
  <2>3. QED
    BY <1>1, <2>1, <2>2
<1>7. f = [q \in PtrsOf(l) \cup {p} |-> f[q]]
  BY <1>5
<1> HIDE DEF f
<1>8. LiveOf(k) = f
  BY <1>3, <1>4, <1>6, <1>7, LiveIs
<1>9. QED
  BY <1>1, <1>3, <1>8 DEF f, p, n, Update

(* ... after mm_free ...                                                   *)
LEMMA LiveDrop ==
  ASSUME NEW l, OneEach(l), NEW id \in DOMAIN l
  PROVE  LET k == Restrict(l, DOMAIN l \ {id})
         IN /\ OneEach(k)
            /\ LiveOf(k) = BH!Restrict(LiveOf(l), DOMAIN LiveOf(l) \ {l[id].ptr})
            /\ DOMAIN k = DOMAIN l \ {id}
            /\ \A i \in DOMAIN k : k[i] = l[i]
<1> DEFINE k == Restrict(l, DOMAIN l \ {id})
           p == l[id].ptr
           f == [q \in PtrsOf(l) \ {p} |-> LiveOf(l)[q]]
<1>1. /\ DOMAIN k = DOMAIN l \ {id} /\ \A i \in DOMAIN k : k[i] = l[i]
  BY DEF Restrict
<1> HIDE DEF k
<1>2. OneEach(k)
  BY <1>1 DEF OneEach
<1>3. \A i \in DOMAIN l : i # id => l[i].ptr # p
  BY DEF OneEach
<1>4. PtrsOf(k) = PtrsOf(l) \ {p}
  <2>1. \A q \in PtrsOf(k) : q \in PtrsOf(l) \ {p}
    BY <1>1, <1>3 DEF PtrsOf
  <2>2. \A q \in PtrsOf(l) \ {p} : q \in PtrsOf(k)
    BY <1>1, <1>3 DEF PtrsOf
  <2>3. QED
    BY <2>1, <2>2
<1>5. DOMAIN LiveOf(l) = PtrsOf(l) /\ \A i \in DOMAIN l : l[i].ptr \in PtrsOf(l) /\ LiveOf(l)[l[i].ptr] = l[i].size
  BY LiveAt
<1>6. \A i \in DOMAIN k : f[k[i].ptr] = k[i].size
  BY <1>1, <1>3, <1>5
<1>7. f = [q \in PtrsOf(l) \ {p} |-> f[q]]
  OBVIOUS
<1>8. f = BH!Restrict(LiveOf(l), DOMAIN LiveOf(l) \ {p})
  BY <1>5 DEF BH!Restrict
<1> HIDE DEF f
<1>9. LiveOf(k) = f
  BY <1>2, <1>4, <1>6, <1>7, LiveIs
<1>10. QED
  BY <1>1, <1>2, <1>8, <1>9 DEF k, p

(* ... and after mm_realloc has kept the block.                            *)
LEMMA LiveResize ==
  ASSUME NEW l, OneEach(l), NEW id \in DOMAIN l, NEW n,
         l[id] = [ptr |-> l[id].ptr, size |-> l[id].size]
  PROVE  LET k == [l EXCEPT ![id].size = n]
         IN /\ OneEach(k)
            /\ LiveOf(k) = [LiveOf(l) EXCEPT ![l[id].ptr] = n]
            /\ DOMAIN k = DOMAIN l
            /\ k[id].ptr = l[id].ptr /\ k[id].size = n
            /\ \A i \in DOMAIN l \ {id} : k[i] = l[i]
<1> DEFINE k == [l EXCEPT ![id].size = n]
           p == l[id].ptr
           f == [LiveOf(l) EXCEPT ![p] = n]
<1>1. /\ DOMAIN k = DOMAIN l
      /\ k[id].ptr = l[id].ptr /\ k[id].size = n
      /\ \A i \in DOMAIN l \ {id} : k[i] = l[i]
  OBVIOUS
<1> HIDE DEF k
<1>2. \A i \in DOMAIN l : k[i].ptr = l[i].ptr
  BY <1>1
<1>3. OneEach(k)
  BY <1>1, <1>2 DEF OneEach
<1>4. PtrsOf(k) = PtrsOf(l)
  BY <1>1, <1>2 DEF PtrsOf
<1>5. /\ DOMAIN LiveOf(l) = PtrsOf(l) /\ p \in PtrsOf(l)
      /\ \A i \in DOMAIN l : /\ l[i].ptr \in PtrsOf(l)
                             /\ LiveOf(l)[l[i].ptr] = l[i].size
      /\ LiveOf(l) = [q \in PtrsOf(l) |-> LiveOf(l)[q]]
  BY LiveAt
<1>6. f = [q \in PtrsOf(l) |-> f[q]] /\ f[p] = n
      /\ \A q \in PtrsOf(l) : q # p => f[q] = LiveOf(l)[q]
  BY <1>5
<1> HIDE DEF f
<1>7. \A i \in DOMAIN l : i # id => l[i].ptr # p
  BY DEF OneEach
<1>8. \A i \in DOMAIN k : f[k[i].ptr] = k[i].size
  <2>1. ASSUME NEW i \in DOMAIN l, i # id PROVE f[k[i].ptr] = k[i].size
    BY <1>1, <1>2, <1>5, <1>6, <1>7, <2>1
  <2>2. f[k[id].ptr] = k[id].size
    BY <1>1, <1>6
  <2>3. QED
    BY <1>1, <2>1, <2>2
<1>9. LiveOf(k) = f
  BY <1>3, <1>4, <1>6, <1>8, LiveIs
<1>10. QED
  BY <1>1, <1>3, <1>9 DEF k, f

(* The inductive invariant: the words represent the heap of blocks they    *)
(* are read as, that heap satisfies the invariant of the block-level       *)
(* allocator, and the client's bytes are where it put them.                *)
Entries == [ptr : Nat, size : Requests]

Statuses == {"running", "out of memory", "outside heap", "crashed", "aborted"}

IInv ==
  /\ Rep(heap, BlockHeapOf(heap))
  /\ BH!IInv
  /\ DOMAIN live \subseteq Ids /\ live \in [DOMAIN live -> Entries]
  /\ PayloadsUntouched
  /\ status \in Statuses /\ calls \in 0..MaxCalls

(* Each request's fill is its own, so no two share a pointer.              *)
LEMMA LiveFacts ==
  ASSUME IInv
  PROVE  LET H == BlockHeapOf(heap)
         IN /\ BH!Good(H) /\ Record(H) /\ Rep(heap, H) /\ OneEach(live)
            /\ PtrsOf(live) = H.alloc /\ DOMAIN LiveOf(live) = H.alloc
            /\ \A id \in DOMAIN live :
                 /\ live[id].ptr \in H.alloc /\ live[id].size \in Requests
                 /\ live[id].size \in Nat
                 /\ live[id].size + 8 <= H.size[live[id].ptr]
                 /\ LiveOf(live)[live[id].ptr] = live[id].size
                 /\ Intact(heap, live[id].ptr, live[id].size, id)
                 /\ live[id] = [ptr |-> live[id].ptr, size |-> live[id].size]
<1> DEFINE H == BlockHeapOf(heap)
<1>1. /\ Rep(heap, H) /\ BH!Good(H) /\ BH!LiveMatches
      /\ DOMAIN live \subseteq Ids /\ live \in [DOMAIN live -> Entries]
      /\ PayloadsUntouched
  BY DEF IInv, BH!IInv
<1>2. Record(H)
  BY Records DEF BlockHeapOf, BH!Heap, Record
<1>3. \A id \in DOMAIN live : Intact(heap, live[id].ptr, live[id].size, id)
  BY <1>1 DEF PayloadsUntouched, Intact
<1>4. OneEach(live)
  <2>1. \A i, j \in DOMAIN live : live[i].ptr = live[j].ptr => Fill(i) = Fill(j)
    BY <1>3 DEF Intact
  <2>2. \A i, j \in DOMAIN live : Fill(i) = Fill(j) => i = j
    <3>1. \A i \in DOMAIN live : i \in Nat
      BY <1>1, FreeListMallocAssumption
    <3>2. QED
      BY <3>1 DEF Fill
  <2>3. QED
    BY <2>1, <2>2 DEF OneEach
<1>5. DOMAIN LiveOf(live) = H.alloc
      /\ \A p \in DOMAIN LiveOf(live) : LiveOf(live)[p] + 8 <= H.size[p]
  BY <1>1, Numbers DEF BH!LiveMatches
<1>6. /\ DOMAIN LiveOf(live) = PtrsOf(live)
      /\ \A i \in DOMAIN live : /\ live[i].ptr \in PtrsOf(live)
                                /\ LiveOf(live)[live[i].ptr] = live[i].size
  BY <1>4, LiveAt
<1>7. \A id \in DOMAIN live :
        /\ live[id].size \in Requests
        /\ live[id] = [ptr |-> live[id].ptr, size |-> live[id].size]
  BY <1>1 DEF Entries
<1>8. \A id \in DOMAIN live : live[id].size \in Nat
  BY <1>7, Numbers
<1> HIDE DEF H
<1>9. \A id \in DOMAIN live : live[id].size + 8 <= H.size[live[id].ptr]
  BY <1>5, <1>6
<1>10. QED
  BY <1>1, <1>2, <1>3, <1>4, <1>5, <1>6, <1>7, <1>8, <1>9 DEF H

(* A step as the block-level allocator sees it.                            *)
LEMMA LiftedStep ==
  ASSUME BH!IInv, [BH!Next]_(BH!vars)
  PROVE  BH!IInv'
BY BlockHeapOK, BH!StepInv

(* The first heap.                                                         *)
LEMMA BlankFacts ==
  /\ MemOK(BlankHeap) /\ BlankHeap.brk = MemStart
  /\ Get(BlankHeap, FirstBp - DSIZE) = 0
<1>1. /\ BlankHeap.mem = << >> /\ BlankHeap.brk = MemStart
      /\ BlankHeap = [mem |-> BlankHeap.mem, brk |-> BlankHeap.brk,
                      start |-> BlankHeap.start]
  BY DEF BlankHeap
<1>2. DOMAIN BlankHeap.mem = {}
  BY <1>1
<1>3. QED
  BY <1>1, <1>2 DEF MemOK, Get

(* mm_init on an empty heap leaves the words of BlockHeap's FreshHeap.     *)
LEMMA FreshStart ==
  ASSUME NEW h, MemOK(h), h.brk = MemStart, Get(h, FirstBp - DSIZE) = 0
  PROVE  /\ Rep(MmInit(h), BlockHeapOf(MmInit(h)))
         /\ BlockHeapOf(MmInit(h)) = BH!FreshHeap
<1>1. Rep(MmInit(h), BH!FreshHeap)
  BY FreshRep
<1>2. BH!Good(BH!FreshHeap)
  BY BlockHeapOK, BH!FreshFacts
<1>3. BlockHeapOf(MmInit(h)) = BH!FreshHeap
  BY <1>1, <1>2, Records, ReadBack
<1>4. QED
  BY <1>1, <1>3

(* A trace starts with an empty table on both levels.                      *)
LEMMA NoneLive == LiveOf(<< >>) = << >>
<1>1. DOMAIN << >> = {}
  OBVIOUS
<1>2. PtrsOf(<< >>) = {}
  BY <1>1 DEF PtrsOf
<1>3. DOMAIN LiveOf(<< >>) = {}
  BY <1>2 DEF LiveOf
<1>4. LiveOf(<< >>) = [p \in {} |-> LiveOf(<< >>)[p]]
  BY <1>2 DEF LiveOf
<1>5. << >> = [p \in {} |-> LiveOf(<< >>)[p]]
  OBVIOUS
<1>6. QED
  BY <1>4, <1>5

(* The state main leaves the package in before the first call.             *)
LEMMA FirstState ==
  ASSUME Init
  PROVE  IInv /\ BH!Init
<1>1. /\ heap = MmInit(BlankHeap) /\ live = << >> /\ status = "running" /\ calls = 0
  BY DEF Init
<1>2. Rep(heap, BlockHeapOf(heap)) /\ BlockHeapOf(heap) = BH!FreshHeap
  BY <1>1, BlankFacts, FreshStart
<1>3. BH!Init
  BY <1>1, <1>2, NoneLive DEF BH!Init
<1>4. BH!IInv
  BY <1>3, BlockHeapOK, BH!InitInv
<1>5. /\ DOMAIN live = {} /\ live \in [DOMAIN live -> Entries]
      /\ PayloadsUntouched
  BY <1>1 DEF PayloadsUntouched
<1>6. calls \in 0..MaxCalls
  BY <1>1, FreeListMallocAssumption
<1>7. QED
  BY <1>1, <1>2, <1>3, <1>4, <1>5, <1>6 DEF IInv, Statuses

(* The state after mm_malloc has placed a block and the client filled it.  *)
LEMMA Handed ==
  ASSUME IInv, NEW id \in Ids, id \notin DOMAIN live, NEW n \in Requests, n > 0,
         NEW G, BH!Good(G), NEW b \in BH!FreeBlocks(G),
         G.size[b] >= BH!BlockSize(n), G.alloc = BlockHeapOf(heap).alloc,
         \A p \in G.alloc : G.size[p] = BlockHeapOf(heap).size[p],
         NEW k, Rep(k, BH!Place(G, b, BH!BlockSize(n))),
         Kept(heap, k, BlockHeapOf(heap), BlockHeapOf(heap).alloc),
         heap' = ClientFill(k, b, n, id),
         live' = Update(live, id, [ptr |-> b, size |-> n])
  PROVE  /\ Rep(heap', BlockHeapOf(heap'))
         /\ BlockHeapOf(heap') = BH!Place(G, b, BH!BlockSize(n))
         /\ LiveOf(live') = Update(LiveOf(live), b, n)
         /\ DOMAIN live' \subseteq Ids /\ live' \in [DOMAIN live' -> Entries]
         /\ PayloadsUntouched'
<1> DEFINE H == BlockHeapOf(heap)
           A == BH!BlockSize(n)
           P == BH!Place(G, b, A)
<1>1. /\ A \in Nat /\ A >= 24 /\ A % 8 = 0 /\ A >= n + 8 /\ n \in Nat
  BY SameBlockSize
<1>2. /\ BH!Good(H) /\ Rep(heap, H) /\ OneEach(live)
      /\ PtrsOf(live) = H.alloc /\ DOMAIN LiveOf(live) = H.alloc
      /\ \A i \in DOMAIN live :
           /\ live[i].ptr \in H.alloc /\ live[i].size \in Requests
           /\ live[i].size \in Nat
           /\ live[i].size + 8 <= H.size[live[i].ptr]
           /\ Intact(heap, live[i].ptr, live[i].size, i)
  BY LiveFacts
<1>3. G.alloc = H.alloc /\ \A p \in H.alloc : G.size[p] = H.size[p]
  OBVIOUS
<1> HIDE DEF A, H
<1>4. /\ BH!Good(P) /\ P.alloc = H.alloc \cup {b}
      /\ \A p \in H.alloc : P.size[p] = H.size[p]
      /\ P.size[b] >= A
  <2>1. A % BH!DSIZE = 0 /\ A >= MIN_BLOCKSIZE /\ G.size[b] >= A
    BY <1>1, Numbers DEF A
  <2>2. /\ BH!Good(P) /\ P.alloc = G.alloc \cup {b}
        /\ \A p \in G.alloc : P.size[p] = G.size[p]
        /\ P.size[b] >= A
    BY <1>1, <2>1, BlockHeapOK, BH!PlaceFacts
  <2>3. QED
    BY <1>3, <2>2
<1>5. Rep(k, P) /\ Record(P) /\ Kept(heap, k, H, H.alloc)
  BY Records DEF A, H
<1> HIDE DEF P
<1>6. b \in P.alloc /\ n + 8 <= P.size[b] /\ b \notin H.alloc /\ b \in Nat
      /\ H.alloc \subseteq BH!Blocks(P) \ {b} /\ H.alloc \subseteq BH!Blocks(H)
      /\ Shape(H) /\ Shape(P)
  <2>1. Shape(P) /\ Shape(H) /\ Shape(G)
    BY <1>2, <1>4 DEF BH!Good, Shape
  <2>2. b \in BH!Blocks(G) /\ b \notin H.alloc
    BY <1>3 DEF BH!FreeBlocks
  <2>3. b \in Nat /\ b \in P.alloc
    BY <1>4, <2>1, <2>2, BlockNumbers
  <2>4. P.alloc \subseteq BH!Blocks(P) /\ H.alloc \subseteq BH!Blocks(H)
    BY <2>1 DEF Shape, BH!HeapType
  <2>5. P.size[b] \in Nat
    BY <2>1, <2>3, <2>4, BlockNumbers
  <2>6. QED
    BY <1>1, <1>4, <2>1, <2>2, <2>3, <2>4, <2>5
<1>7. /\ Rep(heap', P) /\ Kept(k, heap', P, BH!Blocks(P) \ {b})
      /\ Get(heap', b) = Fill(id)
      /\ \A a \in DOMAIN heap'.mem : InPayload(a, b, n) => a = b
  <2> DEFINE f == ClientFill(k, b, n, id)
  <2>1. /\ Rep(f, P) /\ Kept(k, f, P, BH!Blocks(P) \ {b})
        /\ Get(f, b) = Fill(id)
        /\ \A a \in DOMAIN f.mem : InPayload(a, b, n) => a = b
    <3>1. /\ BH!Good(P) /\ Rep(k, P) /\ b \in P.alloc /\ n \in Nat /\ n > 0
          /\ n + 8 <= P.size[b] /\ id \in Ids
      BY <1>1, <1>4, <1>5, <1>6
    <3>2. QED
      BY <3>1, FillRep, ZenonT(60)
  <2>2. heap' = f
    OBVIOUS
  <2> HIDE DEF f
  <2>3. QED
    BY <2>1, <2>2
<1>8. BlockHeapOf(heap') = P
  BY <1>4, <1>5, <1>7, ReadBack
<1>9. /\ LiveOf(live') = Update(LiveOf(live), b, n)
      /\ DOMAIN live' = DOMAIN live \cup {id}
      /\ live'[id].ptr = b /\ live'[id].size = n
      /\ \A i \in DOMAIN live : live'[i] = live[i]
  <2> DEFINE e == [ptr |-> b, size |-> n]
  <2>1. e.ptr = b /\ e.size = n
    OBVIOUS
  <2>2. live' = Update(live, id, e)
    OBVIOUS
  <2> HIDE DEF e
  <2>3. e.ptr \notin PtrsOf(live) /\ OneEach(live)
    BY <1>2, <1>6, <2>1
  <2>4. LiveOf(live') = Update(LiveOf(live), e.ptr, e.size)
    BY <2>2, <2>3, LiveAdd
  <2>5. /\ DOMAIN live' = DOMAIN live \cup {id}
        /\ live'[id] = e
        /\ \A i \in DOMAIN live : live'[i] = live[i]
    BY <2>2 DEF Update
  <2>6. QED
    BY <2>1, <2>4, <2>5
<1>10. DOMAIN live' \subseteq Ids /\ live' \in [DOMAIN live' -> Entries]
  <2>1. DOMAIN live \subseteq Ids /\ live \in [DOMAIN live -> Entries]
    BY DEF IInv
  <2>2. live'[id] \in Entries
    <3>1. live'[id] = [ptr |-> b, size |-> n]
      BY DEF Update
    <3>2. QED
      BY <3>1, <1>6 DEF Entries
  <2>3. live' = [i \in DOMAIN live' |-> live'[i]]
    BY DEF Update
  <2>4. QED
    BY <1>9, <2>1, <2>2, <2>3
<1>11. Kept(heap, heap', H, H.alloc)
  <2>1. Kept(k, heap', H, H.alloc)
    BY <1>4, <1>6, <1>7 DEF Kept, Own
  <2>2. QED
    BY <1>5, <2>1, KeptTwice
<1>12. ASSUME NEW i \in DOMAIN live'
       PROVE  Intact(heap', live'[i].ptr, live'[i].size, i)
  <2>1. CASE i = id
    BY <1>7, <1>9, <2>1 DEF Intact
  <2>2. CASE i # id
    <3>1. i \in DOMAIN live /\ live'[i] = live[i]
      BY <1>9, <1>12, <2>2
    <3> DEFINE p == live[i].ptr
               m == live[i].size
    <3>2. /\ p \in H.alloc /\ m \in Nat /\ m + 8 <= H.size[p]
          /\ Intact(heap, p, m, i)
      BY <1>2, <3>1
    <3>3. MemOK(heap')
      BY <1>7 DEF Rep, Holds
    <3> HIDE DEF p, m
    <3>4. Kept(heap, heap', H, {p}) /\ p \in BH!Blocks(H)
      BY <1>6, <1>11, <3>2 DEF Kept
    <3>5. Intact(heap', p, m, i)
      BY <1>6, <3>2, <3>3, <3>4, IntactKept
    <3>6. QED
      BY <3>1, <3>5 DEF p, m
  <2>3. QED
    BY <2>1, <2>2
<1>13. PayloadsUntouched'
  BY <1>12 DEF PayloadsUntouched, Intact
<1>14. QED
  BY <1>7, <1>8, <1>9, <1>10, <1>13 DEF P, A

(* The count of calls stays below its bound.                               *)
LEMMA CallFacts ==
  ASSUME calls \in 0..MaxCalls, Call
  PROVE  calls' \in 0..MaxCalls
<1>1. MaxCalls \in Nat
  BY FreeListMallocAssumption
<1>2. calls \in Nat /\ calls < MaxCalls /\ calls' = calls + 1
  BY DEF Call
<1>3. QED
  BY <1>1, <1>2

(* mm_malloc: from the list, after growing the heap, or refused.           *)
LEMMA MallocStep ==
  ASSUME IInv, NEW id \in Ids, NEW n \in Requests, MmMalloc(id, n)
  PROVE  IInv' /\ [BH!Next]_(BH!vars)
<1> DEFINE H == BlockHeapOf(heap)
           A == BH!BlockSize(n)
           E == BH!ExtendSize(A)
           g == BH!ExtendHeap(H, E)
           r == Malloc(heap, n)
<1>1. /\ BH!Good(H) /\ Rep(heap, H) /\ BH!IInv
      /\ status \in Statuses /\ calls \in 0..MaxCalls
      /\ DOMAIN live \subseteq Ids /\ live \in [DOMAIN live -> Entries]
      /\ PayloadsUntouched
  BY LiveFacts DEF IInv
<1>2. /\ calls' \in 0..MaxCalls /\ status' \in Statuses
  <2>1. Request /\ status' \in {status, "out of memory"}
    BY DEF MmMalloc
  <2>2. calls' \in 0..MaxCalls
    BY <1>1, <2>1, CallFacts DEF Request
  <2>3. QED
    BY <1>1, <2>1, <2>2 DEF Statuses
<1>3. \/ r.ptr = NULL /\ r.heap = heap
      \/ /\ n > 0 /\ r.ptr # NULL
         /\ \E i \in DOMAIN H.list :
              BH!FirstFit(H, A, i) /\ r.ptr = H.list[i]
         /\ r.ptr \in BH!FreeBlocks(H) /\ H.size[r.ptr] >= A
         /\ Rep(r.heap, BH!Place(H, r.ptr, A))
         /\ Kept(heap, r.heap, H, H.alloc)
      \/ /\ n > 0 /\ r.ptr # NULL
         /\ BH!NoFit(H, A) /\ BH!CanExtend(H, E)
         /\ r.ptr = g.list[1] /\ BH!Good(g) /\ r.ptr \in BH!FreeBlocks(g)
         /\ g.size[r.ptr] >= A /\ g.alloc = H.alloc
         /\ \A p \in H.alloc : g.size[p] = H.size[p]
         /\ Rep(r.heap, BH!Place(g, r.ptr, A))
         /\ Kept(heap, r.heap, H, H.alloc)
  BY <1>1, MallocRep
<1>4. /\ id \notin DOMAIN live
      /\ r.ptr = NULL => heap' = r.heap /\ live' = live
      /\ r.ptr # NULL => /\ heap' = ClientFill(r.heap, r.ptr, n, id)
                         /\ live' = Update(live, id, [ptr |-> r.ptr, size |-> n])
  BY DEF MmMalloc
<1> HIDE DEF r
<1>5. CASE r.ptr = NULL
  <2>1. heap' = heap /\ live' = live
    BY <1>3, <1>4, <1>5
  <2>2. [BH!Next]_(BH!vars)
    BY <2>1 DEF BH!vars
  <2>3. BH!IInv'
    BY <1>1, <2>2, LiftedStep
  <2>4. QED
    BY <1>1, <1>2, <2>1, <2>2, <2>3 DEF IInv, PayloadsUntouched
<1>6. ASSUME NEW G, BH!Good(G), r.ptr \in BH!FreeBlocks(G), G.size[r.ptr] >= A,
             G.alloc = H.alloc, \A p \in H.alloc : G.size[p] = H.size[p],
             Rep(r.heap, BH!Place(G, r.ptr, A)),
             Kept(heap, r.heap, H, H.alloc), n > 0, r.ptr # NULL
      PROVE  /\ Rep(heap', BlockHeapOf(heap'))
             /\ BlockHeapOf(heap') = BH!Place(G, r.ptr, A)
             /\ LiveOf(live') = Update(LiveOf(live), r.ptr, n)
             /\ DOMAIN live' \subseteq Ids /\ live' \in [DOMAIN live' -> Entries]
             /\ PayloadsUntouched'
  <2> DEFINE b == r.ptr
             k == r.heap
  <2>1. heap' = ClientFill(k, b, n, id)
        /\ live' = Update(live, id, [ptr |-> b, size |-> n])
    BY <1>4, <1>6
  <2>2. /\ b \in BH!FreeBlocks(G) /\ Rep(k, BH!Place(G, b, A))
        /\ Kept(heap, k, H, H.alloc)
        /\ G.size[b] >= A /\ \A p \in G.alloc : G.size[p] = H.size[p]
    BY <1>6
  <2> HIDE DEF b, k
  <2>3. /\ Rep(heap', BlockHeapOf(heap'))
        /\ BlockHeapOf(heap') = BH!Place(G, b, A)
        /\ LiveOf(live') = Update(LiveOf(live), b, n)
        /\ DOMAIN live' \subseteq Ids /\ live' \in [DOMAIN live' -> Entries]
        /\ PayloadsUntouched'
    BY <1>4, <1>6, <2>1, <2>2, Handed
  <2>4. QED
    BY <2>3 DEF b
<1>7. CASE /\ n > 0 /\ r.ptr # NULL
           /\ \E i \in DOMAIN H.list :
                BH!FirstFit(H, A, i) /\ r.ptr = H.list[i]
           /\ r.ptr \in BH!FreeBlocks(H) /\ H.size[r.ptr] >= A
           /\ Rep(r.heap, BH!Place(H, r.ptr, A))
           /\ Kept(heap, r.heap, H, H.alloc)
  <2>1. /\ Rep(heap', BlockHeapOf(heap'))
        /\ BlockHeapOf(heap') = BH!Place(H, r.ptr, A)
        /\ LiveOf(live') = Update(LiveOf(live), r.ptr, n)
        /\ DOMAIN live' \subseteq Ids /\ live' \in [DOMAIN live' -> Entries]
        /\ PayloadsUntouched'
    BY <1>1, <1>6, <1>7
  <2>2. PICK i \in DOMAIN H.list : BH!FirstFit(H, A, i) /\ r.ptr = H.list[i]
    BY <1>7
  <2>3. BH!MallocFromList(n)
    BY <1>7, <2>1, <2>2 DEF BH!MallocFromList, BH!Handout, Update
  <2>4. [BH!Next]_(BH!vars)
    BY <2>3 DEF BH!Next
  <2>5. BH!IInv'
    BY <1>1, <2>4, LiftedStep
  <2>6. QED
    BY <1>2, <2>1, <2>4, <2>5 DEF IInv
<1>8. CASE /\ n > 0 /\ r.ptr # NULL
           /\ BH!NoFit(H, A) /\ BH!CanExtend(H, E)
           /\ r.ptr = g.list[1] /\ BH!Good(g) /\ r.ptr \in BH!FreeBlocks(g)
           /\ g.size[r.ptr] >= A /\ g.alloc = H.alloc
           /\ \A p \in H.alloc : g.size[p] = H.size[p]
           /\ Rep(r.heap, BH!Place(g, r.ptr, A))
           /\ Kept(heap, r.heap, H, H.alloc)
  <2>1. /\ Rep(heap', BlockHeapOf(heap'))
        /\ BlockHeapOf(heap') = BH!Place(g, r.ptr, A)
        /\ LiveOf(live') = Update(LiveOf(live), r.ptr, n)
        /\ DOMAIN live' \subseteq Ids /\ live' \in [DOMAIN live' -> Entries]
        /\ PayloadsUntouched'
    BY <1>6, <1>8
  <2>2. BH!MallocByExtending(n)
    BY <1>8, <2>1 DEF BH!MallocByExtending, BH!Handout, Update
  <2>3. [BH!Next]_(BH!vars)
    BY <2>2 DEF BH!Next
  <2>4. BH!IInv'
    BY <1>1, <2>3, LiftedStep
  <2>5. QED
    BY <1>2, <2>1, <2>3, <2>4 DEF IInv
<1>9. QED
  BY <1>3, <1>5, <1>7, <1>8

(* A payload is given back: mm_free, or mm_realloc that wants more room.   *)
LEMMA GivenBack ==
  ASSUME IInv, NEW id \in DOMAIN live,
         heap' = Free(heap, live[id].ptr),
         live' = Restrict(live, DOMAIN live \ {id}),
         status' \in Statuses, calls' \in 0..MaxCalls
  PROVE  IInv' /\ [BH!Next]_(BH!vars)
<1> DEFINE H == BlockHeapOf(heap)
           p == live[id].ptr
           P == BH!Coalesce(BH!Clear(H, p), p)
<1>1. /\ BH!Good(H) /\ Rep(heap, H) /\ OneEach(live) /\ BH!IInv
      /\ PtrsOf(live) = H.alloc /\ DOMAIN LiveOf(live) = H.alloc
      /\ \A i \in DOMAIN live :
           /\ live[i].ptr \in H.alloc
           /\ live[i].size \in Nat
           /\ live[i].size + 8 <= H.size[live[i].ptr]
           /\ Intact(heap, live[i].ptr, live[i].size, i)
      /\ DOMAIN live \subseteq Ids /\ live \in [DOMAIN live -> Entries]
  BY LiveFacts DEF IInv
<1> HIDE DEF H
<1>2. p \in H.alloc /\ heap' = Free(heap, p)
  BY <1>1
<1>3. /\ DOMAIN live' = DOMAIN live \ {id}
      /\ live' = [i \in DOMAIN live' |-> live'[i]]
      /\ \A i \in DOMAIN live' : live'[i] = live[i] /\ live'[i].ptr # p
  BY <1>1 DEF Restrict, OneEach
<1>4. LiveOf(live') = BH!Restrict(LiveOf(live), DOMAIN LiveOf(live) \ {p})
  BY <1>1, LiveDrop
<1> HIDE DEF p
<1>5. Rep(heap', P) /\ Kept(heap, heap', H, H.alloc \ {p})
  <2> DEFINE f == Free(heap, p)
  <2>1. Rep(f, P) /\ Kept(heap, f, H, H.alloc \ {p})
    BY <1>1, <1>2, FreeRep
  <2> HIDE DEF f, P
  <2>2. heap' = f
    BY <1>2 DEF f
  <2>3. QED
    BY <2>1, <2>2
<1>6. BH!Good(P) /\ Record(P)
  <2>1. BH!Loose(BH!Clear(H, p), p)
    BY <1>1, <1>2, BlockHeapOK, BH!ClearFacts
  <2>2. BH!Good(P)
    BY <2>1, BlockHeapOK, BH!CoalesceFacts
  <2>3. QED
    BY <2>2, Records
<1>7. BlockHeapOf(heap') = P
  <2> HIDE DEF P
  <2>1. QED
    BY <1>5, <1>6, ReadBack
<1>8. BH!MmFree(p)
  BY <1>1, <1>2, <1>4, <1>7 DEF BH!MmFree, H
<1>9. [BH!Next]_(BH!vars)
  BY <1>1, <1>2, <1>8 DEF BH!Next
<1>10. BH!IInv'
  BY <1>1, <1>9, LiftedStep
<1>11. DOMAIN live' \subseteq Ids /\ live' \in [DOMAIN live' -> Entries]
  BY <1>1, <1>3
<1>12. ASSUME NEW i \in DOMAIN live'
       PROVE  Intact(heap', live'[i].ptr, live'[i].size, i)
  <2> DEFINE q == live[i].ptr
             m == live[i].size
  <2>1. /\ q \in H.alloc /\ q # p /\ m \in Nat /\ m + 8 <= H.size[q]
        /\ Intact(heap, q, m, i) /\ live'[i] = live[i]
    BY <1>1, <1>3, <1>12
  <2>2. MemOK(heap')
    BY <1>5 DEF Rep, Holds
  <2> HIDE DEF q, m
  <2>3. Kept(heap, heap', H, {q})
    BY <1>5, <2>1 DEF Kept
  <2>4. Shape(H) /\ q \in BH!Blocks(H)
    BY <1>1, <2>1 DEF BH!Good, Shape, BH!HeapType
  <2>5. Intact(heap', q, m, i)
    BY <2>1, <2>2, <2>3, <2>4, IntactKept
  <2>6. QED
    BY <2>1, <2>5 DEF q, m
<1>13. PayloadsUntouched'
  BY <1>12 DEF PayloadsUntouched, Intact
<1>14. Rep(heap', BlockHeapOf(heap'))
  BY <1>5, <1>7
<1>15. QED
  BY <1>9, <1>10, <1>11, <1>13, <1>14 DEF IInv

(* mm_realloc that keeps the block, and the driver's fill after it.        *)
LEMMA KeepStep ==
  ASSUME IInv, NEW id \in Ids, NEW n \in Requests, ReallocKeep(id, n)
  PROVE  IInv' /\ [BH!Next]_(BH!vars)
<1> DEFINE H == BlockHeapOf(heap)
           p == live[id].ptr
<1>1. /\ BH!Good(H) /\ Rep(heap, H) /\ OneEach(live) /\ BH!IInv /\ Record(H)
      /\ PtrsOf(live) = H.alloc /\ DOMAIN LiveOf(live) = H.alloc
      /\ \A i \in DOMAIN live :
           /\ live[i].ptr \in H.alloc
           /\ live[i].size \in Nat
           /\ live[i].size + 8 <= H.size[live[i].ptr]
           /\ Intact(heap, live[i].ptr, live[i].size, i)
           /\ live[i] = [ptr |-> live[i].ptr, size |-> live[i].size]
      /\ DOMAIN live \subseteq Ids /\ live \in [DOMAIN live -> Entries]
      /\ calls \in 0..MaxCalls /\ status \in Statuses /\ PayloadsUntouched
  BY LiveFacts DEF IInv
<1>2. /\ id \in DOMAIN live /\ calls' \in 0..MaxCalls
      /\ status' \in Statuses
  <2>1. Call /\ id \in DOMAIN live /\ status' \in {status, "aborted"}
    BY DEF ReallocKeep, Request
  <2>2. calls' \in 0..MaxCalls
    BY <1>1, <2>1, CallFacts
  <2>3. QED
    BY <1>1, <2>1, <2>2 DEF Statuses
<1>3. CASE n = 0
  <2>1. heap' = heap /\ live' = live
    BY <1>3 DEF ReallocKeep
  <2>2. [BH!Next]_(BH!vars)
    BY <2>1 DEF BH!vars
  <2>3. BH!IInv'
    BY <1>1, <2>2, LiftedStep
  <2>4. QED
    BY <1>1, <1>2, <2>1, <2>2, <2>3 DEF IInv, PayloadsUntouched
<1>4. CASE n # 0
  <2>1. /\ heap' = ClientFill(heap, p, n, id)
        /\ live' = [live EXCEPT ![id].size = n]
        /\ PtrSize(id) - BlockSize(n) \in 0..MIN_BLOCKSIZE
    BY <1>4 DEF ReallocKeep
  <2> HIDE DEF H
  <2>2. /\ p \in H.alloc /\ p \in BH!Blocks(H) /\ Shape(H) /\ H.size[p] \in Nat
        /\ H.alloc \subseteq BH!Blocks(H)
    <3>1. p \in H.alloc /\ Shape(H)
      BY <1>1, <1>2 DEF BH!Good, Shape
    <3>2. H.alloc \subseteq BH!Blocks(H)
      BY <3>1 DEF Shape, BH!HeapType
    <3>3. H.size[p] \in Nat
      BY <3>1, <3>2, BlockNumbers
    <3>4. QED
      BY <3>1, <3>2, <3>3
  <2>3. GetSize(heap, HDRP(p)) = H.size[p]
    <3>1. TagAt(heap, H, p)
      BY <1>1, <2>2 DEF Rep, Holds
    <3>2. QED
      BY <2>2, <3>1, ReadTag
  <2>4. /\ H.size[p] - BH!BlockSize(n) \in 0..MIN_BLOCKSIZE
        /\ n + 8 <= H.size[p] /\ n \in Nat /\ n > 0
    <3>1. /\ BlockSize(n) = BH!BlockSize(n) /\ BlockSize(n) \in Nat
          /\ BlockSize(n) >= n + 8 /\ n \in Nat
      BY SameBlockSize
    <3>2. PtrSize(id) = H.size[p]
      BY <2>3 DEF PtrSize
    <3> HIDE DEF p
    <3>3. QED
      BY <1>4, <2>1, <2>2, <3>1, <3>2 DEF MIN_BLOCKSIZE
  <2>5. /\ DOMAIN live' = DOMAIN live
        /\ live'[id].ptr = p /\ live'[id].size = n
        /\ live'[id] = [ptr |-> p, size |-> n]
        /\ \A i \in DOMAIN live \ {id} : live'[i] = live[i]
        /\ live' = [i \in DOMAIN live' |-> live'[i]]
    <3>1. live[id] = [ptr |-> p, size |-> live[id].size]
      BY <1>1, <1>2
    <3>2. live'[id] = [live[id] EXCEPT !.size = n]
      BY <1>2, <2>1
    <3>3. live'[id] = [ptr |-> p, size |-> n]
      BY <3>1, <3>2
    <3>4. QED
      BY <1>1, <1>2, <2>1, <3>3
  <2>6. LiveOf(live') = [LiveOf(live) EXCEPT ![p] = n]
    <3>1. live[id] = [ptr |-> live[id].ptr, size |-> live[id].size]
      BY <1>1, <1>2
    <3>2. QED
      BY <1>1, <1>2, <2>1, <3>1, LiveResize
  <2>7. \A i \in DOMAIN live : i # id => live[i].ptr # p
    BY <1>1, <1>2 DEF OneEach
  <2> HIDE DEF p
  <2>8. /\ Rep(heap', H) /\ Kept(heap, heap', H, BH!Blocks(H) \ {p})
        /\ Get(heap', p) = Fill(id)
        /\ \A a \in DOMAIN heap'.mem : InPayload(a, p, n) => a = p
    <3> DEFINE f == ClientFill(heap, p, n, id)
    <3>1. /\ BH!Good(H) /\ Rep(heap, H) /\ p \in H.alloc
          /\ n \in Nat /\ n > 0 /\ n + 8 <= H.size[p]
      BY <1>1, <2>2, <2>4
    <3>2. /\ Rep(f, H) /\ Kept(heap, f, H, BH!Blocks(H) \ {p})
          /\ Get(f, p) = Fill(id)
          /\ \A a \in DOMAIN f.mem : InPayload(a, p, n) => a = p
      BY <3>1, FillRep
    <3>3. heap' = f
      BY <2>1
    <3> HIDE DEF f
    <3>4. QED
      BY <3>2, <3>3
  <2>9. BlockHeapOf(heap') = H
    BY <1>1, <2>8, ReadBack
  <2>10. BH!ReallocInPlace(p, n)
    BY <1>1, <2>2, <2>4, <2>6, <2>9 DEF BH!ReallocInPlace, H
  <2>11. [BH!Next]_(BH!vars)
    BY <1>1, <2>2, <2>10 DEF BH!Next
  <2>12. BH!IInv'
    BY <1>1, <2>11, LiftedStep
  <2>13. DOMAIN live' \subseteq Ids /\ live' \in [DOMAIN live' -> Entries]
    <3>1. p \in Nat
      BY <2>2, BlockNumbers
    <3>2. live'[id] \in Entries
      BY <2>5, <3>1 DEF Entries
    <3>3. QED
      BY <1>1, <2>5, <3>2
  <2>14. ASSUME NEW i \in DOMAIN live'
         PROVE  Intact(heap', live'[i].ptr, live'[i].size, i)
    <3>1. CASE i = id
      BY <2>5, <2>8, <3>1 DEF Intact
    <3>2. CASE i # id
      <4> DEFINE q == live[i].ptr
                 m == live[i].size
      <4>1. /\ q \in H.alloc /\ q # p /\ m \in Nat /\ m + 8 <= H.size[q]
            /\ Intact(heap, q, m, i) /\ live'[i] = live[i]
        BY <1>1, <2>5, <2>7, <2>14, <3>2
      <4>2. MemOK(heap')
        BY <2>8 DEF Rep, Holds
      <4> HIDE DEF q, m
      <4>3. Kept(heap, heap', H, {q}) /\ q \in BH!Blocks(H)
        BY <2>2, <2>8, <4>1 DEF Kept
      <4>4. Intact(heap', q, m, i)
        BY <2>2, <4>1, <4>2, <4>3, IntactKept
      <4>5. QED
        BY <4>1, <4>4 DEF q, m
    <3>3. QED
      BY <3>1, <3>2
  <2>15. PayloadsUntouched'
    BY <2>14 DEF PayloadsUntouched, Intact
  <2>16. Rep(heap', BlockHeapOf(heap'))
    BY <2>8, <2>9
  <2>17. QED
    BY <1>2, <2>11, <2>12, <2>13, <2>15, <2>16 DEF IInv
<1>5. QED
  BY <1>3, <1>4

(* mem_reset_brk and mm_init on the leftovers of a trace.                  *)
LEMMA NewTraceStep ==
  ASSUME IInv, NewTrace
  PROVE  IInv' /\ [BH!Next]_(BH!vars)
<1> DEFINE g == MemResetBrk(heap)
<1>1. /\ MemOK(heap) /\ Get(heap, FirstBp - DSIZE) = 0 /\ BH!IInv
      /\ calls \in 0..MaxCalls
  BY DEF IInv, Rep, Holds
<1>2. MemOK(g) /\ g.brk = MemStart /\ Get(g, FirstBp - DSIZE) = 0
  <2>1. g = [heap EXCEPT !.brk = MemStart]
    BY DEF MemResetBrk
  <2> HIDE DEF g
  <2>2. QED
    BY <1>1, <2>1, BrkIs DEF Same
<1>3. heap' = MmInit(g) /\ live' = << >> /\ status' = "running" /\ Call
  BY DEF NewTrace
<1> HIDE DEF g
<1>4. Rep(heap', BlockHeapOf(heap')) /\ BlockHeapOf(heap') = BH!FreshHeap
  BY <1>2, <1>3, FreshStart
<1>5. LiveOf(live') = << >>
  BY <1>3, NoneLive
<1>6. [BH!Next]_(BH!vars)
  BY <1>4, <1>5 DEF BH!Next, BH!NewTrace
<1>7. BH!IInv'
  BY <1>1, <1>6, LiftedStep
<1>8. /\ DOMAIN live' = {} /\ live' \in [DOMAIN live' -> Entries]
      /\ PayloadsUntouched'
  BY <1>3 DEF PayloadsUntouched
<1>9. calls' \in 0..MaxCalls
  BY <1>1, <1>3, CallFacts
<1>10. QED
  BY <1>3, <1>4, <1>6, <1>7, <1>8, <1>9 DEF IInv, Statuses

(* Every step keeps the invariant and is a step of BlockHeap.              *)
LEMMA StepInv ==
  ASSUME IInv, [Next]_vars
  PROVE  IInv' /\ [BH!Next]_(BH!vars)
<1>1. calls \in 0..MaxCalls /\ BH!IInv
  BY DEF IInv
<1>2. ASSUME heap' = heap, live' = live, status' \in Statuses,
             calls' \in 0..MaxCalls
      PROVE  IInv' /\ [BH!Next]_(BH!vars)
  <2>1. [BH!Next]_(BH!vars)
    BY <1>2 DEF BH!vars
  <2>2. BH!IInv'
    BY <1>1, <2>1, LiftedStep
  <2>3. QED
    BY <1>2, <2>1, <2>2 DEF IInv, PayloadsUntouched
<1>3. ASSUME NEW id \in Ids, MmFree(id)
      PROVE  IInv' /\ [BH!Next]_(BH!vars)
  <2>1. /\ id \in DOMAIN live /\ heap' = Free(heap, live[id].ptr)
        /\ live' = Restrict(live, DOMAIN live \ {id})
        /\ status' \in Statuses /\ Call
    BY <1>3 DEF MmFree, Request, Statuses
  <2>2. QED
    BY <1>1, <2>1, CallFacts, GivenBack
<1>4. ASSUME NEW id \in Ids, NEW n \in Requests, ReallocGrow(id, n)
      PROVE  IInv' /\ [BH!Next]_(BH!vars)
  <2>1. /\ id \in DOMAIN live /\ heap' = Free(heap, live[id].ptr)
        /\ live' = Restrict(live, DOMAIN live \ {id})
        /\ status' \in Statuses /\ Call
    BY <1>4 DEF ReallocGrow, Request, Statuses
  <2>2. QED
    BY <1>1, <2>1, CallFacts, GivenBack
<1>5. ASSUME NEW id \in Ids, NEW n \in Requests, ReallocShrink(id, n)
      PROVE  IInv' /\ [BH!Next]_(BH!vars)
  <2>1. heap' = heap /\ live' = live /\ status' \in Statuses /\ Call
    BY <1>5 DEF ReallocShrink, Request, Statuses
  <2>2. QED
    BY <1>1, <1>2, <2>1, CallFacts
<1>6. CASE UNCHANGED vars
  BY <1>2, <1>6 DEF vars, IInv
<1>7. QED
  BY <1>3, <1>4, <1>5, <1>6, MallocStep, KeepStep, NewTraceStep DEF Next

-----------------------------------------------------------------------------
(* What the invariant says of the words, in the terms of the model.        *)
LEMMA WordsFacts ==
  ASSUME IInv
  PROVE  TypeOK /\ TagsAgree /\ GapStaysZero
<1> DEFINE H == BlockHeapOf(heap)
<1>1. /\ BH!Good(H) /\ Rep(heap, H) /\ PtrsOf(live) = H.alloc
      /\ \A i \in DOMAIN live : /\ live[i].ptr \in H.alloc
                                /\ live[i].size \in Requests
      /\ DOMAIN live \subseteq Ids
      /\ status \in Statuses /\ calls \in 0..MaxCalls
  BY LiveFacts DEF IInv
<1>2. H.size = [b \in Blocks(heap) |-> GetSize(heap, HDRP(b))]
  BY DEF BlockHeapOf
<1>3. Blocks(heap) = BH!Blocks(H)
  BY <1>2 DEF BH!Blocks
<1> HIDE DEF H
<1>4. Shape(H) /\ Holds(heap, H, BH!Blocks(H), H.list) /\ Get(heap, HDRP(H.brk)) = 1
  BY <1>1 DEF BH!Good, Shape, Rep
<1>5. /\ MemOK(heap) /\ heap.brk = H.brk /\ Get(heap, FirstBp - DSIZE) = 0
      /\ H.list \in Seq(BH!Blocks(H)) /\ heap.start = At(H.list, 1)
      /\ \A b \in BH!Blocks(H) : TagAt(heap, H, b)
  BY <1>4 DEF Holds, Chain
<1>6. FirstBp \in BH!Blocks(H) /\ H.alloc \subseteq BH!Blocks(H)
  BY <1>4 DEF Shape, BH!Tiled, BH!HeapType
<1>7. /\ heap.brk \in MemStart..MaxAddr
      /\ \A b \in BH!Blocks(H) : b \in Nat \ {NULL}
  <2>1. \A b \in BH!Blocks(H) :
          /\ b \in Nat /\ FirstBp <= b /\ H.size[b] \in Nat /\ b + H.size[b] <= H.brk
          /\ H.brk \in Nat /\ H.brk <= MaxAddr
    BY <1>4, BlockNumbers
  <2>2. H.brk \in Nat /\ FirstBp <= H.brk /\ H.brk <= MaxAddr
    BY <1>6, <2>1, Numbers
  <2>3. QED
    BY <1>5, <2>1, <2>2, Numbers
<1>8. heap.start \in MemStart..MaxAddr
  <2>1. Prologue \in MemStart..MaxAddr
    BY Numbers
  <2>2. CASE 1 <= Len(H.list)
    <3>1. H.list[1] \in BH!Blocks(H)
      BY <1>5, <2>2
    <3>2. /\ H.list[1] \in Nat /\ FirstBp <= H.list[1]
          /\ H.list[1] + H.size[H.list[1]] <= H.brk
          /\ H.size[H.list[1]] \in Nat /\ H.brk \in Nat /\ H.brk <= MaxAddr
      BY <1>4, <3>1, BlockNumbers
    <3>3. H.list[1] \in MemStart..MaxAddr
      BY <3>2, Numbers
    <3>4. QED
      BY <1>5, <2>2, <3>3 DEF At
  <2>3. CASE ~(1 <= Len(H.list))
    BY <1>5, <2>1, <2>3 DEF At
  <2>4. QED
    BY <2>2, <2>3
<1>9. \A a \in DOMAIN heap.mem :
        /\ a \in MemStart..MaxAddr - WSIZE /\ a % WSIZE = 0
        /\ heap.mem[a] \in Nat
  <2>1. heap.mem \in [DOMAIN heap.mem -> Nat] /\ DOMAIN heap.mem \subseteq Words
    BY <1>5 DEF MemOK
  <2>2. QED
    BY <2>1 DEF Words
<1>10. \A i \in DOMAIN live : live[i].ptr \in Nat \ {NULL}
  <2>1. ASSUME NEW i \in DOMAIN live PROVE live[i].ptr \in Nat \ {NULL}
    <3>1. live[i].ptr \in BH!Blocks(H)
      BY <1>1, <1>6
    <3>2. QED
      BY <1>7, <3>1
  <2>2. QED
    BY <2>1
<1>11. TypeOK
  BY <1>1, <1>7, <1>8, <1>9, <1>10 DEF TypeOK, Statuses
<1>12. ASSUME NEW b \in Blocks(heap)
       PROVE  Get(heap, HDRP(b)) = Get(heap, FTRP(heap, b))
  <2>1. TagAt(heap, H, b) /\ b \in BH!Blocks(H)
    BY <1>3, <1>5, <1>12
  <2>2. FTRP(heap, b) = b + H.size[b] - 8
    BY <1>4, <2>1, ReadTag
  <2>3. QED
    BY <2>1, <2>2, Numbers DEF TagAt
<1>13. TagsAgree
  BY <1>4, <1>5, <1>12 DEF TagsAgree
<1>14. GapStaysZero
  <2>1. HDRP(FirstBp) - WSIZE = FirstBp - DSIZE
    BY Numbers DEF HDRP
  <2>2. QED
    BY <1>5, <2>1 DEF GapStaysZero
<1>15. QED
  BY <1>11, <1>13, <1>14

(* The links of the list, from what the invariant says of its words.       *)
LEMMA LinksFacts ==
  ASSUME IInv
  PROVE  LinksAgree
<1> DEFINE H == BlockHeapOf(heap)
           l == FreeList(heap)
<1>1. BH!Good(H) /\ Rep(heap, H)
  BY DEF IInv, BH!IInv
<1>2. H.list = l
  BY DEF BlockHeapOf
<1> HIDE DEF H
<1>3. l \in Seq(BH!Blocks(H)) /\ Chain(heap, l)
  BY <1>1, <1>2 DEF Rep, Holds
<1> HIDE DEF l
<1>4. NextBlkp(heap, heap.start) = NULL
  BY <1>3 DEF Chain, NextBlkp
<1>5. ASSUME NEW i \in DOMAIN l
      PROVE  /\ PrevBlkp(heap, l[i]) = At(l, i + 1)
             /\ NextBlkp(heap, At(l, i + 1)) = l[i]
  <2>1. i \in 1..Len(l) /\ At(l, i) = l[i]
    BY <1>3, <1>5 DEF At
  <2>2. QED
    BY <1>3, <2>1 DEF Chain, PrevBlkp, NextBlkp
<1>6. l # << >> => PrevBlkp(heap, Last(l)) = Prologue
  <2>1. SUFFICES ASSUME l # << >> PROVE PrevBlkp(heap, Last(l)) = Prologue
    OBVIOUS
  <2>2. Len(l) \in DOMAIN l /\ Last(l) = l[Len(l)] /\ Len(l) \in Nat
    BY <1>3, <2>1 DEF Last
  <2>3. At(l, Len(l) + 1) = Prologue
    BY <2>2 DEF At
  <2>4. QED
    BY <1>5, <2>2, <2>3
<1>7. QED
  BY <1>4, <1>5, <1>6 DEF LinksAgree, l
-----------------------------------------------------------------------------
(* AbstractHeap and BH are the same module under two names.                *)
LEMMA SameReading ==
  /\ \A s, a, l, k : AbstractHeap!Heap(s, a, l, k) = BH!Heap(s, a, l, k)
  /\ \A H : AbstractHeap!Blocks(H) = BH!Blocks(H)
  /\ \A H : AbstractHeap!FreeBlocks(H) = BH!FreeBlocks(H)
  /\ \A H, b : AbstractHeap!RightOf(H, b) = BH!RightOf(H, b)
  /\ \A H, b : AbstractHeap!LeftOf(H, b) = BH!LeftOf(H, b)
BY DEF AbstractHeap!Heap, BH!Heap, AbstractHeap!Blocks, BH!Blocks,
       AbstractHeap!FreeBlocks, BH!FreeBlocks, AbstractHeap!RightOf, BH!RightOf,
       AbstractHeap!LeftOf, BH!LeftOf

(* The neighbours.                                                         *)
LEMMA SameNeighbours ==
  /\ \A H, b : AbstractHeap!RightFree(H, b) = BH!RightFree(H, b)
  /\ \A H, b : AbstractHeap!LeftFree(H, b) = BH!LeftFree(H, b)
BY SameReading
   DEF AbstractHeap!RightFree, BH!RightFree, AbstractHeap!LeftFree, BH!LeftFree

(* The list.                                                               *)
LEMMA SameList ==
  /\ \A H, b : AbstractHeap!InsertBlock(H, b) = BH!InsertBlock(H, b)
  /\ \A H, b : AbstractHeap!RemoveBlock(H, b) = BH!RemoveBlock(H, b)
BY SameReading
   DEF AbstractHeap!InsertBlock, BH!InsertBlock,
       AbstractHeap!RemoveBlock, BH!RemoveBlock,
       AbstractHeap!RemoveAt, BH!RemoveAt

(* The changes to sizes and bits.                                          *)
LEMMA SameMerge ==
  /\ \A H, b, c : AbstractHeap!Merge(H, b, c) = BH!Merge(H, b, c)
  /\ \A H, b, n : AbstractHeap!Split(H, b, n) = BH!Split(H, b, n)
  /\ \A H, b : AbstractHeap!Mark(H, b) = BH!Mark(H, b)
  /\ \A H, b : AbstractHeap!Clear(H, b) = BH!Clear(H, b)
BY SameReading
   DEF AbstractHeap!Merge, BH!Merge, AbstractHeap!Split, BH!Split,
       AbstractHeap!Mark, BH!Mark, AbstractHeap!Clear, BH!Clear

(* The right merge.                                                        *)
LEMMA SameMergeRight ==
  \A H, b : AbstractHeap!MergeRight(H, b) = BH!MergeRight(H, b)
BY SameReading, SameNeighbours, SameList, SameMerge
   DEF AbstractHeap!MergeRight, BH!MergeRight

(* coalesce.                                                               *)
LEMMA SameCoalesce ==
  ASSUME NEW H, NEW b
  PROVE  AbstractHeap!Coalesce(H, b) = BH!Coalesce(H, b)
BY SameReading, SameNeighbours, SameList, SameMerge, SameMergeRight
   DEF AbstractHeap!Coalesce, BH!Coalesce

(* place.                                                                  *)
LEMMA SamePlace ==
  ASSUME NEW H, NEW b, NEW n
  PROVE  AbstractHeap!Place(H, b, n) = BH!Place(H, b, n)
BY SameList, SameMerge, SameCoalesce
   DEF AbstractHeap!Place, BH!Place

(* extend_heap.                                                            *)
LEMMA SameExtend ==
  ASSUME NEW H, NEW n
  PROVE  AbstractHeap!ExtendHeap(H, n) = BH!ExtendHeap(H, n)
BY SameReading, SameCoalesce
   DEF AbstractHeap!ExtendHeap, BH!ExtendHeap

(* mm_init.                                                                *)
LEMMA SameFresh == AbstractHeap!FreshHeap = BH!FreshHeap
<1>1. AbstractHeap!EmptyHeap = BH!EmptyHeap
  BY SameReading DEF AbstractHeap!EmptyHeap, BH!EmptyHeap
<1>2. QED
  BY <1>1, SameExtend DEF AbstractHeap!FreshHeap, BH!FreshHeap

(* The sizes asked for.                                                    *)
LEMMA SameSizes ==
  /\ \A n : AbstractHeap!BlockSize(n) = BH!BlockSize(n)
  /\ \A n : AbstractHeap!ExtendSize(n) = BH!ExtendSize(n)
  /\ \A H, n : AbstractHeap!CanExtend(H, n) = BH!CanExtend(H, n)
BY DEF AbstractHeap!BlockSize, BH!BlockSize, AbstractHeap!AlignUp, BH!AlignUp,
       AbstractHeap!DSIZE, BH!DSIZE, AbstractHeap!ExtendSize, BH!ExtendSize,
       AbstractHeap!CanExtend, BH!CanExtend

(* The search.                                                             *)
LEMMA SameSearch ==
  /\ \A H, n, i : AbstractHeap!FirstFit(H, n, i) = BH!FirstFit(H, n, i)
  /\ \A H, n : AbstractHeap!NoFit(H, n) = BH!NoFit(H, n)
BY DEF AbstractHeap!FirstFit, BH!FirstFit, AbstractHeap!NoFit, BH!NoFit,
       AbstractHeap!Fits, BH!Fits

(* The initial states.                                                     *)
LEMMA SameInit == BH!Init => AbstractHeap!Init
BY SameFresh DEF BH!Init, AbstractHeap!Init

(* The steps.                                                              *)
LEMMA SameNext == [BH!Next]_(BH!vars) => [AbstractHeap!Next]_(AbstractHeap!vars)
<1>1. ASSUME NEW n, BH!MallocFromList(n)
      PROVE  AbstractHeap!MallocFromList(n)
  BY <1>1, SameSizes, SameSearch, SamePlace
     DEF BH!MallocFromList, AbstractHeap!MallocFromList,
         BH!Handout, AbstractHeap!Handout
<1>2. ASSUME NEW n, BH!MallocByExtending(n)
      PROVE  AbstractHeap!MallocByExtending(n)
  BY <1>2, SameSizes, SameSearch, SamePlace, SameExtend
     DEF BH!MallocByExtending, AbstractHeap!MallocByExtending,
         BH!Handout, AbstractHeap!Handout
<1>3. ASSUME NEW p, BH!MmFree(p)
      PROVE  AbstractHeap!MmFree(p)
  BY <1>3, SameCoalesce, SameMerge
     DEF BH!MmFree, AbstractHeap!MmFree, BH!Restrict, AbstractHeap!Restrict
<1>4. ASSUME NEW p, NEW n, BH!ReallocInPlace(p, n)
      PROVE  AbstractHeap!ReallocInPlace(p, n)
  BY <1>4, SameSizes DEF BH!ReallocInPlace, AbstractHeap!ReallocInPlace
<1>5. ASSUME BH!NewTrace
      PROVE  AbstractHeap!NewTrace
  BY <1>5, SameFresh DEF BH!NewTrace, AbstractHeap!NewTrace
<1>6. BH!Next => AbstractHeap!Next
  BY <1>1, <1>2, <1>3, <1>4, <1>5 DEF BH!Next, AbstractHeap!Next
<1>7. QED
  BY <1>6 DEF BH!vars, AbstractHeap!vars
-----------------------------------------------------------------------------
(* The words stand for a heap of blocks at all times, and the client's     *)
(* bytes are in them: every call of mm_freeList.c, and mm_init on what a   *)
(* former trace left behind.                                               *)
THEOREM WordsInvariant == Spec => []IInv
<1>1. Init => IInv
  BY FirstState
<1>2. IInv /\ [Next]_vars => IInv'
  BY StepInv
<1>3. QED
  BY <1>1, <1>2, PTL DEF Spec

(* However mm_malloc, mm_free, mm_realloc and new traces follow one        *)
(* another, header and footer of every block agree, as mm_checkBlock       *)
(* demands, the word left of the first block stays zero, which is what     *)
(* coalesce takes for the end of the heap, and no access leaves the memory *)
(* that mem_init reserved.                                                 *)
THEOREM WordsCorrect == Spec => []WordsOK
<1>1. IInv => WordsOK
  BY WordsFacts DEF WordsOK
<1>2. QED
  BY <1>1, WordsInvariant, PTL

(* No operation of the package writes a tag or a link into a payload the   *)
(* client holds: what the driver put there is there when it looks          *)
(* (mdriver.c:652-661).                                                    *)
THEOREM PayloadsKept == Spec => []PayloadsUntouched
<1>1. IInv => PayloadsUntouched
  BY DEF IInv
<1>2. QED
  BY <1>1, WordsInvariant, PTL

(* Before every call the free list can be followed in both directions, so  *)
(* that removeBlock finds both neighbours of a block reached through its   *)
(* boundary tag.                                                           *)
THEOREM LinksCorrect == Spec => []LinksAgree
<1>1. IInv => LinksAgree
  BY LinksFacts
<1>2. QED
  BY <1>1, WordsInvariant, PTL

(* The package on words implements the allocator on blocks of BlockHeap:   *)
(* the walks over tags and links find the blocks and the list the abstract *)
(* operations are about, and the PUTs leave the words of their result.     *)
THEOREM WordsImplementBlocks == Spec => ImplementsBlockHeap
<1>1. Init => AbstractHeap!Init
  BY FirstState, SameInit
<1>2. IInv /\ [Next]_vars => [AbstractHeap!Next]_(AbstractHeap!vars)
  BY StepInv, SameNext
<1>3. QED
  BY <1>1, <1>2, WordsInvariant, PTL DEF Spec, ImplementsBlockHeap, AbstractHeap!Spec
=============================================================================
