------------------------------- MODULE UtHash ------------------------------
(***************************************************************************)
(* The hash table of "Simple XSSHell/uthash.h", as the shell's xssh.h uses *)
(* it.  A table is a record: the elements carry their own links, as the    *)
(* UT_hash_handle inside each struct does, so that an element entered      *)
(* twice spoils its links here as it does there.                           *)
(*                                                                         *)
(* A walk through links that form a circle never ends.  fate tells how the *)
(* macros came out: "ok", "hung" in such a walk, "crashed" on a pointer    *)
(* that points nowhere.                                                    *)
(***************************************************************************)
EXTENDS Integers, FiniteSets, FiniteSetsExt

CONSTANTS
  Structs,         \* the addresses malloc can return
  Keys,            \* names of variables
  Values,          \* their values
  HashOf,          \* hash value of a key (HASH_JEN)
  InitialBuckets,  \* HASH_INITIAL_NUM_BUCKETS
  Thresh,          \* HASH_BKT_CAPACITY_THRESH
  NULL, Junk,      \* no element; what is in memory nobody has written
  Endless          \* the result of a lookup that does not return

ASSUME UtHashAssumption ==
  /\ IsFiniteSet(Structs) /\ {NULL, Endless} \cap Structs = {}
  /\ HashOf \in [Keys -> Nat]
  /\ InitialBuckets \in Nat \ {0} /\ Thresh \in Nat \ {0}
  /\ Junk \notin Keys \cup Values

NStructs == Cardinality(Structs)

ElementOrNull == Structs \cup {NULL}

Bucket == [head : ElementOrNull, count : Nat, mult : Nat]

EmptyBuckets(n) == [b \in 0..n - 1 |-> [head |-> NULL, count |-> 0, mult |-> 0]]

(* head = NULL: there is no table, and tail to noexpand are as a new one has
   them.  used is the set of structs malloc has given out and not taken back. *)
NoTable ==
  [head |-> NULL, tail |-> NULL, bucket |-> EmptyBuckets(InitialBuckets),
   items |-> 0, ineff |-> 0, noexpand |-> FALSE,
   key |-> [e \in Structs |-> Junk], value |-> [e \in Structs |-> Junk],
   hashv |-> [e \in Structs |-> 0],
   next |-> [e \in Structs |-> NULL], prev |-> [e \in Structs |-> NULL],
   hhNext |-> [e \in Structs |-> NULL], hhPrev |-> [e \in Structs |-> NULL],
   used |-> {}, fate |-> "ok"]

NumBuckets(t) == Cardinality(DOMAIN t.bucket)

(***************************************************************************)
(* HASH_FIND: along the chain of the key's bucket.                         *)
(***************************************************************************)
(* the elements met from first on along a link; NULL follows NULL *)
Follow(first, link) ==
  LET onward == [e \in ElementOrNull |-> IF e = NULL THEN NULL ELSE link[e]]
      c[n \in 0..NStructs] == IF n = 0 THEN first ELSE onward[c[n - 1]]
  IN c

(* a chain that has not ended after all the elements there are is a circle *)
HashFind(t, k) ==
  LET c == Follow(t.bucket[HashOf[k] % NumBuckets(t)].head, t.hhNext)
      hits == {n \in 0..NStructs : c[n] # NULL /\ t.key[c[n]] = k}
  IN IF t.head = NULL THEN NULL
     ELSE IF hits # {} THEN c[Min(hits)]
     ELSE IF c[NStructs] = NULL THEN NULL ELSE Endless

(***************************************************************************)
(* HASH_EXPAND_BUCKETS: twice the buckets, and every element moved to the  *)
(* front of its new chain.  The links change under the walk.               *)
(***************************************************************************)
(* mutant: the new bucket is chosen with the old number of buckets *)
MoveOldMask(w, nb, ideal) ==
  LET e == w.thh
      b == w.t.hashv[e] % (nb \div 2)
      cell == w.t.bucket[b]
  IN [w EXCEPT !.thh = w.t.hhNext[e],
               !.t = [w.t EXCEPT !.bucket[b].count = @ + 1, !.hhPrev[e] = NULL,
                                 !.hhNext[e] = cell.head, !.bucket[b].head = e]]

Move(w, nb, ideal) ==
  LET e == w.thh
      b == w.t.hashv[e] % nb
      cell == w.t.bucket[b]
      n == cell.count + 1
      t1 == [w.t EXCEPT !.bucket[b].count = n,
                        !.bucket[b].mult = IF n > ideal THEN n \div ideal ELSE @,
                        !.hhPrev[e] = NULL,
                        !.hhNext[e] = cell.head]
      t2 == IF cell.head = NULL THEN t1 ELSE [t1 EXCEPT !.hhPrev[cell.head] = e]
  IN [w EXCEPT !.thh = w.t.hhNext[e],
               !.nonideal = @ + (IF n > ideal THEN 1 ELSE 0),
               !.t = [t2 EXCEPT !.bucket[b].head = e]]

(* mutant: the last bucket is left out *)
WalkShort(t, ideal) ==
  LET nb == 2 * NumBuckets(t)
      w[n \in 0..3 * (NStructs + 1) + nb] ==
        IF n = 0
        THEN [i |-> 0, thh |-> t.bucket[0].head, nonideal |-> 0,
              t |-> [t EXCEPT !.bucket = EmptyBuckets(nb)]]
        ELSE LET p == w[n - 1]
             IN IF p.thh # NULL THEN Move(p, nb, ideal)
                ELSE IF p.i + 2 < NumBuckets(t)
                THEN [p EXCEPT !.i = @ + 1, !.thh = t.bucket[p.i + 1].head]
                ELSE p
  IN w[3 * (NStructs + 1) + nb]

(* the walk after n steps; a step moves an element or goes to the next bucket *)
Walk(t, ideal) ==
  LET nb == 2 * NumBuckets(t)
      w[n \in 0..3 * (NStructs + 1) + nb] ==
        IF n = 0
        THEN [i |-> 0, thh |-> t.bucket[0].head, nonideal |-> 0,
              t |-> [t EXCEPT !.bucket = EmptyBuckets(nb)]]
        ELSE LET p == w[n - 1]
             IN IF p.thh # NULL THEN Move(p, nb, ideal)
                ELSE IF p.i + 1 < NumBuckets(t)
                THEN [p EXCEPT !.i = @ + 1, !.thh = t.bucket[p.i + 1].head]
                ELSE p
  IN w[3 * (NStructs + 1) + nb]

ExpandBuckets(t) ==
  LET nb == 2 * NumBuckets(t)
      ideal == (t.items \div nb) + (IF t.items % nb # 0 THEN 1 ELSE 0)
      w == Walk(t, ideal)
      ineff == IF w.nonideal > t.items \div 2 THEN t.ineff + 1 ELSE 0
  IN [w.t EXCEPT !.ineff = ineff,
                 !.noexpand = @ \/ ineff > 1,
                 !.fate = IF w.thh # NULL THEN "hung" ELSE @]

(***************************************************************************)
(* HASH_ADD: to the end of the list in order of entry and to the front of  *)
(* the chain.                                                              *)
(***************************************************************************)
AddToBkt(t, b, e) ==
  LET cell == t.bucket[b]
      t1 == [t EXCEPT !.bucket[b].count = @ + 1,
                      !.hhNext[e] = cell.head, !.hhPrev[e] = NULL]
      t2 == IF cell.head = NULL THEN t1 ELSE [t1 EXCEPT !.hhPrev[cell.head] = e]
      t3 == [t2 EXCEPT !.bucket[b].head = e]
  IN IF cell.count + 1 >= (cell.mult + 1) * Thresh /\ ~t.noexpand
     THEN ExpandBuckets(t3) ELSE t3

(* HASH_MAKE_TABLE, with the memory FreeTable has left *)
MakeTable(t, e) == [t EXCEPT !.head = e, !.prev[e] = NULL, !.tail = e]

FreeTable(t) ==
  [t EXCEPT !.head = NULL, !.tail = NULL, !.items = 0,
            !.bucket = EmptyBuckets(InitialBuckets),
            !.ineff = 0, !.noexpand = FALSE]

HashAdd(t, e) ==
  LET t1 == [t EXCEPT !.next[e] = NULL]
      t2 == IF t1.head = NULL THEN MakeTable(t1, e)
            ELSE [t1 EXCEPT !.next[t1.tail] = e, !.prev[e] = t1.tail, !.tail = e]
      t3 == [t2 EXCEPT !.items = @ + 1, !.hashv[e] = HashOf[t.key[e]]]
  IN IF t.head # NULL /\ t.tail = NULL THEN [t EXCEPT !.fate = "crashed"]
     ELSE AddToBkt(t3, t3.hashv[e] % NumBuckets(t3), e)

(***************************************************************************)
(* HASH_DELETE.  An element with no neighbour is taken to be the last one. *)
(***************************************************************************)
DelInBkt(t, b, e) ==
  LET t1 == [t EXCEPT !.bucket[b].count = @ - 1,
                      !.bucket[b].head = IF @ = e THEN t.hhNext[e] ELSE @]
      t2 == IF t1.hhPrev[e] = NULL THEN t1
            ELSE [t1 EXCEPT !.hhNext[t1.hhPrev[e]] = t1.hhNext[e]]
  IN IF t2.hhNext[e] = NULL THEN t2
     ELSE [t2 EXCEPT !.hhPrev[t2.hhNext[e]] = t2.hhPrev[e]]

HashDelete(t, e) ==
  LET t1 == IF t.tail = e THEN [t EXCEPT !.tail = t.prev[e]] ELSE t
      t2 == IF t.prev[e] # NULL THEN [t1 EXCEPT !.next[t.prev[e]] = t.next[e]]
            ELSE [t1 EXCEPT !.head = t.next[e]]
      t3 == IF t2.next[e] = NULL THEN t2
            ELSE [t2 EXCEPT !.prev[t2.next[e]] = t2.prev[e]]
      t4 == DelInBkt(t3, t3.hashv[e] % NumBuckets(t3), e)
  IN IF t.prev[e] = NULL /\ t.next[e] = NULL THEN FreeTable(t)
     ELSE [t4 EXCEPT !.items = @ - 1]

(***************************************************************************)
(* HASH_FSCK: what the table's own check demands after every add and       *)
(* delete, were it compiled with HASH_DEBUG.                               *)
(***************************************************************************)
Length(first, link) ==
  Cardinality({n \in 0..NStructs : Follow(first, link)[n] # NULL})

(* the list ends, and every link back is the reverse of a link forth *)
Sound(first, link, back) ==
  LET c == Follow(first, link)
  IN /\ c[NStructs] = NULL
     /\ \A n \in 0..NStructs :
          c[n] # NULL => back[c[n]] = IF n = 0 THEN NULL ELSE c[n - 1]

HashFsck(t) ==
  t.head # NULL =>
    /\ \A b \in DOMAIN t.bucket :
         /\ Sound(t.bucket[b].head, t.hhNext, t.hhPrev)
         /\ t.bucket[b].count = Length(t.bucket[b].head, t.hhNext)
    /\ Sound(t.head, t.next, t.prev)
    /\ t.items = Length(t.head, t.next)
    /\ t.items = MapThenSumSet(LAMBDA b : t.bucket[b].count, DOMAIN t.bucket)
=============================================================================
