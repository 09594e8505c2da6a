-------------------------- MODULE MCFreeListMalloc --------------------------
(***************************************************************************)
(* The real constants of the code on a heap with room for one chunk beyond *)
(* the 32 bytes mm_init adds, so that the heap is extended once and then   *)
(* mem_sbrk refuses.  13 bytes make a minimal block, 37 one twice as big,  *)
(* and 4077 take a whole chunk; 0 is refused by mm_malloc and accepted by  *)
(* mm_realloc.                                                             *)
(***************************************************************************)
EXTENDS FreeListMalloc

MCIds == 0..2
MCRequests == {0, 13, 37, 4077}
=============================================================================
