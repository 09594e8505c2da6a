---------------------------- MODULE MCBlockHeap ----------------------------
(***************************************************************************)
(* A small heap for TLC: a minimal block is 24 bytes as in the code, the   *)
(* first chunk 32 as mm_init really asks, a request of 48 bytes needs more *)
(* than one chunk, and mem_sbrk refuses after two moves of the break.      *)
(***************************************************************************)
EXTENDS BlockHeap

MCRequests == {0, 1, 24, 48}
=============================================================================
