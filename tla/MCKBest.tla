------------------------------ MODULE MCKBest ------------------------------
(***************************************************************************)
(* A counter of two words of 2 bits, so that each call runs over the end   *)
(* of a word.  Times of 3 and 4 cycles agree within a third, 8 agrees with *)
(* neither; an interrupt costs 1 cycle or 5.                               *)
(***************************************************************************)
EXTENDS KBest

MCEps == [num |-> 1, den |-> 3]

MCEpsilons == {MCEps}

MCDefaults == [k |-> 2, max |-> 3, eps |-> MCEps, compensate |-> FALSE,
               clear |-> FALSE, bytes |-> 8, block |-> 4]

MCFsecs == [MCDefaults EXCEPT !.k = 3, !.max = 3, !.compensate = TRUE,
                              !.clear = TRUE]
=============================================================================
