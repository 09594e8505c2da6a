-------------------------- MODULE MCBumpAllocator --------------------------
(***************************************************************************)
(* Words of 7 bits and a heap of six cells that ends two cells below the   *)
(* end of the address range.  3 needs a cell besides the header, 10 two;   *)
(* 36 fits the empty heap and is granted when the new break wraps; 70 is a *)
(* negative number once rounded, 120 and 125 wrap to 0 and to 8.           *)
(***************************************************************************)
EXTENDS BumpAllocator

MCRequests == {3, 10, 36, 70, 120, 125}
=============================================================================
