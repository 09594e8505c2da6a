---------------------------- MODULE MCDiskSched ----------------------------
(***************************************************************************)
(* A disk of 200 cylinders as in the code.  The cylinders are both ends,   *)
(* two at the same distance on either side of 53, and 53 itself; each of   *)
(* them is a start, and each sequence of up to four of them a request      *)
(* list, so that lists have lengths that are and are not powers of two.    *)
(***************************************************************************)
EXTENDS DiskSched

MCCylinders == {0, 43, 53, 63, 200}
=============================================================================
