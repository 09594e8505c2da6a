----------------------------- MODULE MCMDriver -----------------------------
(***************************************************************************)
(* Short traces on a heap of a few cells, aligned to 2.  The first suite   *)
(* has two traces, with up to two requests live at a time; the second does *)
(* not free what it has.  It is given to an honest package.  A package     *)
(* that returns any address gets a shorter suite, and so does the C        *)
(* library, which is called before a package that is honest.               *)
(***************************************************************************)
EXTENDS MDriver

Alloc(id, n) == [type |-> "alloc", id |-> id, size |-> n]
Realloc(id, n) == [type |-> "realloc", id |-> id, size |-> n]
FreeOp(id) == [type |-> "free", id |-> id]

MCAddr == 0..7

MCSuite ==
  << <<Alloc(0, 3), Alloc(1, 2), FreeOp(0), Realloc(1, 4), Alloc(2, 1),
       FreeOp(2), FreeOp(1)>>,
     <<Alloc(0, 2), Realloc(0, 1), Alloc(1, 2)>> >>

MCShortSuite ==
  << <<Alloc(0, 2), Alloc(1, 1), Alloc(2, 4), Realloc(1, 3), FreeOp(0)>>,
     <<Alloc(0, 1)>> >>

MCLibcSuite ==
  << <<Alloc(0, 2), Alloc(1, 1), FreeOp(0), Realloc(1, 3)>>,
     <<Alloc(0, 1), Alloc(1, 1), FreeOp(1), FreeOp(0)>> >>

MCSettings ==
  { [suite |-> MCSuite, honest |-> TRUE, libc |-> FALSE],
    [suite |-> MCShortSuite, honest |-> FALSE, libc |-> FALSE],
    [suite |-> MCLibcSuite, honest |-> TRUE, libc |-> TRUE] }
=============================================================================
