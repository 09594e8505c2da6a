----------------------------- MODULE MCEnvVars -----------------------------
(***************************************************************************)
(* Four variables: three share a bucket, two of them still after the first *)
(* expansion, which comes with the second element of a bucket, so that a   *)
(* handful of adds goes through what ten in one bucket do.                 *)
(***************************************************************************)
EXTENDS EnvVars

CONSTANTS e1, e2, e3, e4, k1, k2, k3, k4, v1, v2

MCHashOf == (k1 :> 1) @@ (k2 :> 3) @@ (k3 :> 5) @@ (k4 :> 2)

(* Of a table in which a variable was set again and one was removed nothing is
   claimed: its elements are freed while links still lead to them. *)
Claimed == ~(reentered /\ removed)

MCMalloc(free) == free

Perms == Permutations(Structs) \cup Permutations(Values)
=============================================================================
