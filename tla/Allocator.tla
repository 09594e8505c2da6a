----------------------------- MODULE Allocator -----------------------------
(***************************************************************************)
(* What a malloc package promises its client, whatever it keeps inside.    *)
(* It is the contract mdriver.c checks a package against: add_range        *)
(* (mdriver.c:381-429) demands of every payload returned that it is        *)
(* aligned, lies inside the simulated heap and overlaps no live payload.   *)
(*                                                                         *)
(* live maps the payload pointer of every allocated block to the number of *)
(* bytes the client asked for; brk is the first address after the heap,    *)
(* which the package moves up as it likes and the driver moves back when   *)
(* it starts a new trace.                                                  *)
(***************************************************************************)
EXTENDS Integers, Functions

CONSTANTS
  Addr,       \* addresses a payload or the end of the heap may have
  Requests,   \* request sizes the client uses
  HeapStart,  \* mem_heap_lo()
  Alignment   \* ALIGNMENT of config.h

VARIABLES live, brk

vars == <<live, brk>>

(* The client's table maps addresses to request sizes. *)
TypeOK ==
  /\ DOMAIN live \subseteq Addr
  /\ live \in [DOMAIN live -> Requests]
  /\ brk \in Addr

(***************************************************************************)
(* add_range's three tests on the payload [p, p+n).                        *)
(***************************************************************************)
Aligned(p) == p % Alignment = 0

InHeap(p, n) == HeapStart <= p /\ p + n <= brk

Apart(p, n, q, m) == p + n <= q \/ q + m <= p

Init ==
  /\ live = << >>
  /\ brk \in Addr

(***************************************************************************)
(* malloc returns p for a request of n bytes.                              *)
(***************************************************************************)
Alloc(p, n) ==
  /\ p \notin DOMAIN live
  /\ brk' \in Addr /\ brk' >= brk
  /\ Aligned(p)
  /\ HeapStart <= p /\ p + n <= brk'
  /\ \A q \in DOMAIN live : Apart(p, n, q, live[q])
  /\ live' = [q \in DOMAIN live \cup {p} |-> IF q = p THEN n ELSE live[q]]

(* realloc that moves the payload; the new place may overlap the old one *)
Move(p, q, n) ==
  /\ p \in DOMAIN live
  /\ q \notin DOMAIN live
  /\ brk' \in Addr /\ brk' >= brk
  /\ Aligned(q)
  /\ HeapStart <= q /\ q + n <= brk'
  /\ \A r \in DOMAIN live \ {p} : Apart(q, n, r, live[r])
  /\ live' = [r \in (DOMAIN live \ {p}) \cup {q} |->
                IF r = q THEN n ELSE live[r]]

(* realloc that leaves the payload where it is *)
Resize(p, n) ==
  /\ p \in DOMAIN live
  /\ InHeap(p, n)
  /\ \A q \in DOMAIN live \ {p} : Apart(p, n, q, live[q])
  /\ live' = [live EXCEPT ![p] = n]
  /\ UNCHANGED brk

Free(p) ==
  /\ p \in DOMAIN live
  /\ live' = Restrict(live, DOMAIN live \ {p})
  /\ UNCHANGED brk

(* the driver starts over with an empty heap *)
Reset ==
  /\ live' = << >>
  /\ brk' \in Addr

Next ==
  \/ \E p \in Addr, n \in Requests : Alloc(p, n) \/ Resize(p, n)
  \/ \E p, q \in Addr, n \in Requests : Move(p, q, n)
  \/ \E p \in Addr : Free(p)
  \/ Reset

Spec == Init /\ [][Next]_vars

(***************************************************************************)
(* The consequence a client relies on.                                     *)
(***************************************************************************)
(* In every reachable state, however the calls and the heap's growth       *)
(* interleave, all live payloads are aligned, inside the heap and pairwise *)
(* disjoint: the tests add_range makes of the payload just returned        *)
(* (mdriver.c:381-429) hold of all of them at once.                        *)
PayloadsSafe ==
  /\ \A p \in DOMAIN live : Aligned(p) /\ InHeap(p, live[p])
  /\ \A p, q \in DOMAIN live : p # q => Apart(p, live[p], q, live[q])
=============================================================================
