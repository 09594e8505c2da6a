----------------------------- MODULE DiskSched ------------------------------
(***************************************************************************)
(* "Disk Scheduling/disksim.c": one list of requested cylinders is put     *)
(* into the order of six policies, one after the other, and for each the   *)
(* total seek distance and the order are written as a row of the output.   *)
(*                                                                         *)
(* A list is a sequence, an entry a record [cylinder, dist, up], where     *)
(* dist is the distance from the START line's cylinder and up says on      *)
(* which side of it the request lies.                                      *)
(***************************************************************************)
EXTENDS Integers, Sequences, SequencesExt, FiniteSetsExt

CONSTANTS
  Cylinders,      \* cylinders that the input file may name
  HIGHEST_LEVEL,  \* the last cylinder of the disk; the first is 0
  MaxRequests     \* bound: requests in the input file

LOWEST_LEVEL == 0

ASSUME DiskSchedAssumption ==
  /\ HIGHEST_LEVEL \in Nat
  /\ Cylinders \subseteq LOWEST_LEVEL..HIGHEST_LEVEL
  /\ MaxRequests \in Nat

Policies == <<"FCFS", "SSTF", "SCAN", "CSCAN", "LOOK", "CLOOK">>

VARIABLES
  start,       \* where the head is at first
  src,         \* srcrq, the requests in the order of the file
  processes,   \* the number of entries print_rq expects
  elevatorUp,  \* the direction drawn last
  status,      \* "running", "done" or "crashed"
  rows         \* the output: [policy, up, total, order, newline]

vars == <<start, src, processes, elevatorUp, status, rows>>

Distance(a, b) == IF a > b THEN a - b ELSE b - a

Entry(c, s) ==
  [cylinder |-> c, dist |-> Distance(c, s), up |-> c > s]

CylindersOf(list) == [n \in DOMAIN list |-> list[n].cylinder]

(***************************************************************************)
(* list_sort of list.h, a merge sort from the bottom up, with the compare  *)
(* functions.  After says that the function returns 1: a goes behind b.    *)
(***************************************************************************)
(* the order a list is sorted into: a policy, and the direction drawn *)
By(policy, up) == [policy |-> policy, up |-> up]

(* mutant: the far half of a circular sweep is sorted like the near one *)
AfterNearestFirst(by, a, b) ==
  CASE by.policy = "SSTF" -> a.dist > b.dist
    [] by.policy # "SSTF" ->
         IF a.up = b.up THEN a.dist > b.dist ELSE b.up = by.up

After(by, a, b) ==
  CASE by.policy = "SSTF" -> a.dist > b.dist
    [] by.policy \in {"SCAN", "LOOK"} ->
         IF a.up = b.up THEN a.dist > b.dist ELSE b.up = by.up
    [] by.policy \in {"CSCAN", "CLOOK"} ->
         IF a.up # b.up THEN b.up = by.up
         ELSE IF a.up = by.up THEN a.dist > b.dist ELSE a.dist < b.dist

(* mutant: of two equal entries the one of the second run goes first *)
TakesSecondUnstable(by, p, q, at) ==
  \/ at.p = Len(p)
  \/ at.q < Len(q) /\ ~After(by, q[at.q + 1], p[at.p + 1])

(* the next entry comes from the second run: the first is used up, or the  *)
(* second is not and the compare function returns 1                        *)
TakesSecond(by, p, q, at) ==
  \/ at.p = Len(p)
  \/ at.q < Len(q) /\ After(by, p[at.p + 1], q[at.q + 1])

(* one round of the inner loop; p and q of at count what has been taken *)
MergeOne(by, p, q, at) ==
  IF TakesSecond(by, p, q, at)
  THEN [p |-> at.p, q |-> at.q + 1, merged |-> Append(at.merged, q[at.q + 1])]
  ELSE [p |-> at.p + 1, q |-> at.q, merged |-> Append(at.merged, p[at.p + 1])]

Merge(by, p, q) ==
  LET after[n \in 0..Len(p) + Len(q)] ==
        IF n = 0 THEN [p |-> 0, q |-> 0, merged |-> << >>]
                 ELSE MergeOne(by, p, q, after[n - 1])
  IN after[Len(p) + Len(q)].merged

Run(list, from, n) ==
  SubSeq(list, from, IF from + n - 1 < Len(list) THEN from + n - 1 ELSE Len(list))

(* one pass over the list: the runs of insize entries are merged in pairs *)
Pairs(list, insize) == (Len(list) + 2 * insize - 1) \div (2 * insize)

Pass(by, list, insize) ==
  FlattenSeq([m \in 1..Pairs(list, insize) |->
                Merge(by, Run(list, (2 * m - 2) * insize + 1, insize),
                          Run(list, (2 * m - 1) * insize + 1, insize))])

(* a pass that merges a single pair is the last *)
NextPass(by, at) ==
  IF Len(at.list) <= at.insize THEN at
  ELSE [list |-> Pass(by, at.list, at.insize), insize |-> 2 * at.insize]

(* there are no more passes than entries, as insize is doubled by each *)
ListSort(by, list) ==
  LET after[n \in 0..Len(list)] ==
        IF n = 0 THEN [list |-> list, insize |-> 1]
                 ELSE NextPass(by, after[n - 1])
  IN after[Len(list)].list

(***************************************************************************)
(* Adding up the distances.                                                *)
(***************************************************************************)
Sum(numbers) ==
  LET upTo[n \in 0..Len(numbers)] ==
        IF n = 0 THEN 0 ELSE upTo[n - 1] + numbers[n]
  IN upTo[Len(numbers)]

(* mutant: CLOOK, too, turns at the last cylinder *)
LegCircularAtBothEnds(policy, prev, c) ==
  IF c = LOWEST_LEVEL THEN prev + c
  ELSE Distance(prev, c) + IF c = HIGHEST_LEVEL THEN c + c ELSE 0

(* At an end of the disk CSCAN and CLOOK add a sum of cylinders: instead   *)
(* of the distance at the first, and, CSCAN only, besides it at the last,  *)
(* when prevDist is that cylinder already.                                 *)
LegCircular(policy, prev, c) ==
  IF c = LOWEST_LEVEL THEN prev + c
  ELSE Distance(prev, c)
       + IF policy = "CSCAN" /\ c = HIGHEST_LEVEL THEN c + c ELSE 0

Leg(policy, prev, c) ==
  IF policy \in {"CSCAN", "CLOOK"} THEN LegCircular(policy, prev, c)
                                   ELSE Distance(prev, c)

Legs(policy, path) ==
  [n \in 1..Len(path) - 1 |-> Leg(policy, path[n], path[n + 1])]

(* print_rq ends the line behind the processes-th cylinder *)
Row(policy, up, list, count) ==
  [policy |-> policy, up |-> up,
   total |-> Sum(Legs(policy, <<start>> \o CylindersOf(list))),
   order |-> CylindersOf(list), newline |-> count]
-----------------------------------------------------------------------------
(***************************************************************************)
(* The six ticks, in the order in which main calls them.                   *)
(***************************************************************************)
IsNext(policy) == status = "running" /\ Policies[Len(rows) + 1] = policy

Write(policy, list, count) ==
  /\ rows' = Append(rows, Row(policy, elevatorUp', list, count))
  /\ status' = IF policy = "CLOOK" THEN "done" ELSE status
  /\ UNCHANGED <<start, src>>

Fcfs ==
  /\ IsNext("FCFS")
  /\ UNCHANGED <<processes, elevatorUp>>
  /\ Write("FCFS", src, processes)

(* list_sort takes the head off the list and follows its first entry; of   *)
(* an empty list that is the head, which no longer points anywhere.        *)
Sstf ==
  /\ IsNext("SSTF")
  /\ UNCHANGED <<processes, elevatorUp>>
  /\ IF src = << >>
     THEN status' = "crashed" /\ UNCHANGED <<rows, start, src>>
     ELSE Write("SSTF", ListSort(By("SSTF", elevatorUp), src), processes)

WithEnds ==
  <<Entry(LOWEST_LEVEL, start)>> \o src
  \o <<[Entry(HIGHEST_LEVEL, start) EXCEPT !.up = TRUE]>>

(* mutant: the two further entries are not counted *)
ScanUncounted(policy) ==
  /\ policy \in {"SCAN", "CSCAN"} /\ IsNext(policy)
  /\ elevatorUp' \in BOOLEAN
  /\ Write(policy, ListSort(By(policy, elevatorUp'), WithEnds), processes)
  /\ UNCHANGED processes

(* SCAN and CSCAN: two more entries, for the ends of the disk.  processes  *)
(* counts them while the row is printed; that it goes up and down again in *)
(* one step leaves nothing out, as only print_rq reads it in between.      *)
Scan(policy) ==
  /\ policy \in {"SCAN", "CSCAN"} /\ IsNext(policy)
  /\ elevatorUp' \in BOOLEAN
  /\ Write(policy, ListSort(By(policy, elevatorUp'), WithEnds), processes + 2)
  /\ UNCHANGED processes

Look(policy) ==
  /\ policy \in {"LOOK", "CLOOK"} /\ IsNext(policy)
  /\ elevatorUp' \in BOOLEAN
  /\ Write(policy, ListSort(By(policy, elevatorUp'), src), processes)
  /\ UNCHANGED processes

(* read_config *)
Init ==
  /\ start \in Cylinders
  /\ \E n \in 0..MaxRequests : \E file \in [1..n -> Cylinders] :
       /\ src = [m \in 1..n |-> Entry(file[m], start)]
       /\ processes = n
  /\ elevatorUp = FALSE
  /\ status = "running"
  /\ rows = << >>

Next ==
  \/ Fcfs \/ Sstf
  \/ Scan("SCAN") \/ Scan("CSCAN")
  \/ Look("LOOK") \/ Look("CLOOK")

Spec == Init /\ [][Next]_vars
-----------------------------------------------------------------------------
(***************************************************************************)
(* Properties.                                                             *)
(***************************************************************************)
(* The shape of the variables.  processes is the number of requests        *)
(* whenever no row is being printed: scan_tick and cscan_tick change it     *)
(* (lines 99-125 and 142-177).                                             *)
TypeOK ==
  /\ start \in Cylinders
  /\ \A n \in DOMAIN src :
       src[n] \in [cylinder : Cylinders, dist : Nat, up : BOOLEAN]
  /\ processes = Len(src)
  /\ elevatorUp \in BOOLEAN
  /\ status \in {"running", "done", "crashed"}
  /\ Len(rows) <= Len(Policies)

(* The place of entry n in the stable order of a compare function.         *)
Place(by, list, n) ==
  1 + Cardinality({m \in DOMAIN list :
                     \/ After(by, list[n], list[m])
                     \/ m < n /\ ~After(by, list[m], list[n])})

(* Whatever the length of the list, the merge sort of list.h:363 serves    *)
(* every request exactly once, in the order of the compare function and,   *)
(* where that finds no difference, in the order of the file.               *)
InStableOrder ==
  \A r \in ToSet(rows) : r.policy # "FCFS" =>
    LET list == IF r.policy \in {"SCAN", "CSCAN"} THEN WithEnds ELSE src
    IN /\ Len(r.order) = Len(list)
       /\ \A n \in DOMAIN list :
            r.order[Place(By(r.policy, r.up), list, n)] = list[n].cylinder

Path(r) == <<start>> \o r.order

(* moves from one cylinder to a later-served, higher or lower one *)
Up(path, n) == path[n] < path[n + 1]
Down(path, n) == path[n] > path[n + 1]

(* SCAN and LOOK turn around at most once, and CSCAN and CLOOK move in one *)
(* direction but for one jump back, in the direction drawn: the compare    *)
(* functions (lines 256-298) make a sweep of the requests on both sides of *)
(* the start.                                                              *)
OneSweep ==
  \A r \in ToSet(rows) :
    LET path  == Path(r)
        moves == 1..Len(path) - 1
    IN CASE r.policy \in {"SCAN", "LOOK"} ->
              \A m, n \in moves : m < n =>
                IF r.up THEN Down(path, m) => ~Up(path, n)
                        ELSE Up(path, m) => ~Down(path, n)
         [] r.policy \in {"CSCAN", "CLOOK"} ->
              Cardinality({n \in moves : IF r.up THEN Down(path, n)
                                                 ELSE Up(path, n)}) <= 1
         [] OTHER -> TRUE

(* LOOK is SCAN that stops at the last request, and CLOOK is CSCAN that    *)
(* does (README, "Notes"): for the same direction the orders differ only   *)
(* by one visit of each end of the disk (lines 92-112, 135-155).           *)
StopsEarly ==
  \A s, l \in ToSet(rows) :
    /\ <<s.policy, l.policy>> \in {<<"SCAN", "LOOK">>, <<"CSCAN", "CLOOK">>}
    /\ s.up = l.up
    => \E low, high \in DOMAIN s.order :
         /\ s.order[low] = LOWEST_LEVEL /\ s.order[high] = HIGHEST_LEVEL
         /\ IF low < high
            THEN l.order = RemoveAt(RemoveAt(s.order, high), low)
            ELSE l.order = RemoveAt(RemoveAt(s.order, low), high)

Movement(path) ==
  Sum([n \in 1..Len(path) - 1 |-> Distance(path[n], path[n + 1])])

(* The total a row shows is the way of the head, the "total seek distance" *)
(* of the README, for every policy but CSCAN.  clook_tick (line 237) adds  *)
(* a sum instead of a difference, which does no harm: it does so at        *)
(* cylinder 0 only.  cscan_tick (line 170) does so at the last cylinder as *)
(* well and besides the difference: every row of CSCAN shows more than     *)
(* the way of the head, which disagrees with the README; nothing is        *)
(* claimed of it here.                                                     *)
TotalsAreMovement ==
  \A r \in ToSet(rows) :
    r.policy # "CSCAN" => r.total = Movement(Path(r))

(* Every row that has cylinders is a line of its own: print_rq (line 322)  *)
(* finds the last one by the counter processes.                            *)
RowsAreLines ==
  \A r \in ToSet(rows) : r.order # << >> => r.newline = Len(r.order)

(* The four policies that sweep do so, and differ as the README says       *)
(* (lines 92-155 and 256-298).                                             *)
SweepsAsNamed == OneSweep /\ StopsEarly

(* A row is printed by a count that is right while it is printed and       *)
(* afterwards (lines 99-125, 142-177, 315-330).                            *)
RowsOK == TypeOK /\ RowsAreLines
=============================================================================
