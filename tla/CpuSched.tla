------------------------------ MODULE CpuSched ------------------------------
(***************************************************************************)
(* "Cpu Scheduling/schedsim.c": the processes of an input file are moved   *)
(* from the source list to the run queue by the rules of one policy, and   *)
(* the run queue is then played out as a timeline and a table of waiting   *)
(* and turnaround times.                                                   *)
(*                                                                         *)
(* A policy is a loop over the ticks i below span, the sum of all bursts,  *)
(* with a loop over the source list in each tick.  One action is a visit   *)
(* of one entry of that list.                                              *)
(***************************************************************************)
EXTENDS Integers, Sequences, SequencesExt, FiniteSetsExt

CONSTANTS
  Policies,      \* "FCFS", "SJF" and "STCF", or some of them
  Arrivals,      \* arrival times that the input file may give
  Bursts,        \* burst lengths that it may give
  MaxProcesses,  \* bound: lines of the input file
  Junk           \* a line of the table that shows what was never written

ASSUME CpuSchedAssumption ==
  /\ Policies \subseteq {"FCFS", "SJF", "STCF"}
  /\ Arrivals \subseteq Nat
  /\ Bursts \subseteq Nat \ {0}
  /\ MaxProcesses \in Nat
  /\ Junk \notin [pid : Nat, waiting : Int, turnaround : Int]

VARIABLES
  policy,     \* task_tick
  src,        \* srcrq: entries [pid, arr, burst, on_rq, tmp_src]
  runq,       \* runqueue: entries [pid, arr, burst]
  count,      \* processes and processAdded: [processes, added]
  span,       \* the sum of the bursts of the file
  i,          \* the tick
  at,         \* the place of the next entry of src to visit
  sums,       \* j, k and m of the tick functions
  pc,         \* "tick", "play", "done" or "astray"
  timeline,   \* the pids printed, one for each unit of time
  table,      \* output: the rows written, [pid, waiting, turnaround]
  printed     \* the lines of the table printed

vars == <<policy, src, runq, count, span, i, at, sums, pc, timeline, table,
          printed>>

SumOfBursts(list) ==
  LET sum[n \in 0..Len(list)] ==
        IF n = 0 THEN 0 ELSE sum[n - 1] + list[n].burst
  IN  sum[Len(list)]

Slice(e) == [pid |-> e.pid, arr |-> e.arr, burst |-> e.burst]
-----------------------------------------------------------------------------
(***************************************************************************)
(* The visit of an entry.                                                  *)
(***************************************************************************)
Visiting(policies) ==
  pc = "tick" /\ policy \in policies /\ at \in DOMAIN src

Here == src[at]

(* mutant: the entry goes to the front of the run queue *)
AdmitAtHead(e) ==
  /\ runq' = <<Slice(e)>> \o runq
  /\ count' = [count EXCEPT !.added = @ + 1]

(* the entry goes to the end of the run queue *)
Admit(e) ==
  /\ runq' = Append(runq, Slice(e))
  /\ count' = [count EXCEPT !.added = @ + 1]

FcfsVisit ==
  /\ Visiting({"FCFS"})
  /\ IF Here.arr = i THEN Admit(Here) ELSE UNCHANGED <<runq, count>>
  /\ at' = at + 1
  /\ UNCHANGED <<policy, src, span, i, sums, pc, timeline, table, printed>>

(* SJF and STCF add up in j the bursts not yet queued.  An entry is ready  *)
(* if it is shorter than the tick and has arrived in the time the queued   *)
(* entries take, or if j has just reached the tick.                        *)
Passed == sums.j + Here.burst

(* mutant: the burst must be over for a tick longer *)
ReadyTooLate ==
  \/ Here.burst < i - 1 /\ Here.arr <= sums.k
  \/ i = Passed /\ Here.arr < i

Ready ==
  \/ Here.burst < i /\ Here.arr <= sums.k
  \/ i = Passed /\ Here.arr < i

(* an entry that is on the run queue, or that is not ready *)
PassBy ==
  /\ Visiting({"SJF", "STCF"})
  /\ Here.on_rq \/ ~Ready
  /\ sums' = [sums EXCEPT !.j = IF Here.on_rq THEN @ ELSE Passed]
  /\ at' = at + 1
  /\ UNCHANGED <<policy, src, runq, count, span, i, pc, timeline, table, printed>>

SjfVisit ==
  /\ Visiting({"SJF"})
  /\ ~Here.on_rq /\ Ready
  /\ Admit(Here)
  /\ src' = [src EXCEPT ![at].on_rq = TRUE]
  /\ sums' = [sums EXCEPT !.j = Passed, !.k = @ + Here.burst]
  /\ at' = at + 1
  /\ UNCHANGED <<policy, span, i, pc, timeline, table, printed>>

(***************************************************************************)
(* STCF.  A process goes in behind the first queued one that is longer,    *)
(* and that one is broken: what is left of it goes back to the source      *)
(* list, in front of the process visited.                                  *)
(***************************************************************************)
Longer ==
  {n \in DOMAIN runq : Here.burst < runq[n].burst /\ ~Here.tmp_src}

(* m, which only breaking a process sets back to 0 *)
Elapsed(n) ==
  LET m == sums.m + SumOfBursts(SubSeq(runq, 1, n - 1))
  IN IF m < Here.arr THEN Here.arr ELSE m

(* no queued process is longer: to the end of the queue *)
StcfAppend ==
  /\ Visiting({"STCF"})
  /\ ~Here.on_rq /\ Ready /\ Longer = {}
  /\ Admit(Here)
  /\ src' = [src EXCEPT ![at].on_rq = TRUE]
  /\ sums' = [j |-> Passed, k |-> sums.k + Here.burst,
              m |-> Elapsed(Len(runq) + 1)]
  /\ at' = at + 1
  /\ pc' = IF count'.added = count.processes THEN "play" ELSE pc
  /\ UNCHANGED <<policy, span, i, timeline, table, printed>>

(* the last process is inserted and nothing is broken *)
StcfInsertLast ==
  /\ Visiting({"STCF"})
  /\ ~Here.on_rq /\ Ready /\ Longer # {}
  /\ count.added + 1 = count.processes
  /\ LET n == Min(Longer)
     IN /\ runq' = InsertAt(runq, n + 1, Slice(Here))
        /\ sums' = [j |-> Passed, k |-> sums.k + Here.burst, m |-> Elapsed(n)]
  /\ src' = [src EXCEPT ![at].on_rq = TRUE]
  /\ count' = [count EXCEPT !.added = @ + 1]
  /\ pc' = "play"
  /\ UNCHANGED <<policy, span, i, at, timeline, table, printed>>

Remainder(broken, m) ==
  [pid |-> broken.pid, arr |-> broken.arr, burst |-> broken.burst - m,
   on_rq |-> FALSE, tmp_src |-> TRUE]

(* mutant: the remainder is not counted as a process *)
StcfBreakUncounted ==
  /\ Visiting({"STCF"})
  /\ ~Here.on_rq /\ Ready /\ Longer # {}
  /\ count.added + 1 < count.processes
  /\ LET n == Min(Longer)
     IN /\ runq' = InsertAt([runq EXCEPT ![n].burst = Here.arr + 1],
                            n + 1, Slice(Here))
        /\ src' = InsertAt([src EXCEPT ![at].on_rq = TRUE],
                           at, Remainder(runq[n], Elapsed(n)))
  /\ sums' = [j |-> Passed, k |-> sums.k + Here.burst, m |-> 0]
  /\ count' = [count EXCEPT !.added = @ + 1]
  /\ at' = at + 2
  /\ UNCHANGED <<policy, span, i, pc, timeline, table, printed>>

StcfBreak ==
  /\ Visiting({"STCF"})
  /\ ~Here.on_rq /\ Ready /\ Longer # {}
  /\ count.added + 1 < count.processes
  /\ LET n == Min(Longer)
     IN /\ runq' = InsertAt([runq EXCEPT ![n].burst = Here.arr + 1],
                            n + 1, Slice(Here))
        /\ src' = InsertAt([src EXCEPT ![at].on_rq = TRUE],
                           at, Remainder(runq[n], Elapsed(n)))
  /\ sums' = [j |-> Passed, k |-> sums.k + Here.burst, m |-> 0]
  /\ count' = [processes |-> count.processes + 1, added |-> count.added + 1]
  /\ at' = at + 2
  /\ UNCHANGED <<policy, span, i, pc, timeline, table, printed>>

(* the end of the source list; FCFS and SJF look here, and not earlier,    *)
(* whether all processes are queued                                        *)
AllQueued == policy # "STCF" /\ count.added = count.processes

NextTick ==
  /\ pc = "tick" /\ at = Len(src) + 1
  /\ IF i + 1 < span /\ ~AllQueued
     THEN i' = i + 1 /\ at' = 1 /\ sums' = [sums EXCEPT !.j = 0] /\ pc' = pc
     ELSE pc' = "play" /\ UNCHANGED <<i, at, sums>>
  /\ UNCHANGED <<policy, src, runq, count, span, timeline, table, printed>>
-----------------------------------------------------------------------------
(***************************************************************************)
(* run_simulator: one entry of the run queue is played out.  The j of that *)
(* function is one more than the length of the timeline.                   *)
(***************************************************************************)
Row(e, line) ==
  [pid |-> e.pid, waiting |-> Len(line) + 1 - e.arr - e.burst,
   turnaround |-> Len(line) + 1 - e.arr]

(* mutant: the slot of the end is counted before the burst is played *)
PlayStart ==
  /\ pc = "play" /\ Len(table) < Len(runq)
  /\ LET e == runq[Len(table) + 1]
     IN /\ timeline' = timeline \o [n \in 1..e.burst |-> e.pid]
        /\ table' = Append(table, Row(e, timeline))
  /\ UNCHANGED <<policy, src, runq, count, span, i, at, sums, pc, printed>>

Play ==
  /\ pc = "play" /\ Len(table) < Len(runq)
  /\ LET e == runq[Len(table) + 1]
     IN /\ timeline' = timeline \o [n \in 1..e.burst |-> e.pid]
        /\ table' = Append(table, Row(e, timeline'))
  /\ UNCHANGED <<policy, src, runq, count, span, i, at, sums, pc, printed>>

(* output has three bytes for each process of the file, and no more for    *)
(* the remainders of STCF; a row is three ints.                            *)
SizeOfInt == 4

Inside(row) ==
  3 * SizeOfInt * row <= 3 * Cardinality({n \in DOMAIN src : ~src[n].tmp_src})

(* A row behind the end of output: Play, if malloc has rounded up or the   *)
(* memory there is not in use, or else nothing more is known of the run.   *)
Overrun ==
  /\ pc = "play" /\ Len(table) < Len(runq)
  /\ ~Inside(Len(table) + 1)
  /\ pc' = "astray"
  /\ UNCHANGED <<policy, src, runq, count, span, i, at, sums, timeline, table,
                 printed>>

(* a line for each process counted, whether or not its row was written *)
Done ==
  /\ pc = "play" /\ Len(table) = Len(runq)
  /\ pc' = "done"
  /\ printed' = [n \in 1..count.processes |->
                   IF n \in DOMAIN table THEN table[n] ELSE Junk]
  /\ UNCHANGED <<policy, src, runq, count, span, i, at, sums, timeline, table>>

(* read_config.  on_rq and tmp_src are not set there; no memory has been   *)
(* freed yet, and what malloc takes from the kernel is zero.               *)
Init ==
  /\ policy \in Policies
  /\ \E n \in 0..MaxProcesses :
       \E file \in [1..n -> [arr : Arrivals, burst : Bursts]] :
         /\ src = [p \in 1..n |-> [pid |-> p, arr |-> file[p].arr,
                                   burst |-> file[p].burst,
                                   on_rq |-> FALSE, tmp_src |-> FALSE]]
         /\ count = [processes |-> n, added |-> 0]
         /\ span = SumOfBursts(file)
  /\ runq = << >> /\ timeline = << >> /\ table = << >> /\ printed = << >>
  /\ i = 0 /\ at = 1
  /\ sums = [j |-> 0, k |-> 0, m |-> 0]
  /\ pc = IF span = 0 THEN "play" ELSE "tick"

Next ==
  \/ FcfsVisit \/ PassBy \/ SjfVisit
  \/ StcfAppend \/ StcfInsertLast \/ StcfBreak
  \/ NextTick \/ Play \/ Overrun \/ Done

Spec == Init /\ [][Next]_vars
-----------------------------------------------------------------------------
(***************************************************************************)
(* Properties.                                                             *)
(***************************************************************************)
(* The shape of the variables.  A remainder may have a burst below 0       *)
(* (line 148), and so may the sum k of the bursts queued.                  *)
TypeOK ==
  /\ policy \in Policies
  /\ \A n \in DOMAIN src :
       src[n] \in [pid : 1..MaxProcesses, arr : Arrivals, burst : Int,
                   on_rq : BOOLEAN, tmp_src : BOOLEAN]
  /\ \A n \in DOMAIN runq :
       runq[n] \in [pid : 1..MaxProcesses, arr : Arrivals, burst : Int]
  /\ (i = 0 \/ i \in 1..span - 1) /\ at \in 1..Len(src) + 1
  /\ sums \in [j : Int, k : Int, m : Int]
  /\ pc \in {"tick", "play", "done", "astray"}
  /\ \A n \in DOMAIN table :
       table[n] \in [pid : 1..MaxProcesses, waiting : Int, turnaround : Int]
  /\ \A n \in DOMAIN printed : n \in DOMAIN table \/ printed[n] = Junk

Queued(p) == {n \in DOMAIN runq : runq[n].pid = p}

(* While stcf_tick walks the source list it lengthens it and raises        *)
(* processes (lines 142-160), by which it decides whether it is through:   *)
(* the counters stay the lengths of the lists, and what is on the run      *)
(* queue are the entries marked as such, each once.                        *)
CountsAgree ==
  /\ count.added = Len(runq)
  /\ count.processes = Len(src)
  /\ \A p \in 1..MaxProcesses :
       IF policy = "FCFS" THEN Cardinality(Queued(p)) <= 1
       ELSE Cardinality(Queued(p)) =
              Cardinality({n \in DOMAIN src : src[n].pid = p /\ src[n].on_rq})

(* fcfs_tick (lines 36-51) queues processes in the order of arrival, and   *)
(* those of one arrival time in the order of the file.                     *)
FirstComeFirst ==
  policy = "FCFS" =>
    \A a, b \in DOMAIN runq : a < b =>
      \/ runq[a].arr < runq[b].arr
      \/ runq[a].arr = runq[b].arr /\ runq[a].pid < runq[b].pid

(* sjf_tick (line 74) does not always take the shortest job, but a process *)
(* that is there from the beginning has to wait only for jobs that are     *)
(* longer than itself by 1 at most.                                        *)
NearlyShortestFirst ==
  policy = "SJF" =>
    \A a, b \in DOMAIN runq :
      a < b /\ runq[b].arr = 0 => runq[a].burst <= runq[b].burst + 1

(* the bursts queued of those that are ahead of the n-th in the source list *)
WorkAhead(n) ==
  SumOfBursts([m \in 1..n - 1 |->
                 [burst |-> IF src[m].on_rq THEN src[m].burst ELSE 0]])

(* Lines 35, 63 and 103 end the loop at span, and a process that is not    *)
(* queued then never runs.  Under FCFS these are exactly the processes     *)
(* that arrive when the sum of all bursts has passed.  Under SJF no        *)
(* process is left out but one that makes up all the work but 1, or that   *)
(* arrives later than the work queued ahead of it in the file lasts; under *)
(* STCF, of those that are there from the beginning, only the first kind,  *)
(* unless a remainder has fallen below 0 (line 148): that can make k       *)
(* negative, and then nobody has arrived "by k" (line 113).  For SJF and   *)
(* STCF this says who may be left out, not who is.                         *)
LeftOut ==
  pc # "tick" =>
    \A n \in DOMAIN src :
      LET left == Queued(src[n].pid) = {}
          big  == src[n].burst >= span - 1
      IN CASE policy = "FCFS" -> left <=> src[n].arr >= span
           [] policy = "SJF"  -> left => big \/ src[n].arr > WorkAhead(n)
           [] policy = "STCF" ->
                left /\ src[n].arr = 0 =>
                  big \/ \E m \in DOMAIN src : src[m].burst < 0

(* What run_simulator prints last (lines 194-196) tells the same story as  *)
(* the timeline (179-186) under FCFS and SJF: the waiting and turnaround   *)
(* time of a process differ by its units of the timeline, and between the  *)
(* ends of two processes there is as much time in the table as there is in *)
(* the timeline.  The lines that show nothing are as many as the processes *)
(* that were left out.                                                     *)
PrintedAsPlayed ==
  policy # "STCF" /\ pc = "done" =>
    LET lines     == {n \in DOMAIN printed : printed[n] # Junk}
        Units(n)  == {t \in DOMAIN timeline : timeline[t] = printed[n].pid}
        Finish(n) == LET entry == CHOOSE e \in ToSet(src) : e.pid = printed[n].pid
                     IN entry.arr + printed[n].turnaround
    IN /\ \A n \in lines :
            Cardinality(Units(n)) = printed[n].turnaround - printed[n].waiting
       /\ \A m, n \in lines :
            Finish(n) - Finish(m) = Max(Units(n)) - Max(Units(m))
       /\ Cardinality(DOMAIN printed \ lines)
          = Cardinality({n \in DOMAIN src : Queued(src[n].pid) = {}})

(* Lists and counters agree while the lists change (lines 142-160).        *)
CountsOK == TypeOK /\ CountsAgree

(* How long a job waits for its turn under SJF, and who may never get one  *)
(* (lines 35, 63-90 and 103).                                              *)
TurnsTaken == NearlyShortestFirst /\ LeftOut
=============================================================================
