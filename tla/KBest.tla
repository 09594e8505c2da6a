------------------------------- MODULE KBest -------------------------------
(***************************************************************************)
(* "Efficient Mallocs/fcyc.c" and the part of fsecs.c that uses it: the    *)
(* running time of a function is measured again and again until the k      *)
(* shortest times agree, or maxsamples have been taken.  The times come    *)
(* from CycleClock; the array of the k best is kept sorted by insertion.   *)
(* The parameters may be set between two calls of fcyc.  epsilon is the    *)
(* fraction num/den.                                                       *)
(***************************************************************************)
EXTENDS CycleClock, Sequences, FiniteSets, Functions

CONSTANTS
  Durations,    \* cycles one call of the measured function may take
  Ks, Maxes, Epsilons, Bytes, Blocks,  \* arguments of the set_fcyc_ functions
  Defaults,     \* the parameters before any is set
  FsecsParam    \* what init_fsecs sets

SizeofInt == 4

Fractions == [num : Nat, den : Nat \ {0}]

Params ==
  [k : Nat \ {0}, max : Nat, eps : Fractions, compensate : BOOLEAN,
   clear : BOOLEAN, bytes : Nat, block : Nat]

ASSUME KBestAssumption ==
  /\ Durations \subseteq 0..WordMod * WordMod - 1
  /\ Ks \subseteq Nat \ {0} /\ Maxes \subseteq Nat
  /\ Epsilons \subseteq Fractions
  /\ Bytes \subseteq Nat /\ Blocks \subseteq Nat
  /\ Defaults \in Params /\ FsecsParam \in Params

VARIABLES
  param,    \* [k, max, eps, compensate, clear, bytes, block]
  cache,    \* size of the buffer cache_buf points to, 0 for NULL
  phase,    \* where fcyc is
  values,   \* the k best, as an array
  samples,  \* all samples of this call (KEEP_SAMPLES)
  spent,    \* what the calls of the function really took
  result    \* what fcyc has returned

fcycvars == <<param, cache, phase, values, samples, spent, result>>
vars == <<clock, fcycvars>>

samplecount == Len(samples)

(***************************************************************************)
(* The array of the k best.                                                *)
(***************************************************************************)
(* the while loop of add_sample: the element at pos goes down to i *)
SinksTo(vs, pos, i) ==
  /\ i \in 1..pos
  /\ \A j \in i..pos - 1 : vs[j] > vs[pos]
  /\ i > 1 => vs[i - 1] <= vs[pos]

Sink(vs, pos) ==
  LET i == CHOOSE j \in 1..pos : SinksTo(vs, pos, j)
  IN [j \in DOMAIN vs |-> CASE j < i             -> vs[j]
                            [] j = i             -> vs[pos]
                            [] i < j /\ j <= pos -> vs[j - 1]
                            [] j > pos           -> vs[j]]

(* mutant: a sample that is not below the k-th replaces it all the same *)
AddSampleAlways(vs, val) ==
  LET pos == IF samplecount < param.k THEN samplecount + 1 ELSE param.k
  IN Sink([vs EXCEPT ![pos] = val], pos)

AddSample(vs, val) ==
  IF samplecount < param.k
  THEN Sink([vs EXCEPT ![samplecount + 1] = val], samplecount + 1)
  ELSE IF val < vs[param.k]
       THEN Sink([vs EXCEPT ![param.k] = val], param.k)
       ELSE vs

Close(a, b) == (param.eps.den + param.eps.num) * a >= param.eps.den * b

(* mutant: the last of the k is not looked at *)
HasConvergedBefore(vs, n) == n >= param.k /\ Close(vs[1], vs[param.k - 1])

(* has_converged after n samples *)
HasConverged(vs, n) == n >= param.k /\ Close(vs[1], vs[param.k])
-----------------------------------------------------------------------------
(***************************************************************************)
(* The parameters.                                                         *)
(***************************************************************************)
Idle == phase = "idle"

Set(field, v) ==
  /\ Idle
  /\ param' = [param EXCEPT ![field] = v]
  /\ UNCHANGED <<clock, phase, values, samples, spent, result>>

SetOption ==
  /\ \/ \E k \in Ks : Set("k", k)
     \/ \E m \in Maxes : Set("max", m)
     \/ \E e \in Epsilons : Set("eps", e)
     \/ \E b \in BOOLEAN : Set("compensate", b) \/ Set("clear", b)
     \/ \E n \in Blocks : Set("block", n)
  /\ UNCHANGED cache

SetCacheSize ==
  \E n \in Bytes :
    /\ Set("bytes", n)
    /\ cache' = IF n # param.bytes THEN 0 ELSE cache

InitFsecs ==
  /\ Idle
  /\ param' = [FsecsParam EXCEPT !.bytes = param.bytes, !.block = param.block]
  /\ MhzFull
  /\ UNCHANGED <<cache, phase, values, samples, spent, result>>
-----------------------------------------------------------------------------
(***************************************************************************)
(* One call of fcyc.                                                       *)
(***************************************************************************)
Call ==
  /\ Idle
  /\ values' = [i \in 1..param.k |-> 0]
  /\ samples' = << >> /\ spent' = << >>
  /\ phase' = "loop"
  /\ UNCHANGED <<clock, param, cache, result>>

(* clear reads the buffer in steps of cache_block, or for ever in the      *)
(* first element if that is less than an int *)
Clear ==
  /\ phase = "loop" /\ param.clear
  /\ \/ /\ cache = 0
        /\ phase' = "exited"  \* malloc returned NULL
        /\ UNCHANGED cache
     \/ /\ cache' = IF cache = 0 THEN param.bytes ELSE cache
        /\ phase' = IF param.block \div SizeofInt = 0 /\ param.bytes > 0
                    THEN "stuck" ELSE "start"
  /\ UNCHANGED <<clock, param, values, samples, spent, result>>

NoClear ==
  /\ phase = "loop" /\ ~param.clear
  /\ phase' = "start"
  /\ UNCHANGED <<clock, param, cache, values, samples, spent, result>>

Goto(ph) ==
  phase' = ph /\ UNCHANGED <<param, cache, values, samples, spent, result>>

Start ==
  /\ phase = "start"
  /\ \/ /\ ~param.compensate
        /\ StartCounter
        /\ UNCHANGED <<now, ticks, gap, events, cycPerTick>>
        /\ Goto("running")
     \/ /\ param.compensate /\ cycPerTick = 0
        /\ BeginCallibrate
        /\ Goto("callibrate")
     \/ /\ param.compensate /\ cycPerTick # 0
        /\ StartComp
        /\ Goto("running")

Callibrate ==
  /\ phase = "callibrate"
  /\ \/ CallibrateRead /\ UNCHANGED fcycvars
     \/ events = NEvent /\ StartComp /\ Goto("running")

Timer == phase = "callibrate" /\ TimerTick /\ UNCHANGED fcycvars

(* the measured function runs, and interrupts come as they like *)
RunFunction ==
  /\ phase = "running"
  /\ \E d \in Durations : now' = After(d) /\ spent' = Append(spent, d)
  /\ \E t \in IF param.compensate THEN 0..MaxTicks ELSE {0} : ticks' = t
  /\ phase' = "sample"
  /\ UNCHANGED <<cyc, gap, events, cycPerTick, param, cache, values, samples,
                 result>>

Sample ==
  /\ phase = "sample"
  /\ LET val == IF param.compensate THEN GetCompCounter(now, ticks)
                                    ELSE GetCounter(now)
     IN /\ values' = AddSample(values, val)
        /\ samples' = Append(samples, val)
  /\ phase' = IF ~HasConverged(values', samplecount + 1)
                 /\ samplecount + 1 < param.max
              THEN "loop" ELSE "done"
  /\ UNCHANGED <<clock, param, cache, spent, result>>

Return ==
  /\ phase = "done"
  /\ result' = values[1]
  /\ values' = << >>
  /\ phase' = "returned"
  /\ UNCHANGED <<clock, param, cache, samples, spent>>

(* fsecs divides by the clock rate and hands the seconds to the driver *)
Report ==
  /\ phase = "returned"
  /\ phase' = "idle"
  /\ samples' = << >> /\ spent' = << >> /\ result' = 0
  /\ UNCHANGED <<clock, param, cache, values>>

Init ==
  /\ InitClock
  /\ param = Defaults
  /\ cache = 0 /\ phase = "idle"
  /\ values = << >> /\ samples = << >> /\ spent = << >>
  /\ result = 0

Fcyc ==
  \/ Clear \/ NoClear \/ Start \/ Callibrate
  \/ RunFunction \/ Sample \/ Return

Next ==
  \/ SetOption \/ SetCacheSize \/ InitFsecs \/ Call \/ Report
  \/ Fcyc \/ Timer

(* The program keeps running once fcyc is called, and the timer keeps      *)
(* interrupting it; nobody has to call fcyc.                               *)
Spec == Init /\ [][Next]_vars /\ WF_vars(Fcyc) /\ WF_vars(Timer)
-----------------------------------------------------------------------------
(***************************************************************************)
(* Properties.                                                             *)
(***************************************************************************)
(* The shape of the variables. *)
TypeOK ==
  /\ ClockType
  /\ phase \in {"idle", "loop", "stuck", "exited", "start", "callibrate",
                "running", "sample", "done", "returned"}
  /\ param \in Params
  /\ values = << >> \/ DOMAIN values = 1..param.k
  /\ cache \in Nat

InCall == phase \notin {"idle", "returned"}

(* values holds the k shortest of all times measured in this call, in      *)
(* order, whatever the order they came in (lines 67-88): each is a sample  *)
(* of its own, f says which, and no other sample is shorter than any.      *)
KSmallest ==
  InCall =>
    LET n == IF samplecount < param.k THEN samplecount ELSE param.k
    IN \E f \in Injection(1..n, DOMAIN samples) :
         /\ \A a \in 1..n : values[a] = samples[f[a]]
         /\ \A a, b \in 1..n : a <= b => values[a] <= values[b]
         /\ \A i \in DOMAIN samples \ Range(f), a \in 1..n :
              values[a] <= samples[i]

(* fcyc returns the shortest time it has measured (lines 162-167).         *)
ResultIsMin ==
  phase = "returned" =>
    /\ \E i \in DOMAIN samples : samples[i] = result
    /\ \A i \in DOMAIN samples : result <= samples[i]

(* A call that ends before maxsamples (lines 131-153) has seen k times     *)
(* within epsilon of its result, and no time measured was shorter.         *)
EarlyMeansClose ==
  phase = "returned" /\ samplecount < param.max =>
    \E S \in SUBSET DOMAIN samples :
      /\ Cardinality(S) = param.k
      /\ \A i \in S : Close(result, samples[i])

(* Correcting for interrupts can make a time negative; then the test of    *)
(* line 97, which multiplies it by 1 + epsilon, never holds, and only      *)
(* maxsamples ends the loop.                                               *)
NegativeRunsOut ==
  phase = "returned" /\ result < 0 /\ param.eps.num > 0 =>
    samplecount >= param.max

(* The difference of the two words of the counter (clock.c:60-66) is the   *)
(* time that really passed, also when the low word or the whole counter    *)
(* has run over in between.                                                *)
SamplesAreElapsed ==
  phase \notin {"idle"} /\ ~param.compensate =>
    \A i \in DOMAIN samples : samples[i] = spent[i]

(* The correction is never by an interrupt shorter than the record         *)
(* threshold, nor by more than the longest gap an interrupt can leave:     *)
(* the loop of callibrate divides a gap by the interrupts in it (232).     *)
CyclesPerTickPlausible ==
  cycPerTick # 0 =>
    /\ cycPerTick > RecordThresh
    /\ \E c \in TickCosts : cycPerTick < c + Threshold + ReadCost

(* clear walks through cache_bytes bytes: there are that many in the       *)
(* buffer, whenever set_fcyc_cache_size was called (189-198).              *)
CacheBufFits == cache \in {0, param.bytes}

(* How a call ends tells what it has seen: k times close to one another,   *)
(* or maxsamples of them (lines 93-98 and 150-153).                        *)
EndsAsTested == EarlyMeansClose /\ NegativeRunsOut

(* What the sampler keeps from call to call is fit for the next one, and   *)
(* what it returns is a time it has measured (fcyc.c:162-198,              *)
(* clock.c:232).                                                           *)
SamplerOK == TypeOK /\ ResultIsMin /\ CyclesPerTickPlausible /\ CacheBufFits


(* A call of fcyc comes to its end, by convergence or by maxsamples, if    *)
(* the timer keeps ticking; the exceptions are a cache block smaller than  *)
(* an int, for which clear never ends, and no memory for the buffer.       *)
CallsEnd == phase = "loop" ~> phase \in {"returned", "stuck", "exited"}
=============================================================================
