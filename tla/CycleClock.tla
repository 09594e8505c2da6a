----------------------------- MODULE CycleClock -----------------------------
(***************************************************************************)
(* "Efficient Mallocs/clock.c": the cycle counter, read as two words, and  *)
(* the estimate of the cycles a timer interrupt takes (callibrate), with   *)
(* which the compensated counter corrects what it measures.  The counter   *)
(* and the timer run by themselves; KBest.tla, which calls these routines, *)
(* adds the steps of the program.                                          *)
(***************************************************************************)
EXTENDS Integers

CONSTANTS
  WordMod,       \* 2^32: one word of the counter
  Threshold,     \* THRESHOLD
  RecordThresh,  \* RECORDTHRESH
  NEvent,        \* NEVENT
  ReadCost,      \* cycles of one turn of callibrate's loop
  TickCosts,     \* cycles a timer interrupt may take
  Sleep,         \* cycles that pass while mhz_full sleeps
  MaxTicks       \* bound: interrupts between two looks at the tick count

ASSUME ClockAssumption ==
  /\ WordMod \in Nat /\ WordMod > 1
  /\ Threshold \in Nat \ {0} /\ RecordThresh \in Nat
  /\ NEvent \in Nat /\ ReadCost \in Nat \ {0}
  /\ Sleep \in 0..WordMod * WordMod - 1
  /\ TickCosts \subseteq Nat /\ MaxTicks \in Nat \ {0}

VARIABLES
  now,        \* the processor's cycle counter
  cyc,        \* [hi, lo]: cyc_hi and cyc_lo, stored by start_counter
  ticks,      \* user ticks since they were last stored (oldc, start_tick)
  gap,        \* newt - oldt of callibrate
  events,     \* e of callibrate
  cycPerTick  \* cyc_per_tick

clock == <<now, cyc, ticks, gap, events, cycPerTick>>

ClockType ==
  /\ now \in 0..WordMod * WordMod - 1
  /\ cyc \in [hi : 0..WordMod - 1, lo : 0..WordMod - 1]
  /\ ticks \in 0..MaxTicks
  /\ gap \in Nat /\ events \in 0..NEvent
  /\ cycPerTick \in Nat

AccessCounter(n) == [hi |-> n \div WordMod, lo |-> n % WordMod]

(* mutant: the borrow of the low word is forgotten *)
GetCounterNoBorrow(n) ==
  ((AccessCounter(n).hi - cyc.hi) % WordMod) * WordMod
    + ((AccessCounter(n).lo - cyc.lo) % WordMod)

(* the cycles since start_counter, by words; n is the counter now *)
GetCounter(n) ==
  LET new    == AccessCounter(n)
      lo     == (new.lo - cyc.lo) % WordMod
      borrow == IF lo > new.lo THEN 1 ELSE 0
      hi     == (new.hi - cyc.hi - borrow) % WordMod
  IN hi * WordMod + lo

GetCompCounter(n, t) == GetCounter(n) - t * cycPerTick

After(d) == (now + d) % (WordMod * WordMod)

StartCounter == cyc' = AccessCounter(now)

(* the rate that mhz_full finds only scales what fsecs reports *)
MhzFull ==
  /\ StartCounter
  /\ now' = After(Sleep)
  /\ UNCHANGED <<ticks, gap, events, cycPerTick>>

InitClock ==
  /\ now = 0
  /\ cyc = [hi |-> 0, lo |-> 0]
  /\ ticks = 0 /\ gap = 0 /\ events = 0
  /\ cycPerTick = 0

(***************************************************************************)
(* callibrate: the loop ends after NEvent observations of a gap that the   *)
(* tick count explains; the shortest of the long gaps is kept.             *)
(***************************************************************************)
BeginCallibrate ==
  /\ StartCounter
  /\ ticks' = 0 /\ gap' = 0 /\ events' = 0
  /\ UNCHANGED <<now, cycPerTick>>

(* a gap of g cycles with t interrupts in it *)
Observe(g, t) ==
  LET cpt == g \div t
  IN IF (cycPerTick = 0 \/ cycPerTick > cpt) /\ cpt > RecordThresh
     THEN cycPerTick' = cpt
     ELSE UNCHANGED cycPerTick

(* mutant: oldt keeps the time of the first turn *)
CallibrateReadNoReset ==
  LET g == gap + ReadCost
  IN /\ events < NEvent
     /\ now' = After(ReadCost)
     /\ gap' = g
     /\ IF g < Threshold \/ ticks = 0
        THEN UNCHANGED <<ticks, events, cycPerTick>>
        ELSE /\ ticks' = 0
             /\ events' = events + 1
             /\ Observe(g, ticks)
     /\ UNCHANGED cyc

(* mutant: only gaps above the record threshold are counted *)
CallibrateReadOnlyLong ==
  LET g == gap + ReadCost
  IN /\ events < NEvent
     /\ now' = After(ReadCost)
     /\ IF g < Threshold
        THEN gap' = g /\ UNCHANGED <<ticks, events, cycPerTick>>
        ELSE /\ gap' = 0
             /\ IF ticks = 0
                THEN UNCHANGED <<ticks, events, cycPerTick>>
                ELSE /\ ticks' = 0
                     /\ events' = IF g \div ticks > RecordThresh
                                  THEN events + 1 ELSE events
                     /\ Observe(g, ticks)
     /\ UNCHANGED cyc

CallibrateRead ==
  LET g == gap + ReadCost
  IN /\ events < NEvent
     /\ now' = After(ReadCost)
     /\ IF g < Threshold
        THEN gap' = g /\ UNCHANGED <<ticks, events, cycPerTick>>
        ELSE /\ gap' = 0
             /\ IF ticks = 0
                THEN UNCHANGED <<ticks, events, cycPerTick>>
                ELSE /\ ticks' = 0
                     /\ events' = events + 1
                     /\ Observe(g, ticks)
     /\ UNCHANGED cyc

TimerTick ==
  /\ events < NEvent /\ ticks < MaxTicks
  /\ \E c \in TickCosts : now' = After(c) /\ gap' = gap + c
  /\ ticks' = ticks + 1
  /\ UNCHANGED <<cyc, events, cycPerTick>>

(* start_comp_counter after the calibration *)
StartComp ==
  /\ StartCounter
  /\ ticks' = 0
  /\ UNCHANGED <<now, gap, events, cycPerTick>>
=============================================================================
