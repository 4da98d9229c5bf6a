------------------------------ MODULE TickTimer ------------------------------
(***************************************************************************)
(* The machine timer (AHB2TIMER.v) and the code that arms it: init_tick_   *)
(* timer, and the part of tick_interrupt_handler that moves mtimecmp on by *)
(* one tick.  mtime, mtimecmp and ullNextTime are 64 bits wide and the bus *)
(* carries 32, so every access is two, while mtime keeps counting and the  *)
(* interrupt line compares whatever is in the registers.                   *)
(*                                                                         *)
(* One step is a clock, with at most one access of the processor to the    *)
(* timer; Cycle is a clock without one, and may come between any two.      *)
(* Interrupts are masked from reset until the first task is launched and   *)
(* inside the handler.                                                     *)
(***************************************************************************)
EXTENDS Integers

CONSTANTS
  WordMod,     (* 2^32: number of values of a word *)
  Increment,   (* uxTimerIncrementsForOneTick, CPU_CLOCK_HZ / TICK_RATE_HZ *)
  Horizon      (* bound: mtime stops here *)

\* "Assumes increment won't go over 32-bits"; 64 bits do not wrap.
ASSUME TickTimerAssumption ==
  /\ WordMod \in Nat /\ Increment \in 1 .. WordMod - 1
  /\ Horizon \in Nat /\ Horizon + 3 * Increment < WordMod * WordMod

VARIABLES
  mtime,                 (* the counter, as one number *)
  mtimecmp,              (* the compare register, as words *)
  ullNextTime,           (* what the next tick will write there *)
  ulCurrentTimeHigh, ulCurrentTimeLow,   (* locals of init_tick_timer *)
  pc,
  tick_count

driver == <<ullNextTime, ulCurrentTimeHigh, ulCurrentTimeLow, pc, tick_count>>
vars == <<mtime, mtimecmp, driver>>

Word == 0 .. WordMod - 1
Words(n) == [low |-> n % WordMod, high |-> n \div WordMod]
Value(w) == w.high * WordMod + w.low
AllOnes == WordMod - 1

Init ==
  /\ mtime = 0
  /\ mtimecmp = Words(0) /\ ullNextTime = Words(0)
  /\ ulCurrentTimeHigh = 0 /\ ulCurrentTimeLow = 0
  /\ pc = "high" /\ tick_count = 0

-----------------------------------------------------------------------------
(* The timer on the bus.                                                   *)

timer_irq_o == mtime > Value(mtimecmp)

\* What a read of an address returns: the last line of the multiplexer takes
\* the high word of mtimecmp for the high word of mtime.
HRDATA == [mtime_low  |-> Words(mtime).low,
           mtime_high |-> mtimecmp.high]

Tick_mtime == mtime' = IF mtime < Horizon THEN mtime + 1 ELSE mtime

Read == Tick_mtime /\ UNCHANGED mtimecmp
Store(part, w) == Tick_mtime /\ mtimecmp' = [mtimecmp EXCEPT ![part] = w]

GoTo(l) == pc' = l /\ UNCHANGED tick_count

-----------------------------------------------------------------------------
(* init_tick_timer.  The 64-bit store is compiled to the low word first.   *)

ReadHigh ==
  /\ pc = "high" /\ Read
  /\ ulCurrentTimeHigh' = HRDATA.mtime_high
  /\ GoTo("low")
  /\ UNCHANGED <<ullNextTime, ulCurrentTimeLow>>

ReadLow ==
  /\ pc = "low" /\ Read
  /\ ulCurrentTimeLow' = HRDATA.mtime_low
  /\ GoTo("again")
  /\ UNCHANGED <<ullNextTime, ulCurrentTimeHigh>>

ReadHighAgain ==
  /\ pc = "again" /\ Read
  /\ GoTo(IF ulCurrentTimeHigh # HRDATA.mtime_high THEN "high" ELSE "init_low")
  /\ UNCHANGED <<ullNextTime, ulCurrentTimeHigh, ulCurrentTimeLow>>

FirstDeadline ==
  Value([low |-> ulCurrentTimeLow, high |-> ulCurrentTimeHigh]) + Increment

InitLow ==
  /\ pc = "init_low"
  /\ Store("low", Words(FirstDeadline).low)
  /\ GoTo("init_high")
  /\ UNCHANGED <<ullNextTime, ulCurrentTimeHigh, ulCurrentTimeLow>>

InitHigh ==
  /\ pc = "init_high"
  /\ Store("high", Words(FirstDeadline).high)
  /\ ullNextTime' = Words(FirstDeadline + Increment)
  /\ GoTo("run")
  /\ UNCHANGED <<ulCurrentTimeHigh, ulCurrentTimeLow>>

-----------------------------------------------------------------------------
(* tick_interrupt_handler: park the low word, write high, write low.       *)

Interrupt ==
  /\ pc = "run" /\ timer_irq_o
  /\ pc' = "park" /\ tick_count' = tick_count + 1
  /\ Read
  /\ UNCHANGED <<ullNextTime, ulCurrentTimeHigh, ulCurrentTimeLow>>

ParkLow_Wrong == pc = "park" /\ Read /\ GoTo("cmp_high")
ParkLow == pc = "park" /\ Store("low", AllOnes) /\ GoTo("cmp_high")

WriteHigh_Wrong == pc = "cmp_high" /\ Read /\ GoTo("cmp_low")
WriteHigh == pc = "cmp_high" /\ Store("high", ullNextTime.high) /\ GoTo("cmp_low")

\* ullNextTime += increment, with the carry worked out by hand.
Advanced_Wrong(w) == [low |-> (w.low + Increment) % WordMod, high |-> w.high]
Advanced_Twice_Wrong(w) == Words(Value(w) + 2 * Increment)
Advanced(w) ==
  LET new_low == (w.low + Increment) % WordMod
      carry == IF new_low < w.low THEN 1 ELSE 0
  IN [low |-> new_low, high |-> (w.high + carry) % WordMod]

WriteLow ==
  /\ pc = "cmp_low"
  /\ Store("low", ullNextTime.low)
  /\ ullNextTime' = Advanced(ullNextTime)
  /\ GoTo("run")

Update ==
  /\ \/ (ParkLow \/ WriteHigh) /\ UNCHANGED ullNextTime
     \/ WriteLow
  /\ UNCHANGED <<ulCurrentTimeHigh, ulCurrentTimeLow>>

Cycle == Read /\ UNCHANGED driver

Driver ==
  ReadHigh \/ ReadLow \/ ReadHighAgain \/ InitLow \/ InitHigh \/ Interrupt \/ Update

Next == Driver \/ Cycle

\* The processor keeps executing, and the clock runs.
Spec == Init /\ [][Next]_vars /\ WF_vars(Driver) /\ WF_vars(Cycle)

-----------------------------------------------------------------------------
\* Deadlines stay on the grid that init_tick_timer laid out, however late the
\* handler runs: the hand-made carry and the order of the stores lose nothing.
DeadlinesOnGrid ==
  pc = "run" =>
    /\ Value(mtimecmp) = FirstDeadline + tick_count * Increment
    /\ Value(ullNextTime) = FirstDeadline + (tick_count + 1) * Increment

\* A tick is counted when its deadline has passed, never before.
NoEarlyTick ==
  tick_count > 0 => mtime > FirstDeadline + (tick_count - 1) * Increment

\* Between the stores of the high and of the low word, the line is raised
\* only if the new deadline has passed already.
NoGlitch == pc = "cmp_low" /\ timer_irq_o => mtime > Value(ullNextTime)

\* When init_tick_timer reads the high word of mtime it gets that word.
ReadsMtime ==
  pc \in {"high", "again"} => HRDATA.mtime_high = Words(mtime).high

\* Every deadline that passes is counted, also when several pass before the
\* handler runs.
EveryTickCounted ==
  \A n \in 1 .. Horizon \div Increment :
    pc = "run" /\ mtime > FirstDeadline + (n - 1) * Increment
      ~> tick_count >= n
==============================================================================
