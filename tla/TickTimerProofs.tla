--------------------------- MODULE TickTimerProofs ---------------------------
(***************************************************************************)
(* The three safety properties of TickTimer, for every width of a word,    *)
(* every increment below it and every horizon that 64 bits can count to.   *)
(***************************************************************************)
EXTENDS TickTimer, TLAPS

Pair == [low : Word, high : Word]

(***************************************************************************)
(* The arithmetic of two-word numbers.                                     *)
(***************************************************************************)

\* What the assumption on the constants says, in the terms the leaves use.
LEMMA ConstantsOK ==
  /\ WordMod \in Nat /\ WordMod > 1
  /\ Increment \in Nat /\ Increment > 0 /\ Increment < WordMod
  /\ Horizon \in Nat /\ Horizon + 3 * Increment < WordMod * WordMod
BY TickTimerAssumption

\* Quotient and remainder by the size of a word.
LEMMA DivMod ==
  ASSUME NEW n \in Nat
  PROVE  /\ n % WordMod \in Nat /\ n % WordMod < WordMod
         /\ n \div WordMod \in Nat
         /\ n = (n \div WordMod) * WordMod + (n % WordMod)
BY ConstantsOK, SMT

LEMMA ModSmall ==
  ASSUME NEW n \in Nat, n < WordMod
  PROVE  n % WordMod = n
BY ConstantsOK, SMT

LEMMA ModOnce ==
  ASSUME NEW n \in Nat, n >= WordMod, n < 2 * WordMod
  PROVE  n % WordMod = n - WordMod
BY ConstantsOK, SMT

\* A pair of words denotes a number below WordMod^2 ...
LEMMA ValueType ==
  ASSUME NEW w \in Pair
  PROVE  Value(w) \in Nat /\ Value(w) < WordMod * WordMod
<1>1. w.low \in Nat /\ w.low < WordMod /\ w.high \in Nat /\ w.high <= WordMod - 1
  BY ConstantsOK DEF Pair, Word
<1>2. w.high * WordMod <= (WordMod - 1) * WordMod
  BY <1>1, ConstantsOK
<1>3. (WordMod - 1) * WordMod = WordMod * WordMod - WordMod
  BY ConstantsOK
<1>4. w.high * WordMod \in Nat
  BY <1>1, ConstantsOK
<1> QED
  BY <1>1, <1>2, <1>3, <1>4, ConstantsOK DEF Value

\* ... and every such number is denoted by its pair of words.
LEMMA WordsValue ==
  ASSUME NEW n \in Nat, n < WordMod * WordMod
  PROVE  Words(n) \in Pair /\ Value(Words(n)) = n
<1> DEFINE q == n \div WordMod
           r == n % WordMod
<1>1. r \in Nat /\ r < WordMod /\ q \in Nat /\ n = q * WordMod + r
  BY DivMod
<1>2. q < WordMod
  <2> SUFFICES ASSUME q >= WordMod PROVE FALSE
    BY <1>1, ConstantsOK
  <2>1. q * WordMod >= WordMod * WordMod
    BY <1>1, ConstantsOK
  <2> HIDE DEF q, r
  <2> QED
    BY <1>1, <2>1, ConstantsOK
<1>3. Words(n) = [low |-> r, high |-> q]
  BY DEF Words
<1> HIDE DEF q, r
<1> QED
  BY <1>1, <1>2, <1>3, ConstantsOK DEF Pair, Word, Value

(***************************************************************************)
(* The carry of tick_interrupt_handler is right: as long as 64 bits hold   *)
(* the sum, the pair it leaves is the sum.                                 *)
(***************************************************************************)
THEOREM CarryExact ==
  ASSUME NEW w \in Pair, Value(w) + Increment < WordMod * WordMod
  PROVE  Advanced(w) \in Pair /\ Value(Advanced(w)) = Value(w) + Increment
<1> DEFINE l == w.low
           h == w.high
           sum == (l + Increment) % WordMod
<1>1. l \in Nat /\ l < WordMod /\ h \in Nat /\ h < WordMod
  BY ConstantsOK DEF Pair, Word
<1>2. Value(w) = h * WordMod + l
  BY DEF Value
<1>3. Advanced(w) = [low |-> sum, high |-> (h + (IF sum < l THEN 1 ELSE 0)) % WordMod]
  BY DEF Advanced
<1>4. CASE l + Increment < WordMod
  <2>1. sum = l + Increment
    BY <1>1, <1>4, ModSmall, ConstantsOK
  <2>2. ~ (sum < l)
    BY <1>1, <2>1, ConstantsOK
  <2>3. (h + 0) % WordMod = h
    BY <1>1, ModSmall, ConstantsOK
  <2>4. Advanced(w) = [low |-> l + Increment, high |-> h]
    BY <1>3, <2>1, <2>2, <2>3
  <2> HIDE DEF l, h, sum
  <2> QED
    BY <1>1, <1>2, <1>4, <2>4, ConstantsOK DEF Pair, Word, Value
<1>5. CASE l + Increment >= WordMod
  <2>1. sum = l + Increment - WordMod
    BY <1>1, <1>5, ModOnce, ConstantsOK
  <2>2. sum < l
    BY <1>1, <2>1, ConstantsOK
  <2>3. h + 1 < WordMod
    <3> SUFFICES ASSUME h = WordMod - 1 PROVE FALSE
      BY <1>1, ConstantsOK
    <3>1. h * WordMod = WordMod * WordMod - WordMod
      BY <1>1, ConstantsOK
    <3> HIDE DEF l, h, sum
    <3> QED
      BY <1>1, <1>2, <1>5, <3>1, ConstantsOK
  <2>4. (h + 1) % WordMod = h + 1
    BY <1>1, <2>3, ModSmall, ConstantsOK
  <2>5. Advanced(w) = [low |-> l + Increment - WordMod, high |-> h + 1]
    BY <1>3, <2>1, <2>2, <2>4
  <2>6. (h + 1) * WordMod = h * WordMod + WordMod
    BY <1>1, ConstantsOK
  <2> HIDE DEF l, h, sum
  <2>7. Value(Advanced(w)) = (h + 1) * WordMod + (l + Increment - WordMod)
    BY <2>5 DEF Value
  <2>8. l + Increment - WordMod \in 0 .. WordMod - 1
    BY <1>1, <1>5, ConstantsOK
  <2>9. h + 1 \in 0 .. WordMod - 1
    BY <1>1, <2>3, ConstantsOK
  <2>10. Advanced(w) \in Pair
    BY <2>5, <2>8, <2>9 DEF Pair, Word
  <2> QED
    BY <1>1, <1>2, <2>6, <2>7, <2>10, ConstantsOK
<1> QED
  BY <1>1, <1>4, <1>5, ConstantsOK

-----------------------------------------------------------------------------
(***************************************************************************)
(* The inductive invariant.  Deadline(n) is the n-th time on the grid.     *)
(***************************************************************************)
Deadline(n) == FirstDeadline + n * Increment

Initialising == {"high", "low", "again", "init_low", "init_high"}
Updating == {"park", "cmp_high", "cmp_low"}

TypeOK ==
  /\ mtime \in 0 .. Horizon
  /\ mtimecmp \in Pair /\ ullNextTime \in Pair
  /\ ulCurrentTimeHigh \in Word /\ ulCurrentTimeLow \in Word
  /\ pc \in Initialising \cup {"run"} \cup Updating
  /\ tick_count \in Nat

\* The high word of mtimecmp, which is read for the one of mtime, is zero
\* until init_tick_timer has stored it: the loop over it ends at once, and the
\* first deadline may lie before mtime but not more than a tick after it.
InitialisingOK ==
  /\ ulCurrentTimeHigh = 0 /\ ulCurrentTimeLow <= mtime
  /\ pc \in Initialising => mtimecmp.high = 0 /\ tick_count = 0
  /\ pc = "init_high" => mtimecmp.low = Words(FirstDeadline).low

\* Inside the handler ullNextTime is the deadline it is about to write, and the
\* compare register is parked at or beyond it once its high word is new.
UpdatingOK ==
  /\ pc \in Updating => tick_count > 0 /\ Value(ullNextTime) = Deadline(tick_count)
  /\ pc \in {"cmp_high", "cmp_low"} => mtimecmp.low = AllOnes
  /\ pc = "cmp_low" => mtimecmp.high = ullNextTime.high

IndInv ==
  /\ TypeOK /\ InitialisingOK /\ UpdatingOK
  /\ DeadlinesOnGrid
  /\ NoEarlyTick

-----------------------------------------------------------------------------
\* The next deadline is one increment after a deadline.
LEMMA DeadlineStep ==
  ASSUME NEW n \in Nat, TypeOK
  PROVE  /\ FirstDeadline \in Nat /\ Deadline(n) \in Nat
         /\ Deadline(0) = FirstDeadline
         /\ Deadline(n + 1) = Deadline(n) + Increment
         /\ n > 0 => n - 1 \in Nat /\ Deadline(n) = Deadline(n - 1) + Increment
<1>1. [low |-> ulCurrentTimeLow, high |-> ulCurrentTimeHigh] \in Pair
  BY DEF TypeOK, Pair
<1>2. FirstDeadline \in Nat
  BY <1>1, ValueType, ConstantsOK DEF FirstDeadline
<1>3. /\ n * Increment \in Nat /\ 0 * Increment = 0
      /\ (n + 1) * Increment = n * Increment + Increment
      /\ n * Increment = (n - 1) * Increment + Increment
  BY ConstantsOK
<1>4. n > 0 => n - 1 \in Nat /\ (n - 1) * Increment \in Nat
  BY ConstantsOK
<1> QED
  BY <1>2, <1>3, <1>4, ConstantsOK DEF Deadline

(***************************************************************************)
(* Every deadline that can be written fits into 64 bits: a deadline counts *)
(* as passed before the next but one is computed.                          *)
(***************************************************************************)
LEMMA DeadlinesFit ==
  ASSUME IndInv
  PROVE  Deadline(tick_count) + 2 * Increment < WordMod * WordMod
<1> USE DEF IndInv
<1>1. /\ tick_count \in Nat /\ mtime \in Nat /\ mtime <= Horizon
      /\ ulCurrentTimeLow \in Nat
  BY ConstantsOK DEF TypeOK, Word
<1>2. FirstDeadline = ulCurrentTimeLow + Increment
  BY <1>1, ConstantsOK DEF InitialisingOK, FirstDeadline, Value
<1>3. CASE tick_count = 0
  BY <1>1, <1>2, <1>3, DeadlineStep, ConstantsOK DEF InitialisingOK
<1>4. CASE tick_count > 0
  <2>1. mtime > Deadline(tick_count - 1)
    BY <1>4 DEF NoEarlyTick, Deadline
  <2>2. Deadline(tick_count) = Deadline(tick_count - 1) + Increment
        /\ Deadline(tick_count) \in Nat
    BY <1>1, <1>4, DeadlineStep
  <2>3. Deadline(tick_count - 1) \in Nat
    BY <1>1, <1>4, DeadlineStep
  <2> QED
    BY <1>1, <2>1, <2>2, <2>3, ConstantsOK
<1> QED
  BY <1>1, <1>3, <1>4

LEMMA InitIndInv == Init => IndInv
<1> SUFFICES ASSUME Init PROVE IndInv
  OBVIOUS
<1>1. 0 \in Nat /\ 0 < WordMod * WordMod
  BY ConstantsOK
<1>2. Words(0) \in Pair /\ Value(Words(0)) = 0
  BY <1>1, WordsValue
<1>3. Words(0).high = 0
  <2>1. 0 = (0 \div WordMod) * WordMod + (0 % WordMod)
        /\ (0 \div WordMod) \in Nat /\ 0 % WordMod = 0
    BY DivMod, ModSmall, ConstantsOK
  <2> DEFINE q == 0 \div WordMod
  <2>2. q * WordMod = 0 /\ q \in Nat
    BY <2>1, ConstantsOK
  <2> HIDE DEF q
  <2>3. q = 0
    BY <2>2, ConstantsOK
  <2> QED
    BY <2>3 DEF Words, q
<1>4. TypeOK
  BY <1>2, ConstantsOK DEF Init, TypeOK, Word, Initialising
<1>5. InitialisingOK
  BY <1>3, ConstantsOK DEF Init, InitialisingOK
<1> QED
  BY <1>4, <1>5 DEF IndInv, Init, UpdatingOK, Updating, DeadlinesOnGrid, NoEarlyTick

-----------------------------------------------------------------------------
(* One lemma for each action.                                              *)

LEMMA Clock ==
  ASSUME TypeOK, Tick_mtime
  PROVE  mtime' \in 0 .. Horizon /\ mtime' >= mtime
BY ConstantsOK DEF TypeOK, Tick_mtime

\* What does not read mtime is untouched by a clock without an access.
LEMMA CycleInv == IndInv /\ Cycle => IndInv'
<1> SUFFICES ASSUME IndInv, Cycle PROVE IndInv'
  OBVIOUS
<1>1. mtime' \in 0 .. Horizon /\ mtime' >= mtime
  BY Clock DEF Cycle, Read, IndInv
<1>2. UNCHANGED <<mtimecmp, ullNextTime, ulCurrentTimeHigh, ulCurrentTimeLow,
                  pc, tick_count>>
  BY DEF Cycle, Read, driver
<1>3. TypeOK'
  BY <1>1, <1>2 DEF IndInv, TypeOK
<1>4. FirstDeadline' = FirstDeadline /\ \A n : Deadline(n)' = Deadline(n)
  BY <1>2 DEF FirstDeadline, Value, Deadline
<1>5. InitialisingOK'
  <2>1. ulCurrentTimeLow \in Nat /\ mtime \in Nat /\ mtime' \in Nat
    BY <1>1, ConstantsOK DEF IndInv, TypeOK, Word
  <2> QED
    BY <1>1, <1>2, <1>4, <2>1 DEF IndInv, InitialisingOK, Words
<1>6. UpdatingOK'
  BY <1>2, <1>4 DEF IndInv, UpdatingOK, Value
<1>7. DeadlinesOnGrid'
  BY <1>2, <1>4 DEF IndInv, DeadlinesOnGrid, Value
<1>8. NoEarlyTick'
  <2>1. tick_count > 0 =>
          Deadline(tick_count - 1) \in Nat /\ mtime > Deadline(tick_count - 1)
    BY DeadlineStep DEF IndInv, NoEarlyTick, Deadline, TypeOK
  <2>2. mtime \in Nat /\ mtime' \in Nat
    BY <1>1, ConstantsOK DEF IndInv, TypeOK
  <2>3. tick_count > 0 => mtime' > Deadline(tick_count - 1)
    BY <1>1, <2>1, <2>2
  <2> QED
    BY <1>2, <1>4, <2>3 DEF NoEarlyTick, Deadline
<1> QED
  BY <1>3, <1>5, <1>6, <1>7, <1>8 DEF IndInv

\* The reads find the high word of mtimecmp, which is zero.
LEMMA ReadsInv == IndInv /\ (ReadHigh \/ ReadLow \/ ReadHighAgain) => IndInv'
<1> SUFFICES ASSUME IndInv, ReadHigh \/ ReadLow \/ ReadHighAgain PROVE IndInv'
  OBVIOUS
<1>1. mtime' \in 0 .. Horizon /\ mtime' >= mtime
  BY Clock DEF ReadHigh, ReadLow, ReadHighAgain, Read, IndInv
<1>2. UNCHANGED <<mtimecmp, ullNextTime, tick_count>>
  BY DEF ReadHigh, ReadLow, ReadHighAgain, Read, GoTo
<1>3. pc \in {"high", "low", "again"} /\ pc' \in {"high", "low", "again", "init_low"}
  BY DEF ReadHigh, ReadLow, ReadHighAgain, GoTo
<1>4. mtimecmp.high = 0 /\ tick_count = 0 /\ ulCurrentTimeHigh = 0
  BY <1>3 DEF IndInv, InitialisingOK, Initialising
<1>5. ulCurrentTimeHigh' = 0
  BY <1>4 DEF ReadHigh, ReadLow, ReadHighAgain, HRDATA
<1>6. ulCurrentTimeLow' \in Word /\ ulCurrentTimeLow' <= mtime'
  <2>1. mtime \in Nat /\ mtime' \in Nat /\ ulCurrentTimeLow \in Word
        /\ ulCurrentTimeLow <= mtime
    BY <1>1, ConstantsOK DEF IndInv, TypeOK, InitialisingOK
  <2>2. /\ mtime % WordMod \in Nat /\ mtime % WordMod < WordMod
        /\ mtime \div WordMod \in Nat
        /\ mtime = (mtime \div WordMod) * WordMod + (mtime % WordMod)
    BY <2>1, DivMod
  <2>3. (mtime \div WordMod) * WordMod \in Nat
    BY <2>2, ConstantsOK
  <2>4. mtime % WordMod <= mtime
    BY <2>1, <2>2, <2>3
  <2>5. ulCurrentTimeLow' \in {ulCurrentTimeLow, mtime % WordMod}
    BY DEF ReadHigh, ReadLow, ReadHighAgain, HRDATA, Words
  <2> QED
    BY <1>1, <2>1, <2>2, <2>4, <2>5, ConstantsOK DEF Word
<1>7. TypeOK'
  <2>1. 0 \in Word
    BY ConstantsOK DEF Word
  <2> QED
    BY <1>1, <1>2, <1>3, <1>5, <1>6, <2>1 DEF IndInv, TypeOK, Initialising
<1>8. InitialisingOK'
  BY <1>2, <1>3, <1>4, <1>5, <1>6 DEF InitialisingOK
<1>9. UpdatingOK' /\ DeadlinesOnGrid' /\ NoEarlyTick'
  BY <1>2, <1>3, <1>4 DEF UpdatingOK, Updating, DeadlinesOnGrid, NoEarlyTick
<1> QED
  BY <1>7, <1>8, <1>9 DEF IndInv

\* The two stores of init_tick_timer leave the first deadline in mtimecmp and
\* the second one in ullNextTime.
LEMMA InitStoresInv == IndInv /\ (InitLow \/ InitHigh) => IndInv'
<1> SUFFICES ASSUME IndInv, InitLow \/ InitHigh PROVE IndInv'
  OBVIOUS
<1>1. mtime' \in 0 .. Horizon /\ mtime' >= mtime
  BY Clock DEF InitLow, InitHigh, Store, IndInv
<1>2. UNCHANGED <<ulCurrentTimeHigh, ulCurrentTimeLow, tick_count>>
  BY DEF InitLow, InitHigh, GoTo
<1>3. FirstDeadline' = FirstDeadline
  BY <1>2 DEF FirstDeadline, Value
<1>4. tick_count = 0 /\ mtimecmp.high = 0 /\ mtimecmp \in Pair
  BY DEF IndInv, TypeOK, InitialisingOK, Initialising, InitLow, InitHigh
<1>5. /\ FirstDeadline \in Nat
      /\ Deadline(0) = FirstDeadline /\ Deadline(1) = FirstDeadline + Increment
      /\ FirstDeadline + 2 * Increment < WordMod * WordMod
  <2>1. 0 \in Nat /\ 0 + 1 = 1
    OBVIOUS
  <2>2. /\ FirstDeadline \in Nat /\ Deadline(0) = FirstDeadline
        /\ Deadline(0 + 1) = Deadline(0) + Increment
    BY <2>1, DeadlineStep DEF IndInv
  <2>3. Deadline(tick_count) + 2 * Increment < WordMod * WordMod
    BY DeadlinesFit
  <2> QED
    BY <1>4, <2>1, <2>2, <2>3
<1>6. /\ Words(FirstDeadline) \in Pair /\ Value(Words(FirstDeadline)) = FirstDeadline
      /\ Words(FirstDeadline + Increment) \in Pair
      /\ Value(Words(FirstDeadline + Increment)) = FirstDeadline + Increment
  BY <1>5, WordsValue, ConstantsOK
<1>7. ulCurrentTimeHigh' = 0 /\ ulCurrentTimeLow' <= mtime'
  <2>1. ulCurrentTimeLow \in Nat /\ mtime \in Nat /\ mtime' \in Nat
    BY <1>1, ConstantsOK DEF IndInv, TypeOK, Word
  <2> QED
    BY <1>1, <1>2, <2>1 DEF IndInv, InitialisingOK
<1>8. CASE InitLow
  <2>1. /\ mtimecmp' = [mtimecmp EXCEPT !.low = Words(FirstDeadline).low]
        /\ ullNextTime' = ullNextTime /\ pc' = "init_high"
    BY <1>8 DEF InitLow, Store, GoTo
  <2>2. mtimecmp' \in Pair /\ mtimecmp'.low = Words(FirstDeadline).low
        /\ mtimecmp'.high = 0
    BY <1>4, <1>6, <2>1 DEF Pair
  <2>3. TypeOK'
    BY <1>1, <1>2, <2>1, <2>2 DEF IndInv, TypeOK, Initialising
  <2>4. InitialisingOK'
    BY <1>2, <1>3, <1>4, <1>7, <2>2 DEF InitialisingOK, Words
  <2> QED
    BY <1>2, <1>4, <2>1, <2>3, <2>4
    DEF IndInv, UpdatingOK, Updating, DeadlinesOnGrid, NoEarlyTick
<1>9. CASE InitHigh
  <2>1. /\ mtimecmp' = [mtimecmp EXCEPT !.high = Words(FirstDeadline).high]
        /\ ullNextTime' = Words(FirstDeadline + Increment) /\ pc' = "run"
    BY <1>9 DEF InitHigh, Store, GoTo
  <2>2. mtimecmp.low = Words(FirstDeadline).low
    BY <1>9 DEF IndInv, InitialisingOK, InitHigh
  <2>3. mtimecmp' \in Pair /\ mtimecmp'.low = Words(FirstDeadline).low
        /\ mtimecmp'.high = Words(FirstDeadline).high
    BY <1>4, <1>6, <2>1, <2>2 DEF Pair
  <2>4. Value(mtimecmp') = FirstDeadline
    BY <1>6, <2>3 DEF Value
  <2>5. TypeOK'
    BY <1>1, <1>2, <1>6, <2>1, <2>3 DEF IndInv, TypeOK
  <2>6. InitialisingOK'
    BY <1>7, <2>1 DEF InitialisingOK, Initialising
  <2>7. DeadlinesOnGrid'
    <3>1. Deadline(0) = FirstDeadline + 0 * Increment
          /\ Deadline(1) = FirstDeadline + (0 + 1) * Increment
      BY DEF Deadline
    <3>2. Value(ullNextTime') = FirstDeadline + Increment
      BY <1>6, <2>1
    <3>3. Value(mtimecmp)' = Value(mtimecmp') /\ Value(ullNextTime)' = Value(ullNextTime')
      BY DEF Value
    <3> QED
      BY <1>2, <1>3, <1>4, <1>5, <2>4, <3>1, <3>2, <3>3 DEF DeadlinesOnGrid
  <2> QED
    BY <1>2, <1>4, <2>1, <2>5, <2>6, <2>7
    DEF IndInv, UpdatingOK, Updating, NoEarlyTick
<1> QED
  BY <1>8, <1>9

\* A tick is counted when the deadline in mtimecmp has passed.
LEMMA InterruptInv == IndInv /\ Interrupt => IndInv'
<1> SUFFICES ASSUME IndInv, Interrupt PROVE IndInv'
  OBVIOUS
<1>1. mtime' \in 0 .. Horizon /\ mtime' >= mtime
  BY Clock DEF Interrupt, Read, IndInv
<1>2. /\ UNCHANGED <<mtimecmp, ullNextTime, ulCurrentTimeHigh, ulCurrentTimeLow>>
      /\ pc = "run" /\ pc' = "park" /\ tick_count' = tick_count + 1
  BY DEF Interrupt, Read
<1>3. FirstDeadline' = FirstDeadline
  BY <1>2 DEF FirstDeadline, Value
<1>4. /\ tick_count \in Nat /\ mtime \in Nat /\ mtime' \in Nat
      /\ ulCurrentTimeLow \in Nat /\ ulCurrentTimeLow <= mtime
  BY <1>1, ConstantsOK DEF IndInv, TypeOK, Word, InitialisingOK
<1>5. mtime > Deadline(tick_count) /\ Value(ullNextTime) = Deadline(tick_count + 1)
  BY <1>2 DEF Interrupt, timer_irq_o, IndInv, DeadlinesOnGrid, Deadline
<1>6. Deadline(tick_count) \in Nat /\ tick_count + 1 - 1 = tick_count
      /\ tick_count + 1 \in Nat /\ tick_count + 1 > 0
  BY <1>4, DeadlineStep DEF IndInv
<1>7. TypeOK'
  BY <1>1, <1>2, <1>6 DEF IndInv, TypeOK, Updating
<1>8. InitialisingOK'
  <2>1. ulCurrentTimeLow' <= mtime'
    BY <1>1, <1>2, <1>4
  <2> QED
    BY <1>2, <2>1 DEF IndInv, InitialisingOK, Initialising
<1>9. UpdatingOK'
  <2>1. Value(ullNextTime)' = Deadline(tick_count)'
    BY <1>2, <1>3, <1>5 DEF Value, Deadline
  <2> QED
    BY <1>2, <1>6, <2>1 DEF UpdatingOK, Updating
<1>10. NoEarlyTick'
  <2>1. mtime' > Deadline(tick_count)
    BY <1>1, <1>4, <1>5, <1>6
  <2>2. tick_count' - 1 = tick_count
    BY <1>2, <1>4
  <2>3. Deadline(tick_count) = FirstDeadline' + (tick_count' - 1) * Increment
    BY <1>3, <2>2 DEF Deadline
  <2> QED
    BY <2>1, <2>3 DEF NoEarlyTick
<1> QED
  BY <1>2, <1>7, <1>8, <1>9, <1>10 DEF IndInv, DeadlinesOnGrid

\* The three stores move mtimecmp from one deadline to the next.
LEMMA UpdateInv == IndInv /\ Update => IndInv'
<1> SUFFICES ASSUME IndInv, Update PROVE IndInv'
  OBVIOUS
<1>1. mtime' \in 0 .. Horizon /\ mtime' >= mtime
  BY Clock DEF Update, ParkLow, WriteHigh, WriteLow, Store, IndInv
<1>2. UNCHANGED <<ulCurrentTimeHigh, ulCurrentTimeLow, tick_count>>
  BY DEF Update, ParkLow, WriteHigh, WriteLow, GoTo
<1>3. FirstDeadline' = FirstDeadline
  BY <1>2 DEF FirstDeadline, Value
<1>4. /\ tick_count \in Nat /\ mtime \in Nat /\ mtime' \in Nat
      /\ ulCurrentTimeLow \in Nat /\ ulCurrentTimeLow <= mtime
  BY <1>1, ConstantsOK DEF IndInv, TypeOK, Word, InitialisingOK
<1>5. /\ pc \in Updating /\ mtimecmp \in Pair /\ ullNextTime \in Pair
      /\ tick_count > 0 /\ Value(ullNextTime) = Deadline(tick_count)
  BY DEF Update, ParkLow, WriteHigh, WriteLow, Updating, IndInv, UpdatingOK, TypeOK
<1>7. ulCurrentTimeHigh' = 0 /\ ulCurrentTimeLow' <= mtime'
  BY <1>1, <1>2, <1>4 DEF IndInv, InitialisingOK
<1>8. NoEarlyTick'
  <2>1. mtime > Deadline(tick_count - 1)
    BY <1>5 DEF IndInv, NoEarlyTick, Deadline
  <2>2. Deadline(tick_count - 1) \in Nat
    BY <1>4, <1>5, DeadlineStep DEF IndInv
  <2>3. mtime' > Deadline(tick_count - 1)
    BY <1>1, <1>4, <2>1, <2>2
  <2> QED
    BY <1>2, <1>3, <2>3 DEF NoEarlyTick, Deadline
<1>9. CASE ParkLow /\ UNCHANGED ullNextTime
  <2>1. /\ mtimecmp' = [mtimecmp EXCEPT !.low = AllOnes]
        /\ pc' = "cmp_high"
    BY <1>9 DEF ParkLow, Store, GoTo
  <2>2. AllOnes \in Word
    BY ConstantsOK DEF AllOnes, Word
  <2>3. mtimecmp' \in Pair /\ mtimecmp'.low = AllOnes
    BY <1>5, <2>1, <2>2 DEF Pair
  <2>4. TypeOK'
    BY <1>1, <1>2, <1>9, <2>1, <2>3 DEF IndInv, TypeOK, Updating
  <2>5. UpdatingOK'
    BY <1>2, <1>3, <1>5, <1>9, <2>1, <2>3
    DEF UpdatingOK, Value, Deadline, AllOnes
  <2> QED
    BY <1>7, <1>8, <2>1, <2>4, <2>5
    DEF IndInv, InitialisingOK, Initialising, DeadlinesOnGrid
<1>10. CASE WriteHigh /\ UNCHANGED ullNextTime
  <2>1. /\ mtimecmp' = [mtimecmp EXCEPT !.high = ullNextTime.high]
        /\ pc = "cmp_high" /\ pc' = "cmp_low"
    BY <1>10 DEF WriteHigh, Store, GoTo
  <2>2. mtimecmp.low = AllOnes
    BY <2>1 DEF IndInv, UpdatingOK
  <2>3. mtimecmp' \in Pair /\ mtimecmp'.low = AllOnes
        /\ mtimecmp'.high = ullNextTime.high
    BY <1>5, <2>1, <2>2 DEF Pair
  <2>4. TypeOK'
    BY <1>1, <1>2, <1>10, <2>1, <2>3 DEF IndInv, TypeOK, Updating
  <2>5. UpdatingOK'
    BY <1>2, <1>3, <1>5, <1>10, <2>1, <2>3
    DEF UpdatingOK, Value, Deadline, AllOnes
  <2> QED
    BY <1>7, <1>8, <2>1, <2>4, <2>5
    DEF IndInv, InitialisingOK, Initialising, DeadlinesOnGrid
<1>11. CASE WriteLow
  <2>1. /\ mtimecmp' = [mtimecmp EXCEPT !.low = ullNextTime.low]
        /\ ullNextTime' = Advanced(ullNextTime)
        /\ pc = "cmp_low" /\ pc' = "run"
    BY <1>11 DEF WriteLow, Store, GoTo
  <2>2. mtimecmp.high = ullNextTime.high
    BY <2>1 DEF IndInv, UpdatingOK
  <2>3. mtimecmp' \in Pair /\ mtimecmp'.low = ullNextTime.low
        /\ mtimecmp'.high = ullNextTime.high
    BY <1>5, <2>1, <2>2 DEF Pair
  <2>4. Deadline(tick_count) \in Nat
        /\ Deadline(tick_count + 1) = Deadline(tick_count) + Increment
    BY <1>4, DeadlineStep DEF IndInv
  <2>5. Value(ullNextTime) + Increment < WordMod * WordMod
    BY <1>5, <2>4, DeadlinesFit, ConstantsOK
  <2>6. ullNextTime' \in Pair
        /\ Value(ullNextTime') = Value(ullNextTime) + Increment
    BY <1>5, <2>1, <2>5, CarryExact
  <2>7. TypeOK'
    BY <1>1, <1>2, <2>1, <2>3, <2>6 DEF IndInv, TypeOK
  <2>8. DeadlinesOnGrid'
    <3>1. Value(mtimecmp') = Deadline(tick_count)
      BY <1>5, <2>3 DEF Value
    <3>2. Value(ullNextTime') = Deadline(tick_count + 1)
      BY <1>5, <2>4, <2>6
    <3>3. Value(mtimecmp)' = Value(mtimecmp') /\ Value(ullNextTime)' = Value(ullNextTime')
      BY DEF Value
    <3> QED
      BY <1>2, <1>3, <3>1, <3>2, <3>3 DEF DeadlinesOnGrid, Deadline
  <2> QED
    BY <1>7, <1>8, <2>1, <2>7, <2>8
    DEF IndInv, InitialisingOK, Initialising, UpdatingOK, Updating
<1> QED
  BY <1>9, <1>10, <1>11 DEF Update

LEMMA StepInv == IndInv /\ [Next]_vars => IndInv'
<1> SUFFICES ASSUME IndInv, [Next]_vars PROVE IndInv'
  OBVIOUS
<1>1. CASE UNCHANGED vars
  <2>1. UNCHANGED <<mtime, mtimecmp, ullNextTime, ulCurrentTimeHigh,
                    ulCurrentTimeLow, pc, tick_count>>
    BY <1>1 DEF vars, driver
  <2> QED
    BY <2>1 DEF IndInv, TypeOK, InitialisingOK, UpdatingOK, DeadlinesOnGrid,
                NoEarlyTick, Deadline, FirstDeadline, Value, Words
<1>2. CASE Next
  BY <1>2, CycleInv, ReadsInv, InitStoresInv, InterruptInv, UpdateInv
  DEF Next, Driver
<1> QED
  BY <1>1, <1>2

-----------------------------------------------------------------------------
THEOREM IndInvHolds == Spec => []IndInv
BY InitIndInv, StepInv, PTL DEF Spec

(***************************************************************************)
(* The deadlines stay on the grid that init_tick_timer laid out, for every *)
(* word size and increment: the carry worked out by hand and the order of  *)
(* the three stores lose nothing.                                          *)
(***************************************************************************)
THEOREM GridKept == Spec => []DeadlinesOnGrid
<1>1. IndInv => DeadlinesOnGrid
  BY DEF IndInv
<1> QED
  BY <1>1, IndInvHolds, PTL

(***************************************************************************)
(* A tick is counted only when its deadline has passed.                    *)
(***************************************************************************)
THEOREM TicksNotEarly == Spec => []NoEarlyTick
<1>1. IndInv => NoEarlyTick
  BY DEF IndInv
<1> QED
  BY <1>1, IndInvHolds, PTL

(***************************************************************************)
(* While the handler is between its stores, the interrupt line is raised   *)
(* only by a deadline that has passed: the parked low word hides the mix   *)
(* of an old and a new word.                                               *)
(***************************************************************************)
THEOREM NoGlitchWhileUpdating == Spec => []NoGlitch
<1>1. IndInv => NoGlitch
  <2> SUFFICES ASSUME IndInv, pc = "cmp_low", timer_irq_o
               PROVE  mtime > Value(ullNextTime)
    BY DEF NoGlitch
  <2>1. mtimecmp.low = AllOnes /\ mtimecmp.high = ullNextTime.high
    BY DEF IndInv, UpdatingOK
  <2>2. ullNextTime.low \in Word /\ ullNextTime.high \in Word
    BY DEF IndInv, TypeOK, Pair
  <2>3. ullNextTime.low <= AllOnes /\ AllOnes \in Nat /\ ullNextTime.low \in Nat
    BY <2>2, ConstantsOK DEF Word, AllOnes
  <2>4. ullNextTime.high * WordMod \in Nat
    BY <2>2, ConstantsOK DEF Word
  <2>5. mtime \in Nat /\ mtime > ullNextTime.high * WordMod + AllOnes
    BY <2>1, ConstantsOK DEF IndInv, TypeOK, timer_irq_o, Value
  <2> HIDE DEF AllOnes
  <2> QED
    BY <2>3, <2>4, <2>5 DEF Value
<1> QED
  BY <1>1, IndInvHolds, PTL
=============================================================================
