---------------------------- MODULE SleepProofs -----------------------------
(***************************************************************************)
(* How long sleep() takes, for every timer frequency, every width of the   *)
(* counter and every list of arguments.                                    *)
(***************************************************************************)
EXTENDS Sleep, TLAPS

(***************************************************************************)
(* The history counts interrupts and the counter counts seconds.  What     *)
(* ties them is the phase of the timer at the call: the interrupts since   *)
(* the last full second.  It is the difference below, it lies between 0    *)
(* and HZ - 1, and no interrupt changes it while somebody sleeps.          *)
(***************************************************************************)
Ticks(n) == n * HZ
Whole == Ticks(seconds - sleep_val)
Phase == Whole + time_since_boot - elapsed

IInv ==
    /\ TypeOK
    /\ pc = "poll" /\ sleep_val # 0 =>
          /\ sleep_val <= seconds
          /\ Phase \in 0 .. HZ - 1
    /\ SleepTakesSeconds
    /\ CounterRests

-----------------------------------------------------------------------------
\* A remainder, where the dividend is just below or at the divisor.
LEMMA StepModulo ==
    ASSUME NEW n \in Nat \ {0}, NEW t \in 0 .. n - 1
    PROVE  (t + 1) % n = IF t + 1 = n THEN 0 ELSE t + 1
<1>1. CASE t + 1 = n
  BY <1>1
<1>2. CASE t + 1 # n
  BY <1>2
<1> QED BY <1>1, <1>2

\* The remainder of a number below the divisor.
LEMMA SmallModulo ==
    ASSUME NEW n \in Nat \ {0}, NEW t \in 0 .. n - 1
    PROVE  t % n = t
OBVIOUS

\* Interrupts in seconds: one second more or less, and fewer seconds.
LEMMA TicksFacts ==
    /\ Ticks(0) = 0
    /\ \A a \in Int : Ticks(a) \in Int
    /\ \A a \in Int : Ticks(a + 1) = Ticks(a) + HZ /\ Ticks(a - 1) = Ticks(a) - HZ
    /\ \A a, b \in Int : a <= b => Ticks(a) <= Ticks(b)
<1> USE SleepAssumption DEF Ticks
<1>1. Ticks(0) = 0 /\ \A a \in Int : Ticks(a) \in Int
  OBVIOUS
<1>2. \A a \in Int : Ticks(a + 1) = Ticks(a) + HZ /\ Ticks(a - 1) = Ticks(a) - HZ
  OBVIOUS
<1>3. \A a, b \in Int : a <= b => Ticks(a) <= Ticks(b)
  OBVIOUS
<1> QED BY <1>1, <1>2, <1>3

\* Nobody sleeps at the start.
LEMMA IInvInit == Init => IInv
BY SleepAssumption DEF Init, IInv, TypeOK, SleepTakesSeconds, CounterRests

\* A timer interrupt leaves the phase of the sleep alone: it counts one interrupt,
\* or takes a second off the counter and starts the next one.
LEMMA IInvTick == IInv /\ pit_intr_handler => IInv'
<1> SUFFICES ASSUME IInv, pit_intr_handler PROVE IInv'
  OBVIOUS
<1> USE SleepAssumption DEF IInv, TypeOK
<1>1. time_since_boot' = IF time_since_boot + 1 = HZ THEN 0 ELSE time_since_boot + 1
  BY StepModulo DEF pit_intr_handler
<1>2. sleep_val' = IF time_since_boot' = 0 /\ sleep_val # 0 THEN sleep_val - 1 ELSE sleep_val
  <2>1. sleep_val # 0 => sleep_val - 1 \in 0 .. Word - 1
    OBVIOUS
  <2>2. sleep_val # 0 => (sleep_val - 1) % Word = sleep_val - 1
    BY <2>1, SmallModulo
  <2> QED BY <2>2 DEF pit_intr_handler, on_second_tick
<1>3. elapsed' = IF sleep_val = 0 THEN elapsed ELSE elapsed + 1
  BY DEF pit_intr_handler
<1>4. UNCHANGED <<pc, vals, seconds>>
  BY DEF pit_intr_handler
<1>5. TypeOK'
  BY <1>1, <1>2, <1>3, <1>4
<1>6. CASE sleep_val = 0
  BY <1>2, <1>3, <1>4, <1>5, <1>6 DEF SleepTakesSeconds, CounterRests
<1>7. CASE sleep_val # 0
  <2>1. pc = "poll" /\ pc' = "poll"
    BY <1>4, <1>7 DEF CounterRests
  <2>2. Phase \in 0 .. HZ - 1 /\ sleep_val <= seconds
    BY <1>7, <2>1
  <2>3. Whole \in Int /\ Ticks(seconds) \in Int /\ Ticks(seconds - 1) = Ticks(seconds) - HZ
    <3>1. seconds \in Int /\ seconds - sleep_val \in Int
      OBVIOUS
    <3> QED BY <3>1, TicksFacts DEF Whole
  <2>4. CASE time_since_boot' = 0
    <3>1. sleep_val' = sleep_val - 1 /\ time_since_boot = HZ - 1
      BY <1>1, <1>2, <1>7, <2>4
    <3>2. seconds - sleep_val' = (seconds - sleep_val) + 1
      BY <3>1
    <3>3. Whole' = Whole + HZ
      BY <1>4, <3>2, TicksFacts DEF Whole
    <3>4. Phase' = Phase
      BY <1>3, <1>7, <2>3, <2>4, <3>1, <3>3 DEF Phase
    <3>5. Whole' \in Int /\ elapsed' = Whole' - Phase
      BY <1>3, <1>7, <2>2, <2>3, <3>1, <3>3 DEF Phase
    <3>6. sleep_val' # 0 => elapsed' < Ticks(seconds)
      <4> HAVE sleep_val' # 0
      <4>1. seconds - sleep_val' <= seconds - 1 /\ seconds - sleep_val' \in Int
        BY <1>5, <3>1
      <4>2. Whole' <= Ticks(seconds - 1)
        BY <1>4, <4>1, TicksFacts DEF Whole
      <4> QED BY <2>2, <2>3, <3>5, <4>2
    <3>7. sleep_val' = 0 => elapsed' <= Ticks(seconds) /\ elapsed' >= Ticks(seconds - 1)
      <4> HAVE sleep_val' = 0
      <4>1. Whole' = Ticks(seconds)
        BY <1>4 DEF Whole
      <4> QED BY <2>2, <2>3, <3>5, <4>1
    <3>8. SleepTakesSeconds'
      BY <1>4, <3>6, <3>7 DEF SleepTakesSeconds, Ticks
    <3> QED
      BY <1>4, <1>5, <2>1, <2>2, <3>1, <3>4, <3>8 DEF CounterRests
  <2>5. CASE time_since_boot' # 0
    <3>1. sleep_val' = sleep_val /\ time_since_boot' = time_since_boot + 1
      BY <1>1, <1>2, <2>5
    <3>2. Whole' = Whole
      BY <1>4, <3>1 DEF Whole
    <3>3. Phase' = Phase
      BY <1>3, <1>7, <2>3, <3>1, <3>2 DEF Phase
    <3>4. elapsed' = Whole + time_since_boot' - Phase
      BY <1>3, <1>7, <2>2, <2>3, <3>1 DEF Phase
    <3>5. Whole <= Ticks(seconds - 1)
      BY <1>7, TicksFacts DEF Whole
    <3>6. elapsed' < Ticks(seconds)
      <4>1. time_since_boot' \in 0 .. HZ - 1 /\ HZ \in Nat
        BY <1>5
      <4> QED BY <2>2, <2>3, <3>4, <3>5, <4>1
    <3>7. SleepTakesSeconds'
      BY <1>4, <1>7, <3>1, <3>6 DEF SleepTakesSeconds, Ticks
    <3> QED
      BY <1>4, <1>5, <1>7, <2>1, <2>2, <3>1, <3>3, <3>7 DEF CounterRests
  <2> QED BY <2>4, <2>5
<1> QED BY <1>6, <1>7

\* sleep() starts its count at the phase of the timer.
LEMMA IInvSleep == IInv /\ sleep => IInv'
<1> SUFFICES ASSUME IInv, sleep PROVE IInv'
  OBVIOUS
<1> USE SleepAssumption DEF IInv, TypeOK
<1>1. Head(vals) \in 0 .. Word - 1 /\ Tail(vals) \in Seq(0 .. Word - 1)
  BY DEF sleep
<1>2. TypeOK'
  BY <1>1 DEF sleep, SecondsStored
<1>3. sleep_val' = seconds' /\ elapsed' = 0 /\ pc' = "poll" /\ time_since_boot' = time_since_boot
  BY DEF sleep, SecondsStored
<1>4. Phase' = time_since_boot
  <2>1. seconds' - sleep_val' = 0
    <3>1. seconds' \in Int
      BY <1>2
    <3>2. \A n, m \in Int : n = m => m - n = 0
      OBVIOUS
    <3> QED BY <1>3, <3>1, <3>2, Zenon
  <2>2. Whole' = 0
    BY <2>1, TicksFacts DEF Whole
  <2> QED BY <1>3, <2>2 DEF Phase
<1>5. SleepTakesSeconds'
  <2>1. seconds' # 0 => 0 < Ticks(seconds')
    <3> HAVE seconds' # 0
    <3>1. 1 <= seconds' /\ seconds' \in Int
      BY <1>2
    <3>2. Ticks(0 + 1) = Ticks(0) + HZ /\ 0 + 1 = 1
      BY TicksFacts
    <3>3. Ticks(1) <= Ticks(seconds') /\ Ticks(seconds') \in Int
      BY <3>1, TicksFacts
    <3> QED BY <3>2, <3>3, TicksFacts
  <2>2. seconds' = 0 => Ticks(seconds') = 0 /\ Ticks(seconds' - 1) <= 0
    BY <1>2, TicksFacts
  <2> QED BY <1>3, <2>1, <2>2 DEF SleepTakesSeconds, Ticks
<1> QED BY <1>2, <1>3, <1>4, <1>5 DEF CounterRests

\* Every tick and every step of bin/sleep keeps the invariant.
LEMMA IInvNext == IInv /\ [Next]_vars => IInv'
<1> SUFFICES ASSUME IInv, [Next]_vars PROVE IInv'
  OBVIOUS
<1> USE SleepAssumption DEF IInv, TypeOK, SleepTakesSeconds, CounterRests, Phase, Whole
<1>1. CASE pit_intr_handler
  BY <1>1, IInvTick
<1>2. ASSUME NEW argv \in Arguments, main(argv) PROVE IInv'
  BY <1>2 DEF main
<1>3. CASE main_done
  BY <1>3 DEF main_done
<1>4. CASE sleep
  BY <1>4, IInvSleep
<1>5. CASE poll
  BY <1>5 DEF poll, Awake
<1>6. CASE UNCHANGED vars
  BY <1>6 DEF vars
<1> QED BY <1>1, <1>2, <1>3, <1>4, <1>5, <1>6 DEF Next

-----------------------------------------------------------------------------
\* sleep(n) ends within n seconds and less than one second early, for every n,
\* every timer frequency and every width of the counter.
THEOREM SleepTakesItsSeconds == Spec => []SleepTakesSeconds
<1>1. IInv => SleepTakesSeconds
  BY DEF IInv
<1> QED
  BY <1>1, IInvInit, IInvNext, PTL DEF Spec

\* Outside sleep() the counter is 0.
THEOREM CounterRestsAtZero == Spec => []CounterRests
<1>1. IInv => CounterRests
  BY DEF IInv
<1> QED
  BY <1>1, IInvInit, IInvNext, PTL DEF Spec

\* bin/sleep never sleeps when one of its arguments is no number.
THEOREM NoSleepForInvalid == Spec => []InvalidNeverSlept
<1>1. Init => InvalidNeverSlept
  BY DEF Init, InvalidNeverSlept
<1>2. InvalidNeverSlept /\ TypeOK /\ [Next]_vars => InvalidNeverSlept'
  <2> SUFFICES ASSUME InvalidNeverSlept, TypeOK, [Next]_vars PROVE InvalidNeverSlept'
    OBVIOUS
  <2> USE DEF InvalidNeverSlept
  <2>1. ASSUME NEW argv \in Arguments, main(argv) PROVE InvalidNeverSlept'
    BY <2>1 DEF main, AllValid
  <2>2. CASE sleep
    <3>1. vals \in Seq(0 .. Word - 1) /\ vals # <<>>
      BY <2>2 DEF sleep, TypeOK
    <3>2. seconds' # Invalid
      BY <2>2, <3>1 DEF sleep
    <3>3. \A i \in DOMAIN vals' : vals'[i] # Invalid
      <4> TAKE i \in DOMAIN vals'
      <4>1. vals' = Tail(vals) /\ i \in 1 .. Len(vals) - 1 /\ i + 1 \in DOMAIN vals
        BY <2>2, <3>1 DEF sleep
      <4>2. vals'[i] = vals[i + 1]
        BY <3>1, <4>1
      <4> QED BY <4>1, <4>2
    <3> QED BY <3>2, <3>3
  <2>3. CASE pit_intr_handler \/ main_done \/ poll \/ UNCHANGED vars
    BY <2>3 DEF pit_intr_handler, main_done, poll, vars
  <2> QED BY <2>1, <2>2, <2>3 DEF Next
<1>3. IInv => TypeOK
  BY DEF IInv
<1> QED
  BY <1>1, <1>2, <1>3, IInvInit, IInvNext, PTL DEF Spec
=============================================================================
