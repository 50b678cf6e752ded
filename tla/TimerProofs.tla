----------------------------- MODULE TimerProofs -----------------------------
(***************************************************************************)
(* Proofs about Timer for every clock, every width, all durations and all  *)
(* frequencies, as long as no number is cut.                               *)
(***************************************************************************)
EXTENDS Timer, TLAPS

Rates == Frequencies \cup {100}

\* The ticks since sleep was called.
Passed == ticks - (target - Wanted(ms))

\* While sleep waits, so many periods have passed, up to the first one, of which
\* some part may have been over before.
OnTime ==
    pc = "wait" /\ steady =>
        /\ target - Wanted(ms) \in Nat
        /\ Passed \in Nat
        /\ Passed * Period < elapsed + gap
        /\ elapsed + gap <= (Passed + 1) * Period

\* The inductive invariant.
IInv == /\ TypeOK
        /\ divisor = Divisor(freq_hz)
        /\ ticks = START + counted
        /\ pc = "wait" => ms \in Durations
        /\ OnTime

-----------------------------------------------------------------------------
(* Arithmetic.                                                              *)

\* Multiplication keeps the order.
LEMMA Times ==
    ASSUME NEW a \in Nat, NEW b \in Nat, NEW c \in Nat
    PROVE  /\ a <= b => a * c <= b * c
           /\ a < b /\ c # 0 => a * c < b * c
  OBVIOUS

\* Rounding a quotient loses less than one divisor.
LEMMA Rounding ==
    ASSUME NEW a \in Nat, NEW d \in Nat \ {0}
    PROVE  /\ a \div d \in Nat
           /\ (a \div d) * d <= a
           /\ a < ((a \div d) + 1) * d
  OBVIOUS

-----------------------------------------------------------------------------

\* No number is cut.
LEMMA Uncut ==
    ASSUME NothingCut, NEW f \in Rates
    PROVE  /\ f \in Nat \ {0}
           /\ Divisor(f) = PIT_FREQUENCY \div f
           /\ Divisor(f) \in 1 .. (COUNTER - 1)
           /\ PeriodOf(Divisor(f)) = PIT_FREQUENCY \div f
           /\ \A n \in Durations : (f * n) % WIDTH = f * n
  <1>1. f \in Nat \ {0} /\ PIT_FREQUENCY \div f \in 1 .. (COUNTER - 1) /\ COUNTER \in Nat \ {0}
    BY TimerAssumption DEF NothingCut, Rates
  <1>2. \A a \in Nat, d \in Nat \ {0} : a < d => a % d = a
    OBVIOUS
  <1>3. Divisor(f) = PIT_FREQUENCY \div f
    BY <1>1, <1>2 DEF Divisor
  <1>4. \A n \in Durations : f * n \in Nat /\ f * n < WIDTH
    BY <1>1, TimerAssumption DEF NothingCut, Rates
  <1>. QED  BY <1>1, <1>2, <1>3, <1>4, TimerAssumption DEF PeriodOf

\* The number of ticks sleep waits for is that of whole ticks in its time.
LEMMA WantedIs ==
    ASSUME NothingCut, IInv, NEW n \in Durations
    PROVE  /\ freq_hz \in Rates
           /\ Wanted(n) \in Nat
           /\ Wanted(n) * 1000 <= freq_hz * n
           /\ freq_hz * n < (Wanted(n) + 1) * 1000
  <1>1. freq_hz \in Rates
    BY DEF IInv, TypeOK, Rates
  <1>2. freq_hz * n \in Nat /\ (freq_hz * n) % WIDTH = freq_hz * n
    BY <1>1, Uncut, TimerAssumption
  <1>3. Wanted(n) = (freq_hz * n) \div 1000
    BY <1>2 DEF Wanted
  <1>. QED  BY <1>1, <1>2, <1>3, Rounding

\* The period of the timer is that of the frequency.
LEMMA PeriodIs ==
    ASSUME NothingCut, IInv
    PROVE  /\ Period = PIT_FREQUENCY \div freq_hz
           /\ Period \in Nat \ {0}
           /\ freq_hz * Period <= PIT_FREQUENCY
  <1>1. freq_hz \in Rates
    BY DEF IInv, TypeOK, Rates
  <1>2. Period = PIT_FREQUENCY \div freq_hz /\ Period \in Nat \ {0} /\ freq_hz \in Nat \ {0}
    BY <1>1, Uncut, TimerAssumption DEF IInv, Period
  <1>3. (PIT_FREQUENCY \div freq_hz) * freq_hz <= PIT_FREQUENCY
    BY <1>2, Rounding, TimerAssumption
  <1>. QED  BY <1>2, <1>3

-----------------------------------------------------------------------------
(* The invariant.                                                           *)

\* It holds at the start.
LEMMA Initially == ASSUME NothingCut PROVE Init => IInv
  <1>. SUFFICES ASSUME Init PROVE IInv
    OBVIOUS
  <1>1. 100 \in Rates
    BY DEF Rates
  <1>2. divisor \in 1 .. (COUNTER - 1) /\ Period = divisor /\ divisor \in Nat \ {0}
    BY <1>1, Uncut, TimerAssumption DEF Init, Period, PeriodOf
  <1>3. TypeOK
    BY <1>2, TimerAssumption DEF Init, TypeOK
  <1>. QED  BY <1>3, TimerAssumption DEF Init, IInv, OnTime

\* A timer that is set to a frequency starts over.
LEMMA Setting ==
    ASSUME NothingCut, NEW f \in Frequencies, Frequency(f)
    PROVE  /\ freq_hz' \in Rates /\ divisor' = Divisor(freq_hz')
           /\ divisor' \in 0 .. (COUNTER - 1)
           /\ gap' = Period' /\ gap' \in Nat \ {0}
  <1>1. f \in Rates
    BY DEF Rates
  <1>2. Divisor(f) \in 1 .. (COUNTER - 1) /\ Divisor(f) \in Nat \ {0}
    BY <1>1, Uncut, TimerAssumption
  <1>. QED  BY <1>1, <1>2 DEF Frequency, SetTimer, Period, PeriodOf

\* Every step keeps it.
LEMMA Inductive == ASSUME NothingCut PROVE IInv /\ [Next]_vars => IInv'
  <1>. SUFFICES ASSUME IInv, [Next]_vars PROVE IInv'
    OBVIOUS
  <1>1. CASE interrupt_handler
    <2>. DEFINE w == Wanted(ms)
                p == Period
    <2>1. ticks' = ticks + 1 /\ ticks' \in 0 .. (WIDTH - 1) /\ ticks' = START + counted'
          /\ counted' \in 0 .. TICKS
      <3>1. counted \in 0 .. TICKS /\ counted < TICKS /\ counted' = counted + 1
        BY <1>1 DEF IInv, TypeOK, interrupt_handler
      <3>2. ticks = START + counted /\ ticks + 1 < WIDTH /\ ticks \in Nat
        BY <3>1, TimerAssumption DEF IInv, NothingCut
      <3>3. \A a \in Nat, d \in Nat \ {0} : a < d => a % d = a
        OBVIOUS
      <3>4. ticks' = ticks + 1
        BY <1>1, <3>2, <3>3, TimerAssumption DEF interrupt_handler
      <3>. QED  BY <3>1, <3>2, <3>4, TimerAssumption
    <2>2. gap \in Nat \ {0} /\ elapsed \in Nat /\ elapsed' \in Nat
      BY <1>1, PeriodIs DEF IInv, TypeOK, interrupt_handler
    <2>3. UNCHANGED <<pc, ms, target>>
      BY <1>1 DEF interrupt_handler, call
    <2>4. tick_handler' \in Handlers \cup {"none"}
      BY <1>1 DEF IInv, TypeOK, interrupt_handler
    <2>5. CASE tick_handler = "retune"
      <3>1. PICK f \in Frequencies : Frequency(f)
        BY <1>1, <2>5 DEF interrupt_handler
      <3>2. steady' = FALSE
        BY <1>1, <2>5 DEF interrupt_handler
      <3>3. TypeOK'
        <4>1. /\ freq_hz' \in Frequencies \cup {100} /\ divisor' \in 0 .. (COUNTER - 1)
              /\ gap' \in 1 .. Period'
          BY <3>1, Setting DEF Rates
        <4>2. counted' \in 0 .. TICKS /\ ticks' \in 0 .. (WIDTH - 1)
          BY <2>1
        <4>. QED  BY <2>2, <2>3, <2>4, <3>2, <4>1, <4>2 DEF IInv, TypeOK
      <3>. QED  BY <2>1, <2>3, <3>1, <3>2, <3>3, Setting DEF IInv, OnTime
    <2>6. CASE tick_handler # "retune"
      <3>1. gap' = p /\ UNCHANGED <<freq_hz, divisor, steady>>
        BY <1>1, <2>6 DEF interrupt_handler
      <3>2. Period' = p /\ p \in Nat \ {0} /\ Wanted(ms)' = w
        BY <2>3, <3>1, PeriodIs DEF Period, Wanted
      <3>3. TypeOK'
        BY <2>1, <2>2, <2>3, <2>4, <3>1, <3>2 DEF IInv, TypeOK
      <3>4. OnTime'
        <4>. SUFFICES ASSUME pc = "wait", steady
                      PROVE  /\ target - w \in Nat
                             /\ Passed' \in Nat
                             /\ Passed' * p < elapsed' + gap'
                             /\ elapsed' + gap' <= (Passed' + 1) * p
          BY <2>3, <3>1, <3>2 DEF OnTime
        <4>1. /\ target - w \in Nat /\ Passed \in Nat
              /\ Passed * p < elapsed + gap /\ elapsed + gap <= (Passed + 1) * p
          BY DEF IInv, OnTime
        <4>2. w \in Nat /\ ticks \in Nat
          BY WantedIs, TimerAssumption DEF IInv, TypeOK
        <4>3. elapsed' = elapsed + gap /\ gap' = p
          BY <1>1, <3>1 DEF interrupt_handler
        <4>4. target \in Nat
          BY TimerAssumption DEF IInv, TypeOK
        <4>5. Passed' = Passed + 1
          <5>. HIDE DEF w
          <5>. QED  BY <2>1, <2>3, <3>2, <4>2, <4>4 DEF Passed, w
        <4>. HIDE DEF p, w
        <4>6. (Passed + 1) * p = Passed * p + p /\ (Passed + 1 + 1) * p = (Passed + 1) * p + p
          BY <3>2, <4>1
        <4>. QED  BY <2>2, <3>2, <4>1, <4>3, <4>5, <4>6
      <3>. QED  BY <2>1, <2>3, <3>1, <3>3, <3>4 DEF IInv
    <2>. QED  BY <2>5, <2>6
  <1>2. ASSUME NEW n \in Durations, sleep(n) PROVE IInv'
    <2>. DEFINE w == Wanted(n)
    <2>1. /\ pc' = "wait" /\ ms' = n /\ elapsed' = 0 /\ steady' = TRUE /\ gap' \in {1, gap}
          /\ counted + w <= TICKS /\ target' = (ticks + w) % WIDTH
          /\ UNCHANGED <<ticks, tick_handler, freq_hz, divisor, counted>>
      BY <1>2 DEF sleep, store
    <2>2. w \in Nat /\ ticks \in Nat /\ counted \in Nat /\ ticks = START + counted
      BY WantedIs, TimerAssumption DEF IInv, TypeOK
    <2>3. target' = ticks + w /\ target' \in 0 .. (WIDTH - 1)
      <3>. HIDE DEF w
      <3>1. ticks + w \in Nat /\ ticks + w < WIDTH
        BY <2>1, <2>2, TimerAssumption DEF NothingCut
      <3>2. \A a \in Nat, d \in Nat \ {0} : a < d => a % d = a
        OBVIOUS
      <3>. QED  BY <2>1, <3>1, <3>2, TimerAssumption
    <2>4. Period' = Period /\ Period \in Nat \ {0} /\ Wanted(ms)' = w
      BY <2>1, PeriodIs DEF Period, Wanted
    <2>5. gap' \in 1 .. Period
      BY <2>1, <2>4 DEF IInv, TypeOK
    <2>6. TypeOK'
      BY <2>1, <2>3, <2>4, <2>5 DEF IInv, TypeOK
    <2>7. OnTime'
      <3>1. target' - w = ticks /\ Passed' = 0
        BY <2>1, <2>2, <2>3, <2>4 DEF Passed
      <3>2. 0 * Period = 0 /\ (0 + 1) * Period = Period
        BY <2>4
      <3>3. gap' \in Nat \ {0} /\ gap' <= Period
        BY <2>4, <2>5
      <3>4. Passed' * Period' < elapsed' + gap' /\ elapsed' + gap' <= (Passed' + 1) * Period'
        <4>1. Passed' * Period' = 0 /\ (Passed' + 1) * Period' = Period
          BY <2>4, <3>1, <3>2
        <4>2. elapsed' = 0
          BY <2>1
        <4>. QED  BY <2>4, <3>3, <4>1, <4>2
      <3>5. (target - Wanted(ms))' \in Nat /\ Passed' \in Nat
        BY <2>2, <2>4, <3>1
      <3>. QED  BY <3>4, <3>5 DEF OnTime
    <2>. QED  BY <2>1, <2>6, <2>7 DEF IInv
  <1>3. CASE BusyWait \/ UNCHANGED vars
    BY <1>3 DEF BusyWait, vars, store, call, IInv, TypeOK, OnTime, Passed, Wanted, Period
  <1>4. CASE sleep_returns
    <2>1. TypeOK'
      BY <1>4, TimerAssumption DEF sleep_returns, store, IInv, TypeOK, Period
    <2>. QED  BY <1>4, <2>1 DEF sleep_returns, store, IInv, OnTime
  <1>5. ASSUME NEW h \in Handlers \cup {"none"}, register_handler(h) PROVE IInv'
    <2>1. TypeOK'
      BY <1>5 DEF register_handler, call, IInv, TypeOK, Period
    <2>. QED  BY <1>5, <2>1 DEF register_handler, call, IInv, OnTime
  <1>6. ASSUME NEW f \in Frequencies, set_frequency(f) PROVE IInv'
    <2>1. Frequency(f) /\ pc = "idle" /\ UNCHANGED <<ticks, tick_handler, counted, pc, ms, target, elapsed, steady>>
      BY <1>6 DEF set_frequency, call
    <2>2. TypeOK'
      BY <2>1, Setting DEF IInv, TypeOK, Rates
    <2>. QED  BY <2>1, <2>2, Setting DEF IInv, OnTime
  <1>. QED  BY <1>1, <1>2, <1>3, <1>4, <1>5, <1>6 DEF Next

\* So it always holds.
LEMMA Invariance == ASSUME NothingCut PROVE Spec => []IInv
  <1>1. Init => IInv
    BY Initially
  <1>2. IInv /\ [Next]_vars => IInv'
    BY Inductive
  <1>. QED  BY <1>1, <1>2, PTL DEF Spec

-----------------------------------------------------------------------------

\* The counts and the timer keep their ranges: the divisor fits the counter, and
\* the next tick is never further away than a period.
THEOREM TypeCorrect ==
    ASSUME NothingCut
    PROVE  Spec => []TypeOK
  <1>1. IInv => TypeOK
    BY DEF IInv
  <1>. QED  BY <1>1, Invariance, PTL

\* No sleep of any length at any frequency waits for a tick that comes when its time is over.
THEOREM SleepsNotTooLong ==
    ASSUME NothingCut
    PROVE  Spec => []NotTooLong
  <1>1. IInv => NotTooLong
    <2>. SUFFICES ASSUME IInv, pc = "wait", Waiting, steady
                  PROVE  (elapsed + gap) * 1000 <= ms * PIT_FREQUENCY
      BY DEF NotTooLong
    <2>. DEFINE w == Wanted(ms)
                p == Period
    <2>1. ms \in Durations /\ ms \in Nat /\ elapsed \in Nat /\ gap \in Nat \ {0}
      BY PeriodIs, TimerAssumption DEF IInv, TypeOK
    <2>2. /\ freq_hz \in Nat \ {0} /\ w \in Nat /\ w * 1000 <= freq_hz * ms
          /\ p \in Nat \ {0} /\ freq_hz * p <= PIT_FREQUENCY
      BY <2>1, WantedIs, PeriodIs, Uncut
    <2>3. Passed \in Nat /\ elapsed + gap <= (Passed + 1) * p
      BY DEF IInv, OnTime
    <2>4. Passed + 1 <= w
      <3>1. ticks \in Nat /\ target \in Nat /\ ticks < target
        BY TimerAssumption DEF IInv, TypeOK, Waiting
      <3>. HIDE DEF w
      <3>. QED  BY <2>2, <3>1 DEF Passed, w
    <2>. HIDE DEF w, p
    <2>5. (Passed + 1) * p <= w * p
      BY <2>2, <2>3, <2>4, Times
    <2>6. elapsed + gap <= w * p
      BY <2>1, <2>2, <2>3, <2>5
    <2>7. (elapsed + gap) * 1000 <= (w * p) * 1000
      BY <2>1, <2>2, <2>6
    <2>8. (w * 1000) * p <= (freq_hz * ms) * p
      BY <2>1, <2>2, Times
    <2>9. (freq_hz * p) * ms <= PIT_FREQUENCY * ms
      BY <2>1, <2>2, Times, TimerAssumption
    <2>10. /\ (w * p) * 1000 = (w * 1000) * p /\ (freq_hz * ms) * p = (freq_hz * p) * ms
           /\ PIT_FREQUENCY * ms = ms * PIT_FREQUENCY
      BY <2>1, <2>2, TimerAssumption
    <2>. QED  BY <2>1, <2>2, <2>7, <2>8, <2>9, <2>10, TimerAssumption
  <1>. QED  BY <1>1, Invariance, PTL

\* No sleep of any length at any frequency is two ticks short.
THEOREM SleepsLongEnough ==
    ASSUME NothingCut
    PROVE  Spec => LessThanTwoTicksShort
  <1>1. IInv /\ [Next]_vars =>
          [Returns /\ steady =>
             (elapsed + 2 * Period) * 1000 > ms * (freq_hz * (PIT_FREQUENCY \div freq_hz))]_vars
    <2>. SUFFICES ASSUME IInv, Next, Returns, steady
                  PROVE  (elapsed + 2 * Period) * 1000 > ms * (freq_hz * (PIT_FREQUENCY \div freq_hz))
      OBVIOUS
    <2>. DEFINE w == Wanted(ms)
                p == Period
    <2>1. pc = "wait" /\ ~Waiting
      BY DEF Next, Returns, interrupt_handler, sleep, BusyWait, sleep_returns, register_handler,
             set_frequency, call, vars
    <2>2. ms \in Durations /\ ms \in Nat /\ elapsed \in Nat /\ gap \in Nat \ {0} /\ gap <= p
      BY <2>1, PeriodIs, TimerAssumption DEF IInv, TypeOK
    <2>3. /\ freq_hz \in Nat \ {0} /\ w \in Nat /\ freq_hz * ms < (w + 1) * 1000
          /\ p \in Nat \ {0} /\ p = PIT_FREQUENCY \div freq_hz
      BY <2>2, WantedIs, PeriodIs, Uncut
    <2>4. Passed \in Nat /\ Passed * p < elapsed + gap
      BY <2>1 DEF IInv, OnTime
    <2>5. w <= Passed
      <3>1. ticks \in Nat /\ target \in Nat /\ target <= ticks
        BY <2>1, TimerAssumption DEF IInv, TypeOK, Waiting
      <3>. HIDE DEF w
      <3>. QED  BY <2>3, <3>1 DEF Passed, w
    <2>. HIDE DEF w, p
    <2>6. w * p <= Passed * p
      BY <2>3, <2>4, <2>5, Times
    <2>7. (w + 1) * p < elapsed + 2 * p
      BY <2>2, <2>3, <2>4, <2>6
    <2>8. ((w + 1) * p) * 1000 < (elapsed + 2 * p) * 1000
      BY <2>2, <2>3, <2>7
    <2>9. (freq_hz * ms) * p < ((w + 1) * 1000) * p
      BY <2>2, <2>3, Times
    <2>10. ((w + 1) * 1000) * p = ((w + 1) * p) * 1000 /\ (freq_hz * ms) * p = ms * (freq_hz * p)
      BY <2>2, <2>3
    <2>11. ms * (freq_hz * p) < (elapsed + 2 * p) * 1000
      BY <2>2, <2>3, <2>8, <2>9, <2>10
    <2>. QED  BY <2>2, <2>3, <2>11 DEF p
  <1>. QED  BY <1>1, Invariance, PTL DEF Spec, LessThanTwoTicksShort

=============================================================================
