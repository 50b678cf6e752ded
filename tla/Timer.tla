-------------------------------- MODULE Timer --------------------------------
(***************************************************************************)
(* The PIT bee (bees/PIT/PIT.c): the tick count, the frequency, the        *)
(* registered tick handler and sleep, which waits for a tick count.        *)
(*                                                                         *)
(* Time is counted in periods of the input clock of the timer, from the    *)
(* call of sleep on.  The timer interrupt may come between any two loads   *)
(* of the tick count, and several may come between two of them.            *)
(***************************************************************************)
EXTENDS Naturals

CONSTANTS
    PIT_FREQUENCY, \* periods of the input clock in a second
    WIDTH,         \* 2^32, the tick count and the arithmetic of sleep
    COUNTER,       \* 2^16, the counter of the timer
    Durations,     \* arguments of sleep, in milliseconds
    Frequencies,   \* arguments of set_frequency
    Handlers,      \* tick handlers a bee may register: "keep" does nothing to
                   \* the timer, "once" takes itself out, "retune" sets the
                   \* frequency
    START,         \* the tick count when the run begins
    TICKS          \* a bound on the ticks counted in a run

ASSUME TimerAssumption ==
    /\ PIT_FREQUENCY \in Nat /\ WIDTH \in Nat \ {0} /\ COUNTER \in Nat \ {0}
    /\ Durations \subseteq Nat /\ Frequencies \subseteq Nat \ {0}
    /\ Handlers \subseteq {"keep", "once", "retune"}
    /\ START \in 0 .. (WIDTH - 1) /\ TICKS \in Nat

VARIABLES
    ticks, tick_handler, freq_hz, \* the bee's storage
    divisor, \* what the timer has been set to
    gap,     \* time to the next interrupt
    counted, \* the number of interrupts so far, up to TICKS
    pc,      \* "idle", or "wait" in the loop of sleep
    ms, target, \* argument and local variable of sleep, 0 when it has returned
    elapsed, \* time since sleep was called
    steady   \* the frequency has been the same since then

store == <<ticks, tick_handler, freq_hz>>
call  == <<pc, ms, target>>
vars  == <<store, divisor, gap, counted, call, elapsed, steady>>

\* The divisor for a frequency; a mutant that takes the frequency for it.
Divisor_plain(f) == f
Divisor(f) == (PIT_FREQUENCY \div f) % COUNTER

\* The time between two interrupts: the timer takes 0 for COUNTER.
PeriodOf(d) == IF d = 0 THEN COUNTER ELSE d
Period == PeriodOf(divisor)

\* The ticks that sleep waits for.
Wanted(n) == ((freq_hz * n) % WIDTH) \div 1000

\* The test of sleep's loop; a mutant that may miss the tick, and one that waits
\* for the tick after it.
Waiting_exact == ticks # target
Waiting_after == ticks <= target
Waiting == ticks < target

\* The tick count does not wrap in a run, the products of sleep fit, and every
\* frequency has a divisor that fits the counter.
NothingCut ==
    /\ START + TICKS < WIDTH
    /\ \A f \in Frequencies \cup {100} :
          /\ PIT_FREQUENCY \div f \in 1 .. (COUNTER - 1)
          /\ \A n \in Durations : f * n < WIDTH

-----------------------------------------------------------------------------

Init ==
    /\ ticks = START
    /\ tick_handler = "none"
    /\ freq_hz = 100
    /\ divisor = Divisor(100)
    /\ gap = Period
    /\ counted = 0
    /\ pc = "idle" /\ ms = 0 /\ target = 0
    /\ elapsed = 0
    /\ steady = TRUE

\* Setting the timer to d: it starts over.
SetTimer(d) == divisor' = d /\ gap' = PeriodOf(d)

Frequency(f) == freq_hz' = f /\ SetTimer(Divisor(f))

\* The timer interrupt, with the tick handler.
interrupt_handler ==
    /\ counted < TICKS
    /\ counted' = counted + 1
    /\ ticks' = (ticks + 1) % WIDTH
    /\ elapsed' = IF pc = "wait" THEN elapsed + gap ELSE elapsed
    /\ tick_handler' = IF tick_handler = "once" THEN "none" ELSE tick_handler
    /\ \/ /\ tick_handler = "retune"
          /\ \E f \in Frequencies : Frequency(f)
          /\ steady' = FALSE
       \/ /\ tick_handler # "retune"
          /\ gap' = Period
          /\ UNCHANGED <<freq_hz, divisor, steady>>
    /\ UNCHANGED call

\* sleep is called just after an interrupt or just before the next.  It is not
\* called when the run has too few ticks left.
sleep(n) ==
    /\ pc = "idle"
    /\ counted + Wanted(n) <= TICKS
    /\ ms' = n
    /\ target' = (ticks + Wanted(n)) % WIDTH
    /\ pc' = "wait"
    /\ elapsed' = 0
    /\ steady' = TRUE
    /\ gap' \in {1, gap}
    /\ UNCHANGED <<store, divisor, counted>>

\* The loop of sleep goes round.
BusyWait == pc = "wait" /\ Waiting /\ UNCHANGED vars

sleep_returns ==
    /\ pc = "wait"
    /\ ~Waiting
    /\ pc' = "idle"
    /\ ms' = 0 /\ target' = 0 /\ elapsed' = 0 /\ steady' = TRUE
    /\ UNCHANGED <<store, divisor, gap, counted>>

register_handler(h) ==
    /\ pc = "idle"
    /\ tick_handler' = h
    /\ UNCHANGED <<ticks, freq_hz, divisor, gap, counted, call, elapsed, steady>>

\* A mutant that does not write the command, so that the timer goes on with the
\* period it has begun.
set_frequency_going_on(f) ==
    /\ pc = "idle"
    /\ freq_hz' = f
    /\ divisor' = Divisor(f)
    /\ UNCHANGED <<ticks, tick_handler, gap, counted, call, elapsed, steady>>

set_frequency(f) ==
    /\ pc = "idle"
    /\ Frequency(f)
    /\ UNCHANGED <<ticks, tick_handler, counted, call, elapsed, steady>>

Next == \/ interrupt_handler
        \/ \E n \in Durations : sleep(n)
        \/ BusyWait \/ sleep_returns
        \/ \E h \in Handlers \cup {"none"} : register_handler(h)
        \/ \E f \in Frequencies : set_frequency(f)

Spec == Init /\ [][Next]_vars

\* The timer is periodic, and the loop of sleep is executed.
FairSpec == Spec /\ WF_vars(interrupt_handler) /\ WF_vars(sleep_returns)

-----------------------------------------------------------------------------
(* Properties.                                                              *)

TypeOK ==
    /\ ticks \in 0 .. (WIDTH - 1) /\ target \in 0 .. (WIDTH - 1)
    /\ tick_handler \in Handlers \cup {"none"}
    /\ freq_hz \in Frequencies \cup {100}
    /\ divisor \in 0 .. (COUNTER - 1)
    /\ gap \in 1 .. Period
    /\ counted \in 0 .. TICKS
    /\ pc \in {"idle", "wait"} /\ ms \in Durations \cup {0}
    /\ elapsed \in Nat /\ steady \in BOOLEAN

Returns == pc = "wait" /\ pc' = "idle"

\* sleep returns less than two ticks before its time: one tick is lost to the
\* division by 1000, one because the first of the ticks counted may come at
\* once.  Its time is that of a timer that makes a whole number of periods of the
\* input clock a tick.  Unless the frequency is changed meanwhile.
LessThanTwoTicksShort ==
    [][Returns /\ steady =>
          (elapsed + 2 * Period) * 1000 > ms * (freq_hz * (PIT_FREQUENCY \div freq_hz))]_vars

\* A sleep that goes on waiting does so for a tick that comes before its time is
\* over: it waits for no tick too many and does not outlast its time, whatever the
\* frequency was set to before and wherever between two ticks it was called.
\* Unless the frequency is changed meanwhile.
NotTooLong ==
    pc = "wait" /\ Waiting /\ steady => (elapsed + gap) * 1000 <= ms * PIT_FREQUENCY

\* Every sleep ends, even if the loop does not see every tick and whatever a
\* tick handler does to the timer.
SleepEnds == pc = "wait" ~> pc = "idle"
=============================================================================
