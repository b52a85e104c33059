------------------------------ MODULE ServoPwm ------------------------------
(***************************************************************************)
(* The firmware in time (main.c), from the moment it is on the bus: a       *)
(* second of delays without usbPoll, then the main loop: usbPoll, and when  *)
(* the timer has overflowed a pulse for the servo, a busy wait whose length *)
(* depends on the angle and during which usbPoll is not called either.      *)
(*                                                                          *)
(* ServoBus begins with the main loop and takes for granted that usbPoll    *)
(* notices every bus reset; here that is checked, and that of the resets    *)
(* during the delays it notices only what is left of them afterwards.       *)
(* The unit of time is one round of the second delay loop, 70 us if the     *)
(* clock is the F_CPU of the Makefile.  The clock drives loops and timer    *)
(* alike, so only the host's times depend on it.                            *)
(***************************************************************************)
EXTENDS Integers

CONSTANTS
    DelayTimes,     \* what _delay_ms(100) may take, with the interrupts
    PollTimes,      \* what usbPoll may take, packets that interrupt it included
    LongestPoll,
    Stolen,         \* what packets that interrupt a pulse may add to it
    MostStolen,
    Angles,         \* angles clients set
    ResetTimes,     \* how long the host keeps the bus in reset
    ResetPause,     \* and how long at least it leaves the bus alone in between
    MaxDelay        \* usbPoll has to be called more often than that

Uint8 == {n \in Nat : n < 256}

\* 256 ticks of 1024 cycles, in units of 1120 cycles.
TimerPeriod == 234
\* 72 times 100 us in units of 70 us, and one unit for each step of the angle.
PulseTime(angle) == 103 + angle
LongestPulse == PulseTime(255) + MostStolen
\* How often main waits before its loop.
Delays == 10

ASSUME LoopAssumption ==
    /\ DelayTimes \subseteq Nat \ {0}
    /\ LongestPoll \in Nat /\ PollTimes \subseteq 1..LongestPoll
    /\ MostStolen \in Nat /\ Stolen \subseteq 0..MostStolen
    /\ Angles \subseteq Uint8

\* The host is slower than the main loop.
ASSUME HostAssumption ==
    /\ MaxDelay \in Nat /\ LongestPulse < MaxDelay
    /\ ResetPause \in Nat /\ LongestPulse < ResetPause
    /\ \A t \in ResetTimes : t \in Nat /\ LongestPulse + LongestPoll < t

-----------------------------------------------------------------------------
VARIABLES
    angle,
    TOV0,           \* the timer's overflow flag, a single bit
    phase,          \* the timer: time since it overflowed
    i,              \* how many delays are over
    at,             \* what main does next: "delay", then always "poll" or "timer"
    usbIsReset,
    gap,            \* time since usbPoll looked at the bus, or the loop began
    since,          \* time since the last pulse, or the loop, began
    reset,          \* what is left of the bus reset; when negative, time since it ended
    noticed,        \* history: usbPoll has acted upon the last reset
    due             \* history: the loop ran during it, from its beginning or for
                    \* at least one usbPoll

pwmVars == <<angle, TOV0, phase, i, at, usbIsReset, gap, since, reset, noticed, due>>

InReset == reset > 0

\* usbInit and sei are done: from here on the device answers on the bus.
Init ==
    /\ angle = 0
    /\ TOV0 = FALSE /\ phase = 0
    /\ i = 0 /\ at = "delay"
    /\ usbIsReset = FALSE
    /\ gap = 0
    /\ since = 0
    /\ reset = -ResetPause
    /\ noticed = TRUE /\ due = FALSE

\* Time d passes, the flag being tov0 at its beginning.  Mutant: a timer of 16 bits.
Elapse_Wide(d, tov0) ==
    /\ TOV0' = (tov0 \/ phase + d >= 256 * TimerPeriod)
    /\ phase' = (phase + d) % (256 * TimerPeriod)
    /\ reset' = IF reset - d < -ResetPause THEN -ResetPause ELSE reset - d

Elapse(d, tov0) ==
    /\ TOV0' = (tov0 \/ phase + d >= TimerPeriod)
    /\ phase' = (phase + d) % TimerPeriod
    /\ reset' = IF reset - d < -ResetPause THEN -ResetPause ELSE reset - d

\* The end of usbPoll.  Mutant: the flag is never taken back.
SampleBus_Sticky(seen) ==
    /\ usbIsReset' = (usbIsReset \/ seen)
    /\ noticed' = (noticed \/ (seen /\ ~usbIsReset))

SampleBus(seen) ==
    /\ usbIsReset' = seen
    /\ noticed' = (noticed \/ (seen /\ ~usbIsReset))

\* A tenth of a second of the wait before the main loop, in which nobody looks at
\* the bus.
Delay(d) ==
    /\ at = "delay"
    /\ Elapse(d, TOV0)
    /\ i' = i + 1
    /\ IF i' < Delays
       THEN UNCHANGED <<angle, at, due>>
       ELSE angle' = 0 /\ at' = "poll" /\ due' = (reset' > LongestPoll)
    /\ UNCHANGED <<usbIsReset, gap, since, noticed>>

UsbPoll(d) ==
    /\ at = "poll"
    /\ Elapse(d, TOV0)
    /\ SampleBus(reset' > 0)
    /\ gap' = 0
    /\ since' = since + d
    /\ angle' \in {angle} \cup Angles
    /\ at' = "timer"
    /\ UNCHANGED <<i, due>>

NoOverflow ==
    /\ at = "timer"
    /\ ~TOV0
    /\ at' = "poll"
    /\ UNCHANGED <<angle, TOV0, phase, i, usbIsReset, gap, since, reset, noticed, due>>

\* The flag is cleared before the pulse, so an overflow during the pulse is kept.
\* Mutants: it is cleared afterwards; the main loop tests it again before usbPoll.
TimerInterrupt_ClearedAfter(stolen) ==
    LET length == PulseTime(angle) + stolen IN
    /\ at = "timer"
    /\ TOV0
    /\ TOV0' = FALSE
    /\ phase' = (phase + length) % TimerPeriod
    /\ reset' = IF reset - length < -ResetPause THEN -ResetPause ELSE reset - length
    /\ gap' = gap + length
    /\ since' = length
    /\ at' = "poll"
    /\ UNCHANGED <<angle, i, usbIsReset, noticed, due>>

TimerInterrupt_While(stolen) ==
    LET length == PulseTime(angle) + stolen IN
    /\ at = "timer"
    /\ TOV0
    /\ Elapse(length, FALSE)
    /\ gap' = gap + length
    /\ since' = length
    /\ at' = IF TOV0' THEN "timer" ELSE "poll"
    /\ UNCHANGED <<angle, i, usbIsReset, noticed, due>>

TimerInterrupt(stolen) ==
    LET length == PulseTime(angle) + stolen IN
    /\ at = "timer"
    /\ TOV0
    /\ Elapse(length, FALSE)
    /\ gap' = gap + length
    /\ since' = length
    /\ at' = "poll"
    /\ UNCHANGED <<angle, i, usbIsReset, noticed, due>>

HostReset(t) ==
    /\ reset = -ResetPause
    /\ reset' = t
    /\ noticed' = FALSE
    /\ due' = (at # "delay")
    /\ UNCHANGED <<angle, TOV0, phase, i, at, usbIsReset, gap, since>>

PwmNext ==
    \/ \E d \in DelayTimes : Delay(d)
    \/ \E d \in PollTimes : UsbPoll(d)
    \/ NoOverflow
    \/ \E s \in Stolen : TimerInterrupt(s)
    \/ \E t \in ResetTimes : HostReset(t)

PwmSpec == Init /\ [][PwmNext]_pwmVars

-----------------------------------------------------------------------------
PwmTypeOK ==
    /\ angle \in Uint8
    /\ phase \in 0..TimerPeriod - 1
    /\ i \in 0..Delays /\ at \in {"delay", "poll", "timer"}
    /\ gap \in Nat /\ since \in Nat
    /\ reset \in Int /\ reset >= -ResetPause
    /\ TOV0 \in BOOLEAN /\ usbIsReset \in BOOLEAN
    /\ noticed \in BOOLEAN /\ due \in BOOLEAN

\* From the beginning of the main loop on, and however long the pulse, usbPoll is
\* called again before the host gives up on a SETUP (usbdrv.h:156-158 asks for less
\* than 50 ms).  Before the loop a SETUP waits for up to a second (main.c:99-104).
PolledInTime == gap < MaxDelay

\* When a bus reset is over during which the main loop ran, from its beginning or
\* for at least one usbPoll, usbPoll has seen it while it lasted, and has acted upon
\* it instead of taking it for the one before (usbdrv.c:532-544).  A reset that ends
\* within the second before the loop is seen by nobody (main.c:99-104).
ResetNoticed == ~InReset /\ due => noticed

\* From the beginning of the main loop on the servo never waits for a pulse longer
\* than a timer period or a pulse, and one usbPoll, although overflows during a pulse
\* are counted by a single bit.
PulsesInTime ==
    since <= (IF LongestPulse > TimerPeriod THEN LongestPulse ELSE TimerPeriod) + LongestPoll
=============================================================================
