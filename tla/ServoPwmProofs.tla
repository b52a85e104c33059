--------------------------- MODULE ServoPwmProofs ---------------------------
(***************************************************************************)
(* The properties of ServoPwm for all times a host and the interrupts may   *)
(* take within the two assumptions.                                         *)
(***************************************************************************)
EXTENDS ServoPwm, TLAPS

\* Between two calls of usbPoll there is at most one pulse.
GapIsAPulse ==
    /\ at # "poll" => gap = 0
    /\ gap <= LongestPulse

\* The flag is as old as the last call of usbPoll.
FlagIsRecent == usbIsReset => reset > -gap

\* A reset not yet noticed, but due to be, outlasts the pulse under way and the next
\* usbPoll, which will not take it for the one before.
ResetWillBeNoticed ==
    due /\ ~noticed =>
        /\ at # "delay" /\ ~usbIsReset
        /\ reset > (IF at = "timer" THEN LongestPulse ELSE 0) + LongestPoll

\* Without an overflow since the last pulse the timer has counted that time; with
\* one, the next pulse is at most a usbPoll away.
OverflowsAreKept ==
    /\ ~TOV0 => since <= phase
    /\ TOV0 /\ at = "poll" => since <= LongestPulse
    /\ since <= (IF LongestPulse > TimerPeriod THEN LongestPulse ELSE TimerPeriod)
                + (IF at = "timer" THEN LongestPoll ELSE 0)
       \/ ~TOV0

\* Before the loop no usbPoll has set the flag, and no pulse is waited for.
NotYet == at = "delay" => i < Delays /\ since = 0 /\ ~usbIsReset

Numbers ==
    /\ angle \in Uint8
    /\ phase \in 0..TimerPeriod - 1
    /\ i \in 0..Delays /\ at \in {"delay", "poll", "timer"}
    /\ gap \in Nat /\ since \in Nat
    /\ reset \in Int /\ reset >= -ResetPause

Flags ==
    /\ TOV0 \in BOOLEAN /\ usbIsReset \in BOOLEAN
    /\ noticed \in BOOLEAN /\ due \in BOOLEAN

PwmIInv ==
    Numbers /\ Flags /\ GapIsAPulse /\ FlagIsRecent /\ ResetWillBeNoticed
    /\ OverflowsAreKept /\ NotYet

-----------------------------------------------------------------------------
\* A pulse takes a time between one unit and the longest (main.c:26-38).
LEMMA PulseLength ==
    ASSUME NEW a \in Uint8, NEW s \in Stolen
    PROVE  /\ PulseTime(a) + s \in Nat \ {0}
           /\ PulseTime(a) + s <= LongestPulse
BY LoopAssumption DEF PulseTime, LongestPulse, Uint8

LEMMA Longest == LongestPulse \in Nat /\ LongestPoll \in Nat /\ ResetPause \in Nat
BY LoopAssumption, HostAssumption DEF PulseTime, LongestPulse

\* What the passing of time does to the timer and to the host's reset.
LEMMA TimePasses ==
    ASSUME NEW d \in Nat \ {0}, NEW f \in BOOLEAN, Numbers, Elapse(d, f)
    PROVE  /\ phase' \in 0..TimerPeriod - 1
           /\ TOV0' \in BOOLEAN
           /\ ~TOV0' => ~f /\ phase' = phase + d
           /\ reset' \in Int /\ reset' >= -ResetPause
           /\ reset' >= reset - d
<1>1. phase' \in 0..TimerPeriod - 1
    BY DEF Elapse, Numbers, TimerPeriod
<1>2. TOV0' \in BOOLEAN
    BY DEF Elapse
<1>3. ~TOV0' => ~f /\ phase' = phase + d
  <2> SUFFICES ASSUME ~TOV0' PROVE ~f /\ phase' = phase + d
    OBVIOUS
  <2>1. ~f /\ ~(phase + d >= TimerPeriod)
    BY Zenon DEF Elapse
  <2>2. phase' = (phase + d) % TimerPeriod
    BY DEF Elapse
  <2> QED BY <2>1, <2>2 DEF Numbers, TimerPeriod
<1>4. reset' \in Int /\ reset' >= -ResetPause /\ reset' >= reset - d
    BY Longest DEF Elapse, Numbers
<1> QED BY <1>1, <1>2, <1>3, <1>4

LEMMA InitPwm == Init => PwmIInv
<1> SUFFICES ASSUME Init PROVE PwmIInv
    OBVIOUS
<1>1. Numbers
    BY Longest DEF Init, Numbers, Uint8, Delays, TimerPeriod
<1>2. Flags /\ FlagIsRecent /\ ResetWillBeNoticed
    BY Zenon DEF Init, Flags, FlagIsRecent, ResetWillBeNoticed
<1>3. GapIsAPulse /\ NotYet
    BY Longest DEF Init, GapIsAPulse, NotYet, Delays
<1>4. OverflowsAreKept
  <2>1. ~TOV0 /\ phase = 0 /\ since = 0
    BY DEF Init
  <2> QED BY <2>1 DEF OverflowsAreKept
<1> QED BY <1>1, <1>2, <1>3, <1>4 DEF PwmIInv

LEMMA DelayKeeps ==
    ASSUME PwmIInv, NEW d \in DelayTimes, Delay(d)
    PROVE  PwmIInv'
<1> USE DEF PwmIInv
<1>1. d \in Nat \ {0}
    BY LoopAssumption
<1>2. /\ phase' \in 0..TimerPeriod - 1
      /\ TOV0' \in BOOLEAN
      /\ ~TOV0' => ~TOV0 /\ phase' = phase + d
      /\ reset' \in Int /\ reset' >= -ResetPause
      /\ reset' >= reset - d
    BY <1>1, TimePasses DEF Delay, Flags
<1>3. /\ at = "delay" /\ i' = i + 1
      /\ UNCHANGED <<usbIsReset, gap, since, noticed>>
    BY DEF Delay
<1>4. i < Delays /\ since = 0 /\ ~usbIsReset /\ gap = 0
    BY <1>3 DEF NotYet, GapIsAPulse
<1>5. \/ i' < Delays /\ UNCHANGED <<angle, at, due>>
      \/ angle' = 0 /\ at' = "poll" /\ due' = (reset' > LongestPoll)
    BY DEF Delay
<1>6. Numbers'
    BY <1>2, <1>3, <1>4, <1>5 DEF Numbers, Delays, Uint8
<1>7. Flags'
  <2>1. (reset' > LongestPoll) \in BOOLEAN
    OBVIOUS
  <2>2. due' = due \/ due' = (reset' > LongestPoll)
    BY <1>5
  <2>3. due' \in BOOLEAN
    BY <2>1, <2>2 DEF Flags
  <2> QED BY <1>2, <1>3, <2>3 DEF Flags
<1>8. GapIsAPulse' /\ FlagIsRecent'
    BY <1>3, <1>4, Longest DEF GapIsAPulse, FlagIsRecent
<1>9. NotYet'
    BY <1>3, <1>4, <1>5 DEF NotYet
<1>10. ResetWillBeNoticed'
  <2>1. CASE i' < Delays /\ UNCHANGED <<angle, at, due>>
    BY <1>3, <2>1, Zenon DEF ResetWillBeNoticed
  <2>2. CASE angle' = 0 /\ at' = "poll" /\ due' = (reset' > LongestPoll)
    <3>1. due' => reset' > LongestPoll
        BY <2>2
    <3>2. due' => reset' > (IF at' = "timer" THEN LongestPulse ELSE 0) + LongestPoll
        BY <2>2, <3>1, Longest
    <3>3. at' # "delay" /\ ~usbIsReset'
        BY <1>3, <1>4, <2>2
    <3> QED BY <3>2, <3>3, Zenon DEF ResetWillBeNoticed
  <2> QED BY <1>5, <2>1, <2>2
<1>11. OverflowsAreKept'
    BY <1>1, <1>2, <1>3, <1>4, <1>5, Longest DEF OverflowsAreKept, Numbers, TimerPeriod
<1> QED BY <1>6, <1>7, <1>8, <1>9, <1>10, <1>11

LEMMA PollKeeps ==
    ASSUME PwmIInv, NEW d \in PollTimes, UsbPoll(d)
    PROVE  PwmIInv'
<1> USE DEF PwmIInv
<1>1. d \in Nat \ {0} /\ d <= LongestPoll
    BY LoopAssumption
<1>2. /\ phase' \in 0..TimerPeriod - 1
      /\ TOV0' \in BOOLEAN
      /\ ~TOV0' => ~TOV0 /\ phase' = phase + d
      /\ reset' \in Int /\ reset' >= -ResetPause
      /\ reset' >= reset - d
    BY <1>1, TimePasses DEF UsbPoll, Flags
<1>3. /\ at = "poll" /\ at' = "timer" /\ gap' = 0 /\ since' = since + d
      /\ UNCHANGED <<i, due>>
    BY DEF UsbPoll
<1>4. Numbers'
  <2>1. angle' \in Uint8
    BY LoopAssumption DEF UsbPoll, Numbers
  <2> QED BY <1>1, <1>2, <1>3, <2>1 DEF Numbers
<1>5. Flags'
    BY <1>2, <1>3 DEF Flags, UsbPoll, SampleBus
<1>6. GapIsAPulse' /\ NotYet'
    BY <1>3, Longest DEF GapIsAPulse, NotYet
<1>7. FlagIsRecent'
  <2>1. usbIsReset' => reset' > 0
    BY Zenon DEF UsbPoll, SampleBus
  <2>2. reset' \in Int /\ gap' = 0
    BY <1>2, <1>3
  <2>3. reset' > 0 => reset' > -gap'
    BY <2>2
  <2> QED BY <2>1, <2>3, Zenon DEF FlagIsRecent
<1>8. due' => noticed'
  <2> SUFFICES ASSUME due PROVE noticed'
    BY <1>3
  <2>1. CASE noticed
    BY <2>1 DEF UsbPoll, SampleBus
  <2>2. CASE ~noticed
    <3>1. reset > LongestPoll
        BY <1>3, <2>2, Longest DEF ResetWillBeNoticed
    <3>2. reset' > 0
        BY <1>1, <1>2, <3>1, Longest DEF Numbers
    <3>3. ~usbIsReset
        BY <2>2 DEF ResetWillBeNoticed
    <3> QED BY <3>2, <3>3 DEF UsbPoll, SampleBus
  <2> QED BY <2>1, <2>2
<1>9. OverflowsAreKept'
  <2>1. ~TOV0' => since' <= phase'
    BY <1>1, <1>2, <1>3 DEF OverflowsAreKept, Numbers
  <2>2. since <= (IF LongestPulse > TimerPeriod THEN LongestPulse ELSE TimerPeriod)
    BY <1>3, Longest DEF OverflowsAreKept, Numbers, TimerPeriod
  <2> QED BY <1>1, <1>3, <2>1, <2>2, Longest DEF OverflowsAreKept, Numbers, TimerPeriod
<1> QED BY <1>4, <1>5, <1>6, <1>7, <1>8, <1>9 DEF ResetWillBeNoticed

LEMMA PulseKeeps ==
    ASSUME PwmIInv, NEW s \in Stolen, TimerInterrupt(s)
    PROVE  PwmIInv'
<1> USE DEF PwmIInv
<1> DEFINE length == PulseTime(angle) + s
<1>1. length \in Nat \ {0} /\ length <= LongestPulse
    BY PulseLength DEF Numbers
<1>2. Elapse(length, FALSE)
    BY DEF TimerInterrupt
<1>3. /\ at = "timer" /\ at' = "poll" /\ gap' = gap + length /\ since' = length
      /\ UNCHANGED <<angle, i, usbIsReset, noticed, due>>
    BY DEF TimerInterrupt
<1> HIDE DEF length
<1>4. /\ phase' \in 0..TimerPeriod - 1
      /\ TOV0' \in BOOLEAN
      /\ ~TOV0' => phase' = phase + length
      /\ reset' \in Int /\ reset' >= -ResetPause
      /\ reset' >= reset - length
    BY <1>1, <1>2, TimePasses
<1>5. Numbers'
    BY <1>1, <1>3, <1>4 DEF Numbers
<1>6. Flags'
    BY <1>3, <1>4 DEF Flags
<1>7. GapIsAPulse' /\ NotYet'
    BY <1>1, <1>3 DEF GapIsAPulse, NotYet, Numbers
<1>8. FlagIsRecent'
  <2>1. reset > -gap => reset' > -gap'
    BY <1>1, <1>3, <1>4 DEF Numbers
  <2>2. usbIsReset' = usbIsReset
    BY <1>3
  <2> QED BY <2>1, <2>2, Zenon DEF FlagIsRecent
<1>9. ResetWillBeNoticed'
  <2> SUFFICES ASSUME due, ~noticed PROVE ~usbIsReset /\ reset' > LongestPoll
    BY <1>3, Longest DEF ResetWillBeNoticed
  <2>1. ~usbIsReset /\ reset > LongestPulse + LongestPoll
    BY <1>3 DEF ResetWillBeNoticed
  <2> QED BY <1>1, <1>4, <2>1, Longest DEF Numbers
<1>10. OverflowsAreKept'
    BY <1>1, <1>3, <1>4, Longest DEF OverflowsAreKept, Numbers, TimerPeriod
<1> QED BY <1>5, <1>6, <1>7, <1>8, <1>9, <1>10

LEMMA HostResetKeeps ==
    ASSUME PwmIInv, NEW t \in ResetTimes, HostReset(t)
    PROVE  PwmIInv'
<1> USE DEF PwmIInv
<1>1. /\ t \in Nat /\ LongestPulse + LongestPoll < t
      /\ LongestPulse < ResetPause
    BY HostAssumption
<1>2. /\ reset = -ResetPause /\ reset' = t /\ noticed' = FALSE
      /\ due' = (at # "delay")
      /\ UNCHANGED <<angle, TOV0, phase, i, at, usbIsReset, gap, since>>
    BY DEF HostReset
<1>3. ~usbIsReset
    BY <1>1, <1>2, Longest DEF FlagIsRecent, GapIsAPulse, Numbers
<1>4. Numbers' /\ GapIsAPulse'
    BY <1>1, <1>2, Longest DEF Numbers, GapIsAPulse
<1>5. OverflowsAreKept' /\ NotYet'
    BY <1>2, Zenon DEF OverflowsAreKept, NotYet
<1>6. Flags'
    BY <1>2, Zenon DEF Flags
<1>7. FlagIsRecent'
    BY <1>2, <1>3 DEF FlagIsRecent
<1>8. ResetWillBeNoticed'
  <2>1. reset' > (IF at' = "timer" THEN LongestPulse ELSE 0) + LongestPoll
    BY <1>1, <1>2, Longest
  <2>2. due' => at' # "delay"
    BY <1>2
  <2> QED BY <1>2, <1>3, <2>1, <2>2, Zenon DEF ResetWillBeNoticed
<1> QED BY <1>4, <1>5, <1>6, <1>7, <1>8

LEMMA NoOverflowKeeps == PwmIInv /\ NoOverflow => PwmIInv'
BY Longest
   DEF PwmIInv, NoOverflow, Numbers, Flags, GapIsAPulse, FlagIsRecent,
       ResetWillBeNoticed, OverflowsAreKept, NotYet

\* The inductive invariant holds in every behaviour of main.
THEOREM PwmInvariance == PwmSpec => []PwmIInv
<1>1. PwmIInv /\ [PwmNext]_pwmVars => PwmIInv'
  <2> SUFFICES ASSUME PwmIInv, [PwmNext]_pwmVars PROVE PwmIInv'
    OBVIOUS
  <2>0. CASE \E d \in DelayTimes : Delay(d)
    BY <2>0, DelayKeeps
  <2>1. CASE \E d \in PollTimes : UsbPoll(d)
    BY <2>1, PollKeeps
  <2>2. CASE NoOverflow
    BY <2>2, NoOverflowKeeps
  <2>3. CASE \E s \in Stolen : TimerInterrupt(s)
    BY <2>3, PulseKeeps
  <2>4. CASE \E t \in ResetTimes : HostReset(t)
    BY <2>4, HostResetKeeps
  <2>5. CASE UNCHANGED pwmVars
    BY <2>5 DEF PwmIInv, Numbers, Flags, GapIsAPulse, FlagIsRecent,
                ResetWillBeNoticed, OverflowsAreKept, NotYet, pwmVars
  <2> QED BY <2>0, <2>1, <2>2, <2>3, <2>4, <2>5 DEF PwmNext
<1> QED BY InitPwm, <1>1, PTL DEF PwmSpec

\* From the beginning of the main loop on no pulse keeps usbPoll away for as long as a
\* host waits: usbdrv.h:156-158.
THEOREM AlwaysPolledInTime == PwmSpec => []PolledInTime
<1>1. PwmIInv => PolledInTime
    BY Longest, HostAssumption DEF PwmIInv, Numbers, GapIsAPulse, PolledInTime
<1> QED BY <1>1, PwmInvariance, PTL

\* usbPoll sees each bus reset that begins in the main loop, or lasts into it for one
\* usbPoll, while it lasts, and resets the device (usbdrv.c:532-544), which ServoBus
\* takes for granted; one that is over before is not promised anything.
THEOREM EveryResetNoticed == PwmSpec => []ResetNoticed
<1>1. PwmIInv => ResetNoticed
    BY Longest DEF PwmIInv, Numbers, ResetWillBeNoticed, ResetNoticed, InReset
<1> QED BY <1>1, PwmInvariance, PTL

\* From the beginning of the main loop on the single overflow bit loses no pulse that
\* would have been due (main.c:109-112).
THEOREM AlwaysPulsesInTime == PwmSpec => []PulsesInTime
<1>1. PwmIInv => PulsesInTime
    BY Longest DEF PwmIInv, Numbers, OverflowsAreKept, PulsesInTime, TimerPeriod
<1> QED BY <1>1, PwmInvariance, PTL

\* The types of the main loop's variables.
THEOREM PwmTypes == PwmSpec => []PwmTypeOK
<1>1. PwmIInv => PwmTypeOK
    BY DEF PwmIInv, Numbers, Flags, PwmTypeOK
<1> QED BY <1>1, PwmInvariance, PTL
=============================================================================
