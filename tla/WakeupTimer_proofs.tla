------------------------- MODULE WakeupTimer_proofs -------------------------
(***************************************************************************)
(* The wakeup timer keeps its promises across every wrap of the clock, for *)
(* every period, delay and time slice, if the image leaves a wrap to the   *)
(* check to see (WrapSeenFirst).  The argument: an armed tick is due minus *)
(* the real time at which the period of the last check began.  Setting the *)
(* timer makes it so, and the check keeps it so when it subtracts a period *)
(* because the clock is behind lastTick.                                   *)
(***************************************************************************)
EXTENDS WakeupTimer, TLAPS

\* How often the clock has wrapped at t, and when it last did.
Wraps(t) == t \div ClockPeriod
Began(t) == t - clock(t)

TInv ==
    /\ TypeOK
    /\ checked \in Nat /\ read \in Nat /\ due \in Nat
    /\ read <= now
    /\ checked <= now /\ now < checked + ClockPeriod
    /\ lastTick = clock(checked)
    /\ nextWakeupTick # 0 => nextWakeupTick = due - Began(checked)
    /\ NeverEarly

-----------------------------------------------------------------------------
(* Lemmas about the clock.                                                 *)

LEMMA Constants ==
    /\ ClockPeriod \in Nat /\ ClockPeriod > 0
    /\ MaxDelay \in Nat /\ MaxDelay > 0
    /\ TimeSlice \in Nat /\ TimeSlice > 0
    /\ MaxTime \in Nat
BY TimerAssumption

\* Division with remainder, for a period that is not known.
LEMMA ClockRange ==
    ASSUME NEW t \in Nat
    PROVE  /\ clock(t) \in Nat /\ clock(t) < ClockPeriod
           /\ Wraps(t) \in Nat
           /\ ClockPeriod * Wraps(t) = t - clock(t)
<1>1. t % ClockPeriod \in Nat /\ t % ClockPeriod < ClockPeriod
  BY Constants
<1>2. t \div ClockPeriod \in Nat
  BY Constants
<1>3. t - (t % ClockPeriod) = ClockPeriod * (t \div ClockPeriod)
  BY Constants
<1> QED BY <1>1, <1>2, <1>3 DEF clock, Wraps

\* Two different multiples of the period are at least a period apart.
LEMMA NearMultiples ==
    ASSUME NEW a \in Nat, NEW b \in Nat,
           ClockPeriod * b < ClockPeriod * (a + 1)
    PROVE  b <= a
<1> SUFFICES ASSUME b >= a + 1 PROVE FALSE
  OBVIOUS
<1>1. PICK c \in Nat : b = (a + 1) + c
  OBVIOUS
<1>2. ClockPeriod * b = ClockPeriod * (a + 1) + ClockPeriod * c
  BY <1>1, Constants
<1>3. ClockPeriod * c \in Nat /\ ClockPeriod * (a + 1) \in Nat
  BY Constants
<1> QED BY <1>2, <1>3

\* Within a period after s the clock is ahead of what it was at s, or has
\* wrapped once and is behind it: the clock alone tells the two apart.
LEMMA OneWrapAtMost ==
    ASSUME NEW s \in Nat, NEW t \in Nat, s <= t, t < s + ClockPeriod
    PROVE  \/ /\ Wraps(t) = Wraps(s)
              /\ Began(t) = Began(s)
              /\ clock(s) <= clock(t)
           \/ /\ Wraps(t) # Wraps(s)
              /\ Began(t) = Began(s) + ClockPeriod
              /\ clock(t) < clock(s)
<1> DEFINE a == Wraps(s)
           b == Wraps(t)
           A == ClockPeriod * a
           B == ClockPeriod * b
<1>1. /\ a \in Nat /\ b \in Nat
      /\ A = s - clock(s) /\ B = t - clock(t)
      /\ clock(s) \in Nat /\ clock(s) < ClockPeriod
      /\ clock(t) \in Nat /\ clock(t) < ClockPeriod
  BY ClockRange
<1>0. A \in Int /\ B \in Int
  BY <1>1
<1>2. /\ ClockPeriod * (a + 1) = A + ClockPeriod
      /\ ClockPeriod * (b + 1) = B + ClockPeriod
      /\ ClockPeriod * ((a + 1) + 1) = A + ClockPeriod + ClockPeriod
  BY <1>0, <1>1, Constants
<1>3. a <= b
  <2>1. A < B + ClockPeriod
    <3> HIDE DEF A, B, a, b
    <3> QED BY <1>0, <1>1, Constants
  <2> QED BY <2>1, <1>1, <1>2, NearMultiples
<1>4. b <= a + 1
  <2>1. B < A + ClockPeriod + ClockPeriod
    <3> HIDE DEF A, B, a, b
    <3> QED BY <1>0, <1>1, Constants
  <2> QED BY <2>1, <1>1, <1>2, NearMultiples
<1>5. CASE a = b
  <2>1. A = B
    BY <1>5
  <2> HIDE DEF A, B
  <2> QED BY <1>1, <1>5, <2>1 DEF Began
<1>6. CASE b = a + 1
  <2>1. B = A + ClockPeriod
    BY <1>6, <1>2
  <2>2. a # b
    BY <1>6, <1>1
  <2> HIDE DEF A, B
  <2> QED BY <1>1, <2>1, <2>2, Constants DEF Began
<1>7. a = b \/ b = a + 1
  <2> HIDE DEF a, b
  <2> QED BY <1>1, <1>3, <1>4
<1> QED BY <1>5, <1>6, <1>7

LEMMA WrapSeenMeans == WrapSeen <=> Wraps(now) = Wraps(checked)
BY DEF WrapSeen, Wraps

\* The tick the check compares counts from the period the check is in.
LEMMA Adjusted ==
    ASSUME TInv, nextWakeupTick # 0
    PROVE  adjustedTick = due - Began(now)
<1>1. now \in Nat /\ checked \in Nat /\ nextWakeupTick \in Nat /\ due \in Nat
  BY Constants DEF TInv, TypeOK
<1>2. /\ lastTick = clock(checked)
      /\ nextWakeupTick = due - Began(checked)
      /\ clock(now) \in Nat /\ clock(checked) \in Nat
  BY <1>1, ClockRange DEF TInv
<1>3. \/ Began(now) = Began(checked) /\ clock(checked) <= clock(now)
      \/ /\ Began(now) = Began(checked) + ClockPeriod
         /\ clock(now) < clock(checked)
  BY <1>1, OneWrapAtMost DEF TInv
<1>4. Began(now) \in Int /\ Began(checked) \in Int
  BY <1>1, <1>2 DEF Began
<1> QED BY <1>1, <1>2, <1>3, <1>4, Constants DEF adjustedTick

-----------------------------------------------------------------------------
(* The invariant.                                                          *)

LEMMA InitOK == Init => TInv
<1> SUFFICES ASSUME Init PROVE TInv
  OBVIOUS
<1>1. clock(0) = 0
  <2>1. /\ clock(0) \in Nat /\ ClockPeriod * Wraps(0) = 0 - clock(0)
        /\ Wraps(0) \in Nat
    BY ClockRange
  <2>2. ClockPeriod * Wraps(0) \in Nat
    BY <2>1, Constants
  <2> QED BY <2>1, <2>2
<1> QED BY <1>1, Constants DEF Init, TInv, TypeOK, NeverEarly

\* Setting the timer: the period the image read the clock in is the one of
\* the last check.
LEMMA SetStep ==
    ASSUME WrapSeenFirst, TInv, NEW delay \in 1..MaxDelay,
           primitiveSignalAtMilliseconds(delay)
    PROVE  TInv'
<1>1. /\ now \in Nat /\ checked \in Nat /\ read \in Nat
      /\ read <= now /\ checked <= now /\ now < checked + ClockPeriod
  BY Constants DEF TInv, TypeOK
<1>2. /\ nextWakeupTick' = clock(read) + delay /\ due' = read + delay
      /\ firedAt' = -1
      /\ UNCHANGED <<now, lastTick, read, checked>>
  BY DEF primitiveSignalAtMilliseconds
<1>3. Wraps(read) = Wraps(checked)
  BY WrapSeenMeans DEF primitiveSignalAtMilliseconds, Wraps
<1>4. Began(read) = Began(checked)
  <2>1. \A t \in Nat : t - clock(t) = ClockPeriod * Wraps(t)
    BY ClockRange
  <2> QED BY <2>1, <1>1, <1>3 DEF Began
<1>5. clock(read) \in Nat /\ clock(read) < ClockPeriod
  BY <1>1, ClockRange
<1>6. clock(read) + delay = (read + delay) - Began(read)
  BY <1>1, <1>5, Constants DEF Began
<1>7. nextWakeupTick' \in 0..(ClockPeriod + MaxDelay) /\ due' \in Nat
  BY <1>1, <1>2, <1>5, Constants
<1>8. nextWakeupTick' = due' - Began(checked)
  BY <1>2, <1>4, <1>6
<1>9. clock(checked)' = clock(checked) /\ Began(checked)' = Began(checked)
  BY <1>2 DEF clock, Began
<1> QED BY <1>2, <1>7, <1>8, <1>9 DEF TInv, TypeOK, NeverEarly

\* The check: the timer fires exactly if it is due, and otherwise its tick
\* counts from the period of this check.
LEMMA CheckStep ==
    ASSUME TInv, checkForInterrupts
    PROVE  /\ TInv'
           /\ nextWakeupTick' # 0 => due > now
<1>1. /\ now \in Nat /\ checked \in Nat /\ read \in Nat /\ due \in Nat
      /\ nextWakeupTick \in Nat /\ now \in 0..MaxTime
      /\ nextWakeupTick <= ClockPeriod + MaxDelay
      /\ read <= now /\ checked <= now /\ now < checked + ClockPeriod
  BY Constants DEF TInv, TypeOK
<1>2. /\ lastTick' = clock(now) /\ checked' = now
      /\ UNCHANGED <<now, read, due>>
  BY DEF checkForInterrupts
<1>3. /\ clock(now) \in Nat /\ clock(now) < ClockPeriod
      /\ Began(now) = now - clock(now)
  BY <1>1, ClockRange DEF Began
<1>4. lastTick' \in 0..(ClockPeriod - 1) /\ lastTick' = clock(checked)'
      /\ Began(checked)' = Began(now)
  BY <1>2, <1>3, Constants DEF clock, Began
<1>5. CASE nextWakeupTick = 0
  BY <1>1, <1>2, <1>3, <1>4, <1>5, Constants
     DEF TInv, TypeOK, NeverEarly, checkForInterrupts
<1>6. CASE nextWakeupTick # 0
  <2>1. adjustedTick = due - Began(now)
    BY <1>6, Adjusted
  <2>2. clock(now) >= adjustedTick <=> now >= due
    BY <1>1, <1>3, <2>1
  <2>3. CASE now >= due
    <3>1. nextWakeupTick' = 0 /\ firedAt' = now
      BY <1>6, <2>2, <2>3 DEF checkForInterrupts
    <3> QED BY <3>1, <2>3, <1>1, <1>2, <1>3, <1>4, Constants
            DEF TInv, TypeOK, NeverEarly
  <2>4. CASE ~(now >= due)
    <3>1. nextWakeupTick' = adjustedTick /\ firedAt' = firedAt
      BY <1>6, <2>2, <2>4 DEF checkForInterrupts
    <3>2. adjustedTick <= nextWakeupTick
      BY <1>1, Constants DEF adjustedTick
    <3>3. adjustedTick \in Nat /\ adjustedTick <= ClockPeriod + MaxDelay
      BY <1>1, <1>3, <2>1, <2>4, <3>2, Constants
    <3>4. nextWakeupTick' \in 0..(ClockPeriod + MaxDelay) /\ due > now
      BY <1>1, <2>4, <3>1, <3>3, Constants
    <3> QED BY <3>1, <3>4, <2>1, <1>1, <1>2, <1>3, <1>4, Constants
            DEF TInv, TypeOK, NeverEarly
  <2> QED BY <2>3, <2>4, <1>1
<1> QED BY <1>5, <1>6

\* Time passing: the next check is less than a period after the last.
LEMMA TimeStep ==
    ASSUME TInv, NEW d \in Nat, now' = now + d, now + d <= MaxTime,
           now + d < checked + ClockPeriod,
           UNCHANGED <<lastTick, nextWakeupTick, read, checked, due, firedAt>>
    PROVE  TInv'
<1>1. clock(checked)' = clock(checked) /\ Began(checked)' = Began(checked)
  BY DEF clock, Began
<1> QED BY <1>1, Constants DEF TInv, TypeOK, NeverEarly

LEMMA SleepRange ==
    ASSUME TInv
    PROVE  sleepFor \in Nat
<1>1. now \in Nat /\ nextWakeupTick \in Nat
  BY Constants DEF TInv, TypeOK
<1>2. clock(now) \in Nat
  BY <1>1, ClockRange
<1> QED BY <1>1, <1>2, Constants DEF sleepFor

LEMMA NextStep ==
    ASSUME WrapSeenFirst, TInv, [Next]_vars
    PROVE  TInv' /\ (checked' # checked /\ nextWakeupTick' # 0 => due > now)
<1>1. CASE tick
  <2>1. /\ now < MaxTime /\ now + 1 < checked + ClockPeriod
        /\ now' = now + 1 /\ now \in Nat
        /\ UNCHANGED <<lastTick, nextWakeupTick, read, checked, due, firedAt>>
    BY <1>1 DEF tick, TInv, TypeOK
  <2>2. now + 1 <= MaxTime
    BY <2>1, Constants
  <2> QED BY <2>1, <2>2, TimeStep
<1>2. CASE primitiveMillisecondClock
  <2>1. /\ read' = now
        /\ UNCHANGED <<now, lastTick, nextWakeupTick, checked, due, firedAt>>
    BY <1>2 DEF primitiveMillisecondClock
  <2>2. clock(checked)' = clock(checked) /\ Began(checked)' = Began(checked)
    BY <2>1 DEF clock, Began
  <2> QED BY <2>1, <2>2, Constants DEF TInv, TypeOK, NeverEarly
<1>3. ASSUME NEW delay \in 1..MaxDelay, primitiveSignalAtMilliseconds(delay)
      PROVE  TInv' /\ checked' = checked
  BY <1>3, SetStep DEF primitiveSignalAtMilliseconds
<1>4. CASE turnOff
  <2>1. nextWakeupTick' = 0
        /\ UNCHANGED <<now, lastTick, read, checked, due, firedAt>>
    BY <1>4 DEF turnOff
  <2>2. clock(checked)' = clock(checked) /\ Began(checked)' = Began(checked)
    BY <2>1 DEF clock, Began
  <2> QED BY <2>1, <2>2, Constants DEF TInv, TypeOK, NeverEarly
<1>5. CASE checkForInterrupts
  BY <1>5, CheckStep
<1>6. CASE ioRelinquishProcessorForMicroseconds
  <2>1. PICK d \in 0..sleepFor :
              /\ now + d <= MaxTime /\ now + d < checked + ClockPeriod
              /\ now' = now + d
    BY <1>6 DEF ioRelinquishProcessorForMicroseconds
  <2>2. d \in Nat
    BY <2>1, SleepRange
  <2>3. UNCHANGED <<lastTick, nextWakeupTick, read, checked, due, firedAt>>
    BY <1>6 DEF ioRelinquishProcessorForMicroseconds
  <2> QED BY <2>1, <2>2, <2>3, TimeStep
<1>7. CASE UNCHANGED vars
  <2>1. clock(checked)' = clock(checked) /\ Began(checked)' = Began(checked)
    BY <1>7 DEF vars, clock, Began
  <2> QED BY <1>7, <2>1 DEF TInv, TypeOK, NeverEarly, vars
<1> QED BY <1>1, <1>2, <1>3, <1>4, <1>5, <1>6, <1>7 DEF Next

\* While no wrap is waiting to be seen, the tick less the clock is the time
\* left.
LEMMA SleepInTime ==
    ASSUME WrapSeenFirst, TInv
    PROVE  NeverOversleeps
<1> SUFFICES ASSUME nextWakeupTick # 0, Wraps(now) = Wraps(checked)
             PROVE  now + sleepFor <= due \/ sleepFor <= TimeSlice
  BY WrapSeenMeans DEF NeverOversleeps
<1>1. /\ now \in Nat /\ checked \in Nat /\ due \in Nat /\ nextWakeupTick \in Nat
      /\ checked <= now /\ now < checked + ClockPeriod
      /\ nextWakeupTick = due - Began(checked)
  BY Constants DEF TInv, TypeOK
<1>2. Began(now) = Began(checked) /\ clock(now) \in Nat
  BY <1>1, OneWrapAtMost, ClockRange
<1>3. nextWakeupTick - clock(now) = due - now
  BY <1>1, <1>2 DEF Began
<1> QED BY <1>1, <1>2, <1>3, Constants DEF sleepFor

-----------------------------------------------------------------------------
(* The results.                                                            *)

LEMMA Invariance ==
    ASSUME WrapSeenFirst PROVE Spec => []TInv
<1>1. Init => TInv
  BY InitOK
<1>2. TInv /\ [Next]_vars => TInv'
  BY NextStep
<1> QED BY <1>1, <1>2, PTL DEF Spec

\* The arithmetic of nextWakeupTick stays in range: no tick that
\* checkForInterrupts leaves armed is negative.
THEOREM TimerTypeCorrect ==
    ASSUME WrapSeenFirst PROVE Spec => []TypeOK
<1>1. TInv => TypeOK
  BY DEF TInv
<1> QED BY <1>1, Invariance, PTL

\* checkForInterrupts never signals the timer semaphore before the time the
\* image set it for, however often the clock wraps.
THEOREM TimerNeverEarly ==
    ASSUME WrapSeenFirst PROVE Spec => []NeverEarly
<1>1. TInv => NeverEarly
  BY DEF TInv
<1> QED BY <1>1, Invariance, PTL

\* No check leaves a timer armed whose time has come.
THEOREM TimerNeverMissed ==
    ASSUME WrapSeenFirst PROVE Spec => NeverMissed
<1>1. TInv /\ [Next]_vars
        => [checked' # checked /\ nextWakeupTick' # 0 => due > now]_vars
  BY NextStep
<1> QED BY <1>1, Invariance, PTL DEF Spec, NeverMissed

\* The sleep that ioRelinquishProcessorForMicroseconds computes ends when the
\* timer is due, or after a time slice.
THEOREM TimerNeverOversleeps ==
    ASSUME WrapSeenFirst PROVE Spec => []NeverOversleeps
<1>1. TInv => NeverOversleeps
  BY SleepInTime
<1> QED BY <1>1, Invariance, PTL
=============================================================================
