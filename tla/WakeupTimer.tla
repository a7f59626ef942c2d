----------------------------- MODULE WakeupTimer -----------------------------
(***************************************************************************)
(* The wakeup timer across the wrap of the millisecond clock.  The clock   *)
(* the interpreter sees is real time modulo ClockPeriod (2^29 ms, some six *)
(* days); nextWakeupTick is not reduced modulo the period, so a tick past  *)
(* the wrap is larger than any clock value until checkForInterrupts sees   *)
(* the clock behind lastTick and subtracts a period.  The image computes a *)
(* tick from a clock value it read earlier.                                *)
(***************************************************************************)
EXTENDS Integers

CONSTANTS
    ClockPeriod,   \* MillisecondClockMask + 1
    MaxDelay,      \* the longest delay the image asks for
    TimeSlice,     \* 1000/60, the shortest sleep of the relinquish primitive
    MaxTime,       \* end of the modelled time (a bound)
    WrapSeenFirst  \* TRUE: between a wrap and the next check the image does
                   \* not set the timer and the idle process does not sleep,
                   \* and no wrap comes between reading the clock and setting

ASSUME TimerAssumption ==
    /\ ClockPeriod \in Nat \ {0}
    /\ MaxDelay \in 1..(ClockPeriod - 1)
    /\ TimeSlice \in Nat \ {0}
    /\ MaxTime \in Nat
    /\ WrapSeenFirst \in BOOLEAN

VARIABLES
    now,             \* real time in milliseconds
    lastTick,        \* the clock at the last check
    nextWakeupTick,  \* 0: no timer
    read,            \* real time the image last read the clock
    checked,         \* history: real time of the last check
    due,             \* history: real time the image set the timer for
    firedAt          \* history: real time the timer fired, or -1

vars == <<now, lastTick, nextWakeupTick, read, checked, due, firedAt>>

clock(t) == t % ClockPeriod

Init ==
    /\ now = 0
    /\ lastTick = 0
    /\ nextWakeupTick = 0
    /\ read = 0
    /\ checked = 0
    /\ due = 0
    /\ firedAt = -1

\* The clock has not wrapped since the last check.
WrapSeen == now \div ClockPeriod = checked \div ClockPeriod

\* A check comes at least once in a period.
tick ==
    /\ now < MaxTime
    /\ now + 1 < checked + ClockPeriod
    /\ now' = now + 1
    /\ UNCHANGED <<lastTick, nextWakeupTick, read, checked, due, firedAt>>

primitiveMillisecondClock ==
    /\ read' = now
    /\ UNCHANGED <<now, lastTick, nextWakeupTick, checked, due, firedAt>>

\* The image asks to be woken delay after the time it read.
primitiveSignalAtMilliseconds(delay) ==
    /\ WrapSeenFirst =>
          WrapSeen /\ now \div ClockPeriod = read \div ClockPeriod
    /\ nextWakeupTick' = clock(read) + delay
    /\ due' = read + delay
    /\ firedAt' = -1
    /\ UNCHANGED <<now, lastTick, read, checked>>

\* A tick of 0, or no semaphore.
turnOff ==
    /\ nextWakeupTick' = 0
    /\ UNCHANGED <<now, lastTick, read, checked, due, firedAt>>

\* Mutant: the clock standing still counts as a wrap.
adjustedTick_AtWrap ==
    IF clock(now) <= lastTick THEN nextWakeupTick - ClockPeriod
                              ELSE nextWakeupTick

\* Mutant: the wrap of the clock is not noticed.
adjustedTick_NoWrap == nextWakeupTick

\* The tick the check compares the clock with.
adjustedTick ==
    IF clock(now) < lastTick THEN nextWakeupTick - ClockPeriod
                             ELSE nextWakeupTick

checkForInterrupts ==
    /\ IF nextWakeupTick = 0
       THEN UNCHANGED <<nextWakeupTick, firedAt>>
       ELSE IF clock(now) >= adjustedTick
            THEN nextWakeupTick' = 0 /\ firedAt' = now
            ELSE nextWakeupTick' = adjustedTick /\ UNCHANGED firedAt
    /\ lastTick' = clock(now)
    /\ checked' = now
    /\ UNCHANGED <<now, read, due>>

\* Mutant: sleeps for the tick, not for the time that is left.
sleepFor_Tick == IF nextWakeupTick < TimeSlice THEN 0 ELSE nextWakeupTick

\* How long ioRelinquishProcessorForMicroseconds sleeps without an event.
sleepFor ==
    LET ms == IF nextWakeupTick = 0 THEN 0
              ELSE IF nextWakeupTick <= clock(now) THEN TimeSlice
              ELSE nextWakeupTick - clock(now)
    IN  IF ms < TimeSlice THEN 0 ELSE ms

\* An event may cut the sleep short.
ioRelinquishProcessorForMicroseconds ==
    /\ WrapSeenFirst => WrapSeen
    /\ \E d \in 0..sleepFor :
         /\ now + d <= MaxTime
         /\ now + d < checked + ClockPeriod
         /\ now' = now + d
    /\ UNCHANGED <<lastTick, nextWakeupTick, read, checked, due, firedAt>>

Next ==
    \/ tick
    \/ primitiveMillisecondClock
    \/ \E delay \in 1..MaxDelay : primitiveSignalAtMilliseconds(delay)
    \/ turnOff
    \/ checkForInterrupts
    \/ ioRelinquishProcessorForMicroseconds

Spec == Init /\ [][Next]_vars

-----------------------------------------------------------------------------
\* Every variable has its type; an adjusted tick is never left negative.
TypeOK ==
    /\ now \in 0..MaxTime
    /\ lastTick \in 0..(ClockPeriod - 1)
    /\ nextWakeupTick \in 0..(ClockPeriod + MaxDelay)
    /\ firedAt \in {-1} \cup Nat

\* "Cause the time semaphore ... to be signalled when the millisecond clock
\* is greater than or equal to the given tick value": never before the time
\* the image set the timer for, whether the clock wrapped or not.
NeverEarly == firedAt # -1 => firedAt >= due

\* A check leaves no timer armed whose time has come.
NeverMissed ==
    [][checked' # checked /\ nextWakeupTick' # 0 => due > now]_vars

\* The idle sleep ends when the timer is due, or after a time slice.
NeverOversleeps ==
    nextWakeupTick # 0 /\ (WrapSeenFirst => WrapSeen)
        => now + sleepFor <= due \/ sleepFor <= TimeSlice
=============================================================================
