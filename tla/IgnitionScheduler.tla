-------------------------- MODULE IgnitionScheduler --------------------------
(***************************************************************************)
(* The ignition schedules of scheduler.cpp and schedule_state_machine.cpp, *)
(* with the hardware timers that drive them, the per-tooth correction of   *)
(* schedule_calcs.hpp and the over-dwell protection that the 1 ms          *)
(* interrupt runs (scheduler_ignition_controller.cpp).                     *)
(*                                                                         *)
(* Three activities interleave:                                            *)
(*   - the main loop, which calls setSchedule (one ATOMIC block);          *)
(*   - the compare-match interrupt of each channel, which serves the       *)
(*     match flag of the channel's timer;                                  *)
(*   - the 1 ms interrupt.  It is declared ISR_NOBLOCK on the Mega, so the *)
(*     compare-match interrupts preempt it between two ATOMIC blocks,      *)
(*     while the main loop stays suspended until it returns.               *)
(* Time advances by timer ticks (4 us on the Mega).  A match flag stays up *)
(* until its interrupt is served, whatever the program stores in the       *)
(* compare register meanwhile.                                             *)
(***************************************************************************)
EXTENDS Integers

CONSTANTS
  IGN_CHANNELS,   \* number of ignition channels
  TimerPeriod,    \* counts of a hardware timer (2^16)
  MicrosWrap,     \* ticks after which micros() wraps (2^32 us)
  UsPerTick,      \* micro seconds per timer tick
  UINT16_MAX,     \* the longest duration a caller can ask for (us)
  Delays,         \* delays the main loop may compute (us)
  Durations,      \* dwell times the main loop may compute (us)
  Corrections,    \* ticks to the event that a decoder may compute per tooth
  OverDwellActive,\* isOverDwellActive: limiter on and crank not locked
  DwellLimit,     \* page4.dwellLimit, in us
  MsTicks,        \* ticks between two overflows of the 1 ms timer
  Latency,        \* ticks an interrupt may be held off
  PassTicks       \* ticks a pass of the 1 ms interrupt may last

ASSUME TimingAssumption ==
  /\ IGN_CHANNELS \in Nat \ {0}
  /\ TimerPeriod \in Nat \ {0, 1}
  /\ MicrosWrap \in Nat \ {0}
  /\ UsPerTick \in Nat \ {0}
  /\ UINT16_MAX \in Nat
  /\ Delays \subseteq Nat
  /\ Durations \subseteq 0..UINT16_MAX
  /\ Corrections \subseteq Nat \ {0}
  /\ OverDwellActive \in BOOLEAN
  /\ DwellLimit \in Nat
  /\ MsTicks \in Nat \ {0}
  /\ Latency \in Nat
  /\ PassTicks \in Nat

\* micros() wraps together with the timers, both count the same clock.
ASSUME WrapAssumption == MicrosWrap % TimerPeriod = 0

Channels == 1..IGN_CHANNELS

VARIABLES
  status,        \* Schedule::_status
  duration,      \* Schedule::_duration, ticks
  nextStart,     \* Schedule::_nextStartCompare
  compare,       \* the compare register of the channel's timer
  flag,          \* its match flag: 0 = clear, else 1 + ticks it has been up
  startTime,     \* IgnitionSchedule::_startTime, in ticks
  coil,          \* output level: is the coil charging?
  now,           \* the clock behind micros() and the timer counters
  msCounter,     \* ticks since the last overflow of the 1 ms timer
  msFlag,        \* its overflow flag, like flag
  odNow,         \* micros() captured by applyOverDwellProtection
  odNext         \* channel it looks at next; 0 = not running

schedVars == <<status, duration, nextStart, compare, startTime, coil>>
odVars == <<msCounter, msFlag, odNow, odNext>>
vars == <<schedVars, flag, now, odVars>>

States == {"OFF", "PENDING", "RUNNING", "RUNNING_WITHNEXT"}

TypeOK ==
  /\ status \in [Channels -> States]
  /\ duration \in [Channels -> Nat]
  /\ nextStart \in [Channels -> 0..TimerPeriod - 1]
  /\ compare \in [Channels -> 0..TimerPeriod - 1]
  /\ flag \in [Channels -> 0..Latency + 1]
  /\ startTime \in [Channels -> 0..MicrosWrap - 1]
  /\ coil \in [Channels -> BOOLEAN]
  /\ now \in 0..MicrosWrap - 1
  /\ msCounter \in 0..MsTicks - 1
  /\ msFlag \in 0..Latency + 1
  /\ odNow \in 0..MicrosWrap - 1
  /\ odNext \in 0..IGN_CHANNELS

-----------------------------------------------------------------------------
(* Time and the arithmetic of the registers.                               *)

\* The free running counter of the timers.
counter == now % TimerPeriod

\* uS_TO_TIMER_COMPARE: truncating conversion.
Ticks(us) == us \div UsPerTick

\* Mutant: the value is stored without the cast to the register's width.
MutantUncast(ticks) == ticks

\* A value as stored in a compare register.
Wrapped(ticks) == ticks % TimerPeriod

\* MAX_TIMER_PERIOD, in us.
MAX_TIMER_PERIOD == (TimerPeriod - 1) * UsPerTick

clipDuration(us) ==
  IF MAX_TIMER_PERIOD < UINT16_MAX /\ us > MAX_TIMER_PERIOD - 1
  THEN MAX_TIMER_PERIOD - 1
  ELSE us

\* Unsigned subtraction of two readings of micros(), in ticks.
Since(later, earlier) == (later - earlier) % MicrosWrap

\* Mutant: the comparison elapsed_time.h warns of, not safe across a wrap.
MutantAbsoluteTime(at, start, interval) ==
  at * UsPerTick >= start * UsPerTick + interval

hasIntervalElapsed(at, start, interval) ==
  Since(at, start) * UsPerTick >= interval

-----------------------------------------------------------------------------
(* The schedule's state machine.                                           *)

isRunning(c) == status[c] \in {"RUNNING", "RUNNING_WITHNEXT"}

\* The coil starts charging and the match is set for the end of the dwell.
ignitionPendingToRunning(c) ==
  /\ status[c] = "PENDING"
  /\ coil' = [coil EXCEPT ![c] = TRUE]
  /\ status' = [status EXCEPT ![c] = "RUNNING"]
  /\ compare' = [compare EXCEPT ![c] = Wrapped(counter + duration[c])]
  /\ startTime' = [startTime EXCEPT ![c] = now]
  /\ UNCHANGED <<duration, nextStart>>

\* The spark fires and nothing is queued.
ignitionRunningToOff(c) ==
  /\ status[c] = "RUNNING"
  /\ coil' = [coil EXCEPT ![c] = FALSE]
  /\ status' = [status EXCEPT ![c] = "OFF"]
  /\ UNCHANGED <<duration, nextStart, compare, startTime>>

\* Mutant: the queued event is armed without the end callback.
MutantKeepsCharging(c) ==
  /\ status[c] = "RUNNING_WITHNEXT"
  /\ compare' = [compare EXCEPT ![c] = nextStart[c]]
  /\ status' = [status EXCEPT ![c] = "PENDING"]
  /\ UNCHANGED <<duration, nextStart, startTime, coil>>

\* The spark fires and the queued event is armed for its own start.
ignitionRunningToPending(c) ==
  /\ status[c] = "RUNNING_WITHNEXT"
  /\ coil' = [coil EXCEPT ![c] = FALSE]
  /\ compare' = [compare EXCEPT ![c] = nextStart[c]]
  /\ status' = [status EXCEPT ![c] = "PENDING"]
  /\ UNCHANGED <<duration, nextStart, startTime>>

\* A match of the free running timer of a schedule that is off.
IgnoreMatch(c) ==
  /\ status[c] = "OFF"
  /\ UNCHANGED schedVars

moveToNextState(c) ==
  \/ ignitionPendingToRunning(c)
  \/ ignitionRunningToOff(c)
  \/ ignitionRunningToPending(c)
  \/ IgnoreMatch(c)

-----------------------------------------------------------------------------
(* The main loop: setSchedule.                                             *)

\* Mutant: a running schedule is armed anew.
MutantRearms(c, delay, dwell) ==
  /\ duration' = [duration EXCEPT ![c] = Ticks(clipDuration(dwell))]
  /\ compare' = [compare EXCEPT ![c] = Wrapped(counter + Ticks(delay))]
  /\ status' = [status EXCEPT ![c] = "PENDING"]
  /\ UNCHANGED <<nextStart, startTime, coil>>

setScheduleRunning(c, delay, dwell) ==
  /\ ~isRunning(c)
  /\ duration' = [duration EXCEPT ![c] = Ticks(clipDuration(dwell))]
  /\ compare' = [compare EXCEPT ![c] = Wrapped(counter + Ticks(delay))]
  /\ status' = [status EXCEPT ![c] = "PENDING"]
  /\ UNCHANGED <<nextStart, startTime, coil>>

\* Mutant: the queued start goes straight into the compare register.
MutantQueuesInCompare(c, delay, dwell) ==
  /\ isRunning(c)
  /\ duration' = [duration EXCEPT ![c] = Ticks(clipDuration(dwell))]
  /\ compare' = [compare EXCEPT ![c] = Wrapped(counter + Ticks(delay))]
  /\ nextStart' = [nextStart EXCEPT ![c] = Wrapped(counter + Ticks(delay))]
  /\ status' = [status EXCEPT ![c] = "RUNNING_WITHNEXT"]
  /\ UNCHANGED <<startTime, coil>>

setScheduleNext(c, delay, dwell) ==
  /\ isRunning(c)
  /\ duration' = [duration EXCEPT ![c] = Ticks(clipDuration(dwell))]
  /\ nextStart' = [nextStart EXCEPT ![c] = Wrapped(counter + Ticks(delay))]
  /\ status' = [status EXCEPT ![c] = "RUNNING_WITHNEXT"]
  /\ UNCHANGED <<compare, startTime, coil>>

\* allowQueued depends on the engine speed alone; where it is false a request
\* for a running schedule changes nothing.
setSchedule(c, delay, dwell) ==
  /\ delay > 0
  /\ delay < MAX_TIMER_PERIOD
  /\ dwell > 0
  /\ \/ setScheduleRunning(c, delay, dwell)
     \/ setScheduleNext(c, delay, dwell)

\* The main loop runs only while the 1 ms interrupt does not.
SetSchedule(c) ==
  /\ odNext = 0
  /\ \E delay \in Delays, dwell \in Durations : setSchedule(c, delay, dwell)
  /\ UNCHANGED <<flag, now, odVars>>

\* Per-tooth timing: the decoder's interrupt moves the next match to where
\* the event is expected now.  It too preempts the 1 ms interrupt.
adjustCrankAngle(c) ==
  /\ isRunning(c) \/ status[c] = "PENDING"
  /\ \E ticks \in Corrections :
       compare' = [compare EXCEPT ![c] = Wrapped(counter + ticks)]
  /\ UNCHANGED <<status, duration, nextStart, startTime, coil, flag, now, odVars>>

-----------------------------------------------------------------------------
(* The 1 ms interrupt: over-dwell protection.                              *)

\* The time is read once, before the first channel is looked at.
applyOverDwellProtection ==
  /\ msFlag > 0
  /\ odNext = 0
  /\ msFlag' = 0
  /\ IF OverDwellActive
     THEN odNow' = now /\ odNext' = 1
     ELSE UNCHANGED <<odNow, odNext>>
  /\ UNCHANGED <<schedVars, flag, now, msCounter>>

\* Mutant: the limiter overlooks a schedule that has a queued event.
MutantLimitsUnqueued ==
  /\ odNext \in Channels
  /\ LET c == odNext
     IN  IF status[c] = "RUNNING" /\ hasIntervalElapsed(odNow, startTime[c], DwellLimit)
         THEN moveToNextState(c)
         ELSE UNCHANGED schedVars
  /\ odNext' = IF odNext = IGN_CHANNELS THEN 0 ELSE odNext + 1
  /\ UNCHANGED <<flag, now, msCounter, msFlag, odNow>>

\* One channel, in its own ATOMIC block.
applyChannelOverDwellProtection ==
  /\ odNext \in Channels
  /\ LET c == odNext
     IN  IF isRunning(c) /\ hasIntervalElapsed(odNow, startTime[c], DwellLimit)
         THEN moveToNextState(c)
         ELSE UNCHANGED schedVars
  /\ odNext' = IF odNext = IGN_CHANNELS THEN 0 ELSE odNext + 1
  /\ UNCHANGED <<flag, now, msCounter, msFlag, odNow>>

-----------------------------------------------------------------------------
(* The hardware.                                                           *)

\* Mutant: the interrupt insists that the counter still equals the register.
MutantExactMatch(c) ==
  /\ flag[c] > 0
  /\ flag' = [flag EXCEPT ![c] = 0]
  /\ IF counter = compare[c] THEN moveToNextState(c) ELSE UNCHANGED schedVars
  /\ UNCHANGED <<now, odVars>>

\* The compare-match interrupt of channel c: serving it clears the flag.
ServeMatch(c) ==
  /\ flag[c] > 0
  /\ flag' = [flag EXCEPT ![c] = 0]
  /\ moveToNextState(c)
  /\ UNCHANGED <<now, odVars>>

\* A flag after one more tick: once up it stays up, and raises say whether
\* the event that raises it happens in this tick.
Raised(f, event) == IF f > 0 THEN f + 1 ELSE IF event THEN 1 ELSE 0

\* A match is latched by the tick that leaves the compare value.  Interrupts
\* are held off for at most Latency ticks and the 1 ms interrupt returns
\* within PassTicks.
Tick ==
  /\ \A c \in Channels : flag[c] <= Latency
  /\ msFlag <= Latency
  /\ odNext = 0 \/ Since(now, odNow) < PassTicks
  /\ now' = (now + 1) % MicrosWrap
  /\ flag' = [c \in Channels |-> Raised(flag[c], counter = compare[c])]
  /\ msCounter' = (msCounter + 1) % MsTicks
  /\ msFlag' = Raised(msFlag, msCounter + 1 = MsTicks)
  /\ UNCHANGED <<schedVars, odNow, odNext>>

-----------------------------------------------------------------------------
\* After initialiseIgnitionSchedules and startIgnitionSchedulers.
Init ==
  /\ status = [c \in Channels |-> "OFF"]
  /\ duration = [c \in Channels |-> 0]
  /\ nextStart = [c \in Channels |-> 0]
  /\ compare = [c \in Channels |-> 0]
  /\ flag = [c \in Channels |-> 0]
  /\ startTime = [c \in Channels |-> 0]
  /\ coil = [c \in Channels |-> FALSE]
  /\ now = 0
  /\ msCounter = 0
  /\ msFlag = 0
  /\ odNow = 0
  /\ odNext = 0

Next ==
  \/ Tick
  \/ \E c \in Channels : SetSchedule(c) \/ adjustCrankAngle(c) \/ ServeMatch(c)
  \/ applyOverDwellProtection
  \/ applyChannelOverDwellProtection

\* The clock ticks and the hardware serves what is pending; nothing obliges
\* the main loop to schedule anything.
Fairness ==
  /\ WF_vars(Tick)
  /\ \A c \in Channels : WF_vars(ServeMatch(c))
  /\ WF_vars(applyOverDwellProtection)
  /\ WF_vars(applyChannelOverDwellProtection)

Spec == Init /\ [][Next]_vars

FairSpec == Spec /\ Fairness

-----------------------------------------------------------------------------
(* Properties.                                                             *)

\* The output follows the status through every interleaving of the main loop,
\* the match interrupts and the limiter: a coil charges exactly while its
\* schedule runs, so no schedule that is off or waiting leaves a coil on.
CoilFollowsStatus == \A c \in Channels : coil[c] <=> isRunning(c)

\* The longest dwell the hardware timing permits: with the limiter, the limit
\* plus the wait for the next pass; without it, the longest dwell asked for.
LongestDwell ==
  IF OverDwellActive
  THEN ((DwellLimit + UsPerTick - 1) \div UsPerTick) + MsTicks + Latency + PassTicks
  ELSE Ticks(clipDuration(UINT16_MAX)) + Latency + 1

\* No coil is left charging for longer than that, whatever the decoder's
\* corrections and the queueing of further events do to the compare register.
DwellBounded ==
  \A c \in Channels : coil[c] => Since(now, startTime[c]) <= LongestDwell

\* Without corrections and limiter a coil charges for the time one of the
\* requests asked for, late by at most the interrupt latency: arming the next
\* event while one runs must not stretch or cut the one that runs.
DwellAsRequested ==
  [][\A c \in Channels :
       coil[c] /\ ~coil'[c] =>
         \E us \in Durations :
           Since(now, startTime[c]) - Ticks(clipDuration(us)) \in 1..Latency + 1]_vars

\* A coil that charges is switched off again: each dwell ends although
\* further events keep being queued, and, with the limiter, although
\* corrections keep moving the match.
EveryDwellEnds == \A c \in Channels : coil[c] ~> ~coil[c]

\* An armed event is not lost: unless the main loop or the decoder re-arms it
\* for ever, it starts, if need be one revolution of the timer late.
PendingStarts ==
  \A c \in Channels :
    \/ []<><<SetSchedule(c) \/ adjustCrankAngle(c)>>_vars
    \/ (status[c] = "PENDING" ~> coil[c])

\* The schedules implement the state machine schedule_state_machine.h
\* documents, and every start is followed by its end.
StateMachine == INSTANCE ScheduleStateMachine
                  WITH driven <- {c \in Channels : coil[c]}

ImplementsStateMachine == StateMachine!Spec
=============================================================================
