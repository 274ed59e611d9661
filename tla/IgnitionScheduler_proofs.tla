----------------------- MODULE IgnitionScheduler_proofs -----------------------
(***************************************************************************)
(* Theorems about IgnitionScheduler, for every number of channels and all  *)
(* timing constants.  The inductive invariant is the type invariant with   *)
(* CoilFollowsStatus: no step can lose the correspondence between output   *)
(* and status, because each transition of the state machine writes both    *)
(* and no other step writes either.                                        *)
(***************************************************************************)
EXTENDS IgnitionScheduler, TLAPS

Inv == TypeOK /\ CoilFollowsStatus

\* The remainders the registers are computed with stay in their range.
LEMMA WrappedInRange ==
  ASSUME NEW t \in Nat
  PROVE  Wrapped(t) \in 0..TimerPeriod - 1
BY TimingAssumption DEF Wrapped

\* The counter is a natural number below the timer's period.
LEMMA CounterInRange ==
  ASSUME TypeOK
  PROVE  counter \in 0..TimerPeriod - 1
BY TimingAssumption DEF TypeOK, counter

\* A conversion to ticks yields a natural number.
LEMMA TicksNat ==
  ASSUME NEW us \in Nat
  PROVE  Ticks(us) \in Nat
BY TimingAssumption DEF Ticks

LEMMA ClipNat ==
  ASSUME NEW us \in Nat
  PROVE  clipDuration(us) \in Nat
<1>1. TimerPeriod - 1 \in Nat \ {0}
  BY TimingAssumption
<1>2. UsPerTick \in Nat \ {0}
  BY TimingAssumption
<1>3. MAX_TIMER_PERIOD \in Nat \ {0}
  <2>1. \A a, b \in Nat \ {0} : a * b \in Nat \ {0}
    OBVIOUS
  <2> QED BY <1>1, <1>2, <2>1 DEF MAX_TIMER_PERIOD
<1> QED BY <1>3 DEF clipDuration

\* The transitions of the state machine: the heart of the matter, used by the
\* match interrupt and by the limiter.
LEMMA TransitionKeepsInv ==
  ASSUME Inv, NEW c \in Channels, moveToNextState(c)
  PROVE  /\ status' \in [Channels -> States]
         /\ duration' \in [Channels -> Nat]
         /\ nextStart' \in [Channels -> 0..TimerPeriod - 1]
         /\ compare' \in [Channels -> 0..TimerPeriod - 1]
         /\ startTime' \in [Channels -> 0..MicrosWrap - 1]
         /\ coil' \in [Channels -> BOOLEAN]
         /\ CoilFollowsStatus'
<1> USE DEF Inv
<1>1. CASE ignitionPendingToRunning(c)
  <2>1. Wrapped(counter + duration[c]) \in 0..TimerPeriod - 1
    <3>1. counter + duration[c] \in Nat
      BY CounterInRange, TimingAssumption DEF TypeOK
    <3> QED BY <3>1, WrappedInRange
  <2>2. now \in 0..MicrosWrap - 1
    BY DEF TypeOK
  <2>3. CoilFollowsStatus'
    BY <1>1 DEF ignitionPendingToRunning, TypeOK, CoilFollowsStatus, isRunning
  <2> QED BY <1>1, <2>1, <2>2, <2>3 DEF ignitionPendingToRunning, TypeOK, States
<1>2. CASE ignitionRunningToOff(c)
  <2>1. CoilFollowsStatus'
    BY <1>2 DEF ignitionRunningToOff, TypeOK, CoilFollowsStatus, isRunning
  <2> QED BY <1>2, <2>1 DEF ignitionRunningToOff, TypeOK, States
<1>3. CASE ignitionRunningToPending(c)
  <2>1. CoilFollowsStatus'
    BY <1>3 DEF ignitionRunningToPending, TypeOK, CoilFollowsStatus, isRunning
  <2> QED BY <1>3, <2>1 DEF ignitionRunningToPending, TypeOK, States
<1>4. CASE IgnoreMatch(c)
  BY <1>4 DEF IgnoreMatch, schedVars, TypeOK, CoilFollowsStatus, isRunning
<1> QED BY <1>1, <1>2, <1>3, <1>4 DEF moveToNextState

LEMMA InitInv == Init => Inv
BY TimingAssumption DEF Init, Inv, TypeOK, CoilFollowsStatus, isRunning, States

\* A flag that is not overdue, after one more tick.
LEMMA RaisedInRange ==
  ASSUME NEW f \in 0..Latency, NEW e \in BOOLEAN
  PROVE  Raised(f, e) \in 0..Latency + 1
BY TimingAssumption DEF Raised

LEMMA SetScheduleKeepsInv ==
  ASSUME Inv, NEW c \in Channels, SetSchedule(c)
  PROVE  Inv'
<1> USE DEF Inv
<1>1. PICK delay \in Delays, dwell \in Durations : setSchedule(c, delay, dwell)
  BY DEF SetSchedule
<1>2. delay \in Nat /\ dwell \in Nat
  BY TimingAssumption
<1>3. Ticks(clipDuration(dwell)) \in Nat
  BY <1>2, ClipNat, TicksNat
<1>4. Wrapped(counter + Ticks(delay)) \in 0..TimerPeriod - 1
  <2>1. counter \in Nat /\ Ticks(delay) \in Nat
    BY <1>2, CounterInRange, TicksNat
  <2>2. counter + Ticks(delay) \in Nat
    BY <2>1
  <2> QED BY <2>2, WrappedInRange
<1>5. UNCHANGED <<flag, now, odVars>>
  BY DEF SetSchedule
<1>6. CASE setScheduleRunning(c, delay, dwell)
  <2>1. CoilFollowsStatus'
    BY <1>6 DEF setScheduleRunning, TypeOK, CoilFollowsStatus, isRunning
  <2>2. TypeOK'
    BY <1>3, <1>4, <1>5, <1>6 DEF setScheduleRunning, TypeOK, States, odVars
  <2> QED BY <2>1, <2>2
<1>7. CASE setScheduleNext(c, delay, dwell)
  <2>1. CoilFollowsStatus'
    BY <1>7 DEF setScheduleNext, TypeOK, CoilFollowsStatus, isRunning
  <2>2. TypeOK'
    BY <1>3, <1>4, <1>5, <1>7 DEF setScheduleNext, TypeOK, States, odVars
  <2> QED BY <2>1, <2>2
<1> QED BY <1>1, <1>6, <1>7 DEF setSchedule

LEMMA AdjustKeepsInv ==
  ASSUME Inv, NEW c \in Channels, adjustCrankAngle(c)
  PROVE  Inv'
<1> USE DEF Inv
<1>1. PICK ticks \in Corrections :
        compare' = [compare EXCEPT ![c] = Wrapped(counter + ticks)]
  BY DEF adjustCrankAngle
<1>2. counter + ticks \in Nat
  BY CounterInRange, TimingAssumption
<1>3. Wrapped(counter + ticks) \in 0..TimerPeriod - 1
  BY <1>2, WrappedInRange
<1> QED BY <1>1, <1>3 DEF adjustCrankAngle, TypeOK, CoilFollowsStatus, isRunning, odVars

LEMMA LimiterKeepsInv ==
  ASSUME Inv, applyChannelOverDwellProtection
  PROVE  Inv'
<1> USE DEF Inv
<1> DEFINE c == odNext
<1>1. c \in Channels
  BY DEF applyChannelOverDwellProtection
<1>2. /\ UNCHANGED <<flag, now, msCounter, msFlag, odNow>>
      /\ odNext' = IF odNext = IGN_CHANNELS THEN 0 ELSE odNext + 1
  BY DEF applyChannelOverDwellProtection
<1>3. odNext' \in 0..IGN_CHANNELS
  BY <1>1, <1>2, TimingAssumption DEF Channels
<1>4. CASE moveToNextState(c)
  BY <1>1, <1>2, <1>3, <1>4, TransitionKeepsInv DEF TypeOK
<1>5. CASE UNCHANGED schedVars
  BY <1>2, <1>3, <1>5 DEF TypeOK, schedVars, CoilFollowsStatus, isRunning
<1> QED BY <1>4, <1>5 DEF applyChannelOverDwellProtection

LEMMA TickKeepsInv ==
  ASSUME Inv, Tick
  PROVE  Inv'
<1> USE DEF Inv
<1>1. now' \in 0..MicrosWrap - 1
  BY TimingAssumption DEF Tick, TypeOK
<1>2. flag' \in [Channels -> 0..Latency + 1]
  <2>1. ASSUME NEW c \in Channels
        PROVE  Raised(flag[c], counter = compare[c]) \in 0..Latency + 1
    <3>1. flag[c] \in 0..Latency
      BY TimingAssumption DEF Tick, TypeOK
    <3> QED BY <3>1, RaisedInRange
  <2> QED BY <2>1 DEF Tick
<1>3. msFlag' \in 0..Latency + 1
  <2>1. msFlag \in 0..Latency
    BY TimingAssumption DEF Tick, TypeOK
  <2> QED BY <2>1, RaisedInRange DEF Tick
<1>4. UNCHANGED <<schedVars, odNow, odNext>>
  BY DEF Tick
<1>5. msCounter' \in 0..MsTicks - 1
  BY TimingAssumption DEF Tick, TypeOK
<1> QED BY <1>1, <1>2, <1>3, <1>4, <1>5 DEF TypeOK, schedVars, CoilFollowsStatus, isRunning

\* Every step preserves the invariant: one case per action.
LEMMA NextKeepsInv == Inv /\ [Next]_vars => Inv'
<1> SUFFICES ASSUME Inv, [Next]_vars
             PROVE  Inv'
  OBVIOUS
<1>1. CASE Tick
  BY <1>1, TickKeepsInv
<1>2. ASSUME NEW c \in Channels, SetSchedule(c)
      PROVE  Inv'
  BY <1>2, SetScheduleKeepsInv
<1>3. ASSUME NEW c \in Channels, adjustCrankAngle(c)
      PROVE  Inv'
  BY <1>3, AdjustKeepsInv
<1>4. ASSUME NEW c \in Channels, ServeMatch(c)
      PROVE  Inv'
  <2>1. moveToNextState(c)
    BY <1>4 DEF ServeMatch
  <2>2. flag' \in [Channels -> 0..Latency + 1] /\ UNCHANGED <<now, odVars>>
    BY <1>4, TimingAssumption DEF ServeMatch, Inv, TypeOK
  <2> QED BY <2>1, <2>2, TransitionKeepsInv DEF Inv, TypeOK, odVars
<1>5. CASE applyOverDwellProtection
  BY <1>5, TimingAssumption
     DEF applyOverDwellProtection, Inv, TypeOK, CoilFollowsStatus, isRunning, schedVars
<1>6. CASE applyChannelOverDwellProtection
  BY <1>6, LimiterKeepsInv
<1>7. CASE UNCHANGED vars
  BY <1>7 DEF vars, schedVars, odVars, Inv, TypeOK, CoilFollowsStatus, isRunning
<1> QED BY <1>1, <1>2, <1>3, <1>4, <1>5, <1>6, <1>7 DEF Next

\* Type correctness: in particular every compare register and clock reading
\* stays within its width.
THEOREM TypeCorrect == Spec => []TypeOK
<1>1. Inv => TypeOK
  BY DEF Inv
<1> QED BY InitInv, NextKeepsInv, <1>1, PTL DEF Spec

\* scheduler.h: a schedule is running when "the action has started, but not
\* finished".  The coil's output and the status agree in every reachable state.
THEOREM CoilCorrect == Spec => []CoilFollowsStatus
<1>1. Inv => CoilFollowsStatus
  BY DEF Inv
<1> QED BY InitInv, NextKeepsInv, <1>1, PTL DEF Spec

-----------------------------------------------------------------------------
(* The schedules implement ScheduleStateMachine: what is left to TLC is its *)
(* fairness.                                                               *)

\* Every transition that an interrupt or the limiter makes is one of the
\* documented state machine, or no transition at all.
LEMMA TransitionRefines ==
  ASSUME Inv, NEW c \in Channels, moveToNextState(c)
  PROVE  StateMachine!Next \/ UNCHANGED <<status, coil>>
<1>1. CASE ignitionPendingToRunning(c)
  <2>1. StateMachine!Start(c)
    BY <1>1 DEF ignitionPendingToRunning, StateMachine!Start, Inv, TypeOK
  <2> QED BY <2>1 DEF StateMachine!Next
<1>2. CASE ignitionRunningToOff(c)
  <2>1. StateMachine!Finish(c)
    BY <1>2 DEF ignitionRunningToOff, StateMachine!Finish, StateMachine!Running,
                Inv, TypeOK
  <2> QED BY <2>1 DEF StateMachine!Next
<1>3. CASE ignitionRunningToPending(c)
  <2>1. StateMachine!Finish(c)
    BY <1>3 DEF ignitionRunningToPending, StateMachine!Finish,
                StateMachine!Running, Inv, TypeOK
  <2> QED BY <2>1 DEF StateMachine!Next
<1>4. CASE IgnoreMatch(c)
  BY <1>4 DEF IgnoreMatch, schedVars
<1> QED BY <1>1, <1>2, <1>3, <1>4 DEF moveToNextState

\* schedule_state_machine.h: "All Schedule instances move through the same set
\* of states in the same sequence".  Each step of the main loop, of the
\* interrupts and of the limiter is a step of the documented machine or leaves
\* status and output alone.
THEOREM FollowsStateMachine ==
  Spec => StateMachine!Init /\ [][StateMachine!Next]_(StateMachine!vars)
<1>1. Init => StateMachine!Init
  BY DEF Init, StateMachine!Init
<1>2. Inv /\ [Next]_vars => [StateMachine!Next]_(StateMachine!vars)
  <2> SUFFICES ASSUME Inv, [Next]_vars
               PROVE  StateMachine!Next \/ UNCHANGED <<status, coil>>
    BY DEF StateMachine!vars
  <2>1. CASE Tick
    BY <2>1 DEF Tick, schedVars
  <2>2. ASSUME NEW c \in Channels, SetSchedule(c)
        PROVE  StateMachine!Next
    <3>1. PICK delay \in Delays, dwell \in Durations : setSchedule(c, delay, dwell)
      BY <2>2 DEF SetSchedule
    <3>2. CASE setScheduleRunning(c, delay, dwell)
      <4>1. StateMachine!Arm(c)
        BY <3>2 DEF setScheduleRunning, StateMachine!Arm, StateMachine!Running,
                    isRunning
      <4> QED BY <4>1 DEF StateMachine!Next
    <3>3. CASE setScheduleNext(c, delay, dwell)
      <4>1. StateMachine!Queue(c)
        BY <3>3 DEF setScheduleNext, StateMachine!Queue, StateMachine!Running,
                    isRunning
      <4> QED BY <4>1 DEF StateMachine!Next
    <3> QED BY <3>1, <3>2, <3>3 DEF setSchedule
  <2>3. ASSUME NEW c \in Channels, adjustCrankAngle(c)
        PROVE  UNCHANGED <<status, coil>>
    BY <2>3 DEF adjustCrankAngle
  <2>4. ASSUME NEW c \in Channels, ServeMatch(c)
        PROVE  StateMachine!Next \/ UNCHANGED <<status, coil>>
    BY <2>4, TransitionRefines DEF ServeMatch
  <2>5. CASE applyOverDwellProtection
    BY <2>5 DEF applyOverDwellProtection, schedVars
  <2>6. CASE applyChannelOverDwellProtection
    <3>1. odNext \in Channels
      BY <2>6 DEF applyChannelOverDwellProtection
    <3>2. moveToNextState(odNext) \/ UNCHANGED schedVars
      BY <2>6 DEF applyChannelOverDwellProtection
    <3> QED BY <3>1, <3>2, TransitionRefines DEF schedVars
  <2>7. CASE UNCHANGED vars
    BY <2>7 DEF vars, schedVars
  <2> QED BY <2>1, <2>2, <2>3, <2>4, <2>5, <2>6, <2>7 DEF Next
<1> QED BY <1>1, <1>2, InitInv, NextKeepsInv, PTL DEF Spec
-----------------------------------------------------------------------------
(* How long a coil charges.  A dwell is measured on a clock that wraps, and *)
(* ended by a match that the program may have moved, or by a limiter that  *)
(* works with a time it read before it was preempted.                      *)

\* A remainder of what is already in range, of what is one turn below, and of
\* the number after.
LEMMA SmallRemainder ==
  ASSUME NEW m \in Nat \ {0}, NEW x \in Int, 0 <= x, x < m
  PROVE  x % m = x
OBVIOUS

LEMMA NegativeRemainder ==
  ASSUME NEW m \in Nat \ {0}, NEW x \in Int, -m <= x, x < 0
  PROVE  x % m = x + m
OBVIOUS

\* Division leaves a remainder below the divisor.
LEMMA Division ==
  ASSUME NEW m \in Nat \ {0}, NEW x \in Int
  PROVE  x \div m \in Int /\ x = (m * (x \div m)) + (x % m) /\ x % m \in 0..m - 1
OBVIOUS

\* Two multiples are as far apart as the number they are multiples of.
LEMMA Multiples ==
  ASSUME NEW m \in Nat \ {0}, NEW a \in Int, NEW b \in Int, a < b
  PROVE  m * b >= m * a + m
<1>1. m * b = m * a + m * (b - a)
  OBVIOUS
<1>2. \A d \in Int : d >= 1 => m * d >= m
  OBVIOUS
<1>3. m * a \in Int /\ m * (b - a) \in Int /\ b - a >= 1 /\ b - a \in Int
  OBVIOUS
<1> QED BY <1>1, <1>2, <1>3

LEMMA OneRemainder ==
  ASSUME NEW m \in Nat \ {0}, NEW p \in Int, NEW q \in Int, NEW r \in 0..m - 1, NEW s \in Int,
         m * p + r = m * q + s, 0 <= s, s < m
  PROVE  r = s
<1>1. m * p \in Int /\ m * q \in Int
  OBVIOUS
<1>2. CASE p < q
  <2>1. m * q >= m * p + m
    BY <1>2, Multiples
  <2> QED BY <1>1, <2>1
<1>3. CASE q < p
  <2>1. m * p >= m * q + m
    BY <1>3, Multiples
  <2> QED BY <1>1, <2>1
<1>4. CASE p = q
  BY <1>1, <1>4
<1> QED BY <1>2, <1>3, <1>4

\* The remainder of the number after.
LEMMA NextRemainder ==
  ASSUME NEW m \in Nat \ {0}, NEW x \in Nat
  PROVE  (x + 1) % m = IF x % m = m - 1 THEN 0 ELSE (x % m) + 1
<1> DEFINE r == x % m
           s == (x + 1) % m
           after == IF r = m - 1 THEN 0 ELSE r + 1
<1>1. PICK q \in Int : x = (m * q) + r /\ r \in 0..m - 1
  <2>1. x \in Int
    OBVIOUS
  <2> QED BY <2>1, Division
<1>2. PICK p \in Int : x + 1 = (m * p) + s /\ s \in 0..m - 1
  <2>1. x + 1 \in Int
    OBVIOUS
  <2> QED BY <2>1, Division
<1> HIDE DEF r, s
<1>3. after \in Int /\ 0 <= after /\ after < m
  BY <1>1
<1>4. PICK next \in Int : x + 1 = m * next + after
  <2>1. CASE r = m - 1
    <3>1. m * (q + 1) = m * q + m /\ m * q \in Int
      OBVIOUS
    <3>2. x + 1 = m * (q + 1) + after
      BY <1>1, <2>1, <3>1
    <3>3. q + 1 \in Int
      OBVIOUS
    <3> HIDE DEF after
    <3> QED BY <3>2, <3>3
  <2>2. CASE r # m - 1
    <3>1. x + 1 = m * q + after
      BY <1>1, <2>2
    <3> QED BY <3>1
  <2> QED BY <2>1, <2>2
<1> HIDE DEF after
<1>5. m * p + s = m * next + after
  BY <1>2, <1>4
<1>6. s = after
  BY <1>2, <1>3, <1>5, OneRemainder
<1> QED BY <1>6 DEF r, s, after

\* The time since a reading of the clock, without the remainder.
LEMMA SinceIs ==
  ASSUME NEW a \in 0..MicrosWrap - 1, NEW b \in 0..MicrosWrap - 1
  PROVE  Since(a, b) = IF b <= a THEN a - b ELSE a - b + MicrosWrap
<1> USE TimingAssumption
<1>1. CASE b <= a
  <2>1. a - b \in Int /\ 0 <= a - b /\ a - b < MicrosWrap
    BY <1>1
  <2> QED BY <1>1, <2>1, SmallRemainder DEF Since
<1>2. CASE a < b
  <2>1. a - b \in Int /\ -MicrosWrap <= a - b /\ a - b < 0
    BY <1>2
  <2> QED BY <1>2, <2>1, NegativeRemainder DEF Since
<1> QED BY <1>1, <1>2

LEMMA SinceInRange ==
  ASSUME NEW a \in 0..MicrosWrap - 1, NEW b \in 0..MicrosWrap - 1
  PROVE  Since(a, b) \in Int /\ 0 <= Since(a, b) /\ Since(a, b) < MicrosWrap
BY SinceIs, TimingAssumption

LEMMA SinceNow ==
  ASSUME NEW a \in 0..MicrosWrap - 1
  PROVE  Since(a, a) = 0
BY SinceIs

\* After a tick all times since are one more, short of a whole wrap.
LEMMA SinceAfterTick ==
  ASSUME NEW a \in 0..MicrosWrap - 1, NEW b \in 0..MicrosWrap - 1,
         Since(a, b) + 1 < MicrosWrap
  PROVE  Since((a + 1) % MicrosWrap, b) = Since(a, b) + 1
<1> USE TimingAssumption
<1> DEFINE n == (a + 1) % MicrosWrap
<1>1. n = IF a + 1 = MicrosWrap THEN 0 ELSE a + 1
  <2>1. a % MicrosWrap = a
    BY SmallRemainder
  <2>2. (a + 1) % MicrosWrap = IF a % MicrosWrap = MicrosWrap - 1 THEN 0 ELSE (a % MicrosWrap) + 1
    <3>1. a \in Nat /\ MicrosWrap \in Nat \ {0}
      OBVIOUS
    <3> QED BY <3>1, NextRemainder
  <2> QED BY <2>1, <2>2
<1>2. n \in 0..MicrosWrap - 1
  BY <1>1
<1> HIDE DEF n
<1>3. Since(n, b) = IF b <= n THEN n - b ELSE n - b + MicrosWrap
  BY <1>2, SinceIs
<1>4. Since(a, b) = IF b <= a THEN a - b ELSE a - b + MicrosWrap
  BY SinceIs
<1>5. Since(n, b) = Since(a, b) + 1
  BY <1>1, <1>3, <1>4
<1> QED BY <1>5 DEF n

-----------------------------------------------------------------------------
(* With the limiter.  What has charged as long as the limit is seen by the *)
(* next pass: either the limit was not reached when the 1 ms timer last    *)
(* overflowed, or its flag still waits, or a pass that read the clock late *)
(* enough has not come to the channel yet.                                 *)

LimitTicks == (DwellLimit + UsPerTick - 1) \div UsPerTick

Charged(c) == Since(now, startTime[c])
PassAge == Since(now, odNow)

NotDue(c) == Charged(c) <= LimitTicks + msCounter
FlagWaits(c) == msFlag > 0 /\ Charged(c) < LimitTicks + MsTicks + msFlag
PassComes(c) ==
  /\ 1 <= odNext /\ odNext <= c
  /\ LimitTicks <= Charged(c) - PassAge
  /\ Charged(c) - PassAge <= LimitTicks + MsTicks + Latency

Limited(c) == coil[c] => NotDue(c) \/ FlagWaits(c) \/ PassComes(c)

PassShort == odNext # 0 => PassAge <= PassTicks

LimiterInv == PassShort /\ \A c \in Channels : Limited(c)

\* The clock does not come round within a dwell: 71 minutes on the hardware.
WrapIsLate == LimitTicks + MsTicks + Latency + PassTicks + 1 < MicrosWrap

\* The limit in ticks is what hasIntervalElapsed compares with.
LEMMA LimitReached ==
  ASSUME NEW t \in Int
  PROVE  LimitTicks \in Nat /\ (LimitTicks <= t => t * UsPerTick >= DwellLimit)
<1> DEFINE x == DwellLimit + UsPerTick - 1
<1>0. UsPerTick \in Nat \ {0} /\ DwellLimit \in Nat
  BY TimingAssumption
<1>1. x \in Nat
  BY <1>0
<1>2. x \div UsPerTick \in Int /\ x = (UsPerTick * (x \div UsPerTick)) + (x % UsPerTick) /\ x % UsPerTick \in 0..UsPerTick - 1
  BY <1>0, <1>1, Division
<1>3. PICK q \in Int : q = LimitTicks /\ DwellLimit <= UsPerTick * q
  <2>1. PICK q, r \in Int : q = LimitTicks /\ x = UsPerTick * q + r /\ r <= UsPerTick - 1
    BY <1>0, <1>2 DEF LimitTicks
  <2>2. UsPerTick * q \in Int
    BY <1>0
  <2> QED BY <1>0, <2>1, <2>2
<1>4. LimitTicks \in Nat
  BY <1>0, <1>1 DEF LimitTicks
<1>5. ASSUME LimitTicks <= t
      PROVE  t * UsPerTick >= DwellLimit
  <2>1. \A a, b \in Int : a <= b => UsPerTick * a <= b * UsPerTick
    BY <1>0
  <2>2. UsPerTick * q <= t * UsPerTick
    BY <1>3, <1>5, <2>1
  <2>3. UsPerTick * q \in Int /\ t * UsPerTick \in Int
    BY <1>0
  <2> QED BY <1>0, <1>3, <2>2, <2>3
<1> QED BY <1>4, <1>5

\* A tick of the clock: the flag is raised with the overflow, and a pass ends
\* in time.
LEMMA TickKeepsLimit ==
  ASSUME TypeOK, LimiterInv, WrapIsLate, Tick
  PROVE  LimiterInv'
<1> USE TimingAssumption
<1>0. LimitTicks \in Nat
  BY LimitReached
<1>1. now \in 0..MicrosWrap - 1 /\ odNow \in 0..MicrosWrap - 1 /\ odNext \in 0..IGN_CHANNELS
  BY DEF TypeOK
<1>2. /\ now' = (now + 1) % MicrosWrap /\ odNow' = odNow /\ odNext' = odNext
      /\ coil' = coil /\ startTime' = startTime
      /\ odNext # 0 => PassAge < PassTicks
      /\ msFlag' = Raised(msFlag, msCounter + 1 = MsTicks)
      /\ msCounter' = (msCounter + 1) % MsTicks
      /\ msFlag <= Latency
  BY DEF Tick, schedVars, PassAge
<1>3. odNext # 0 => PassAge' = PassAge + 1
  <2>1. SUFFICES ASSUME odNext # 0
                 PROVE  Since(now', odNow') = Since(now, odNow) + 1
    BY DEF PassAge
  <2>2. Since(now, odNow) \in Int /\ Since(now, odNow) < PassTicks
    BY <1>1, <1>2, <2>1, SinceInRange DEF PassAge
  <2>3. Since(now, odNow) + 1 < MicrosWrap
    BY <1>0, <2>2 DEF WrapIsLate
  <2> QED BY <1>1, <1>2, <2>3, SinceAfterTick
<1>4. PassShort'
  <2>1. PassAge \in Int
    BY <1>1, SinceInRange DEF PassAge
  <2> QED BY <1>2, <1>3, <2>1 DEF PassShort
<1>5. msCounter' = IF msCounter + 1 = MsTicks THEN 0 ELSE msCounter + 1
  <2>1. msCounter \in Nat /\ msCounter < MsTicks
    BY DEF TypeOK
  <2>2. msCounter % MsTicks = msCounter
    BY <2>1, SmallRemainder
  <2>3. (msCounter + 1) % MsTicks = IF msCounter % MsTicks = MsTicks - 1 THEN 0 ELSE (msCounter % MsTicks) + 1
    BY <2>1, NextRemainder
  <2> QED BY <1>2, <2>1, <2>2, <2>3
<1>6. ASSUME NEW c \in Channels, coil[c]
      PROVE  (NotDue(c) \/ FlagWaits(c) \/ PassComes(c))'
  <2> DEFINE charged == Charged(c)
             age == PassAge
  <2>1. charged \in Int /\ 0 <= charged /\ age \in Int /\ 0 <= age /\ startTime[c] \in 0..MicrosWrap - 1
    BY <1>1, SinceInRange DEF Charged, PassAge, TypeOK
  <2>2. msCounter \in Nat /\ msCounter < MsTicks /\ msFlag \in Nat /\ odNext \in Nat /\ c \in Nat
    BY DEF TypeOK, Channels
  <2>3. NotDue(c) \/ FlagWaits(c) \/ PassComes(c)
    BY <1>6 DEF LimiterInv, Limited
  <2>4. charged + 1 < MicrosWrap
    BY <1>0, <1>2, <2>1, <2>2, <2>3 DEF NotDue, FlagWaits, PassComes, WrapIsLate
  <2>5. Charged(c)' = charged + 1
    BY <1>1, <1>2, <2>1, <2>4, SinceAfterTick DEF Charged
  <2>6. CASE NotDue(c) /\ msCounter + 1 # MsTicks
    BY <1>0, <1>5, <2>1, <2>2, <2>5, <2>6 DEF NotDue
  <2>7. CASE NotDue(c) /\ msCounter + 1 = MsTicks
    <3>1. msFlag' \in Nat /\ msFlag' > 0
      BY <1>2, <2>2, <2>7 DEF Raised
    <3> QED BY <1>0, <2>1, <2>2, <2>5, <2>7, <3>1 DEF NotDue, FlagWaits
  <2>8. CASE FlagWaits(c)
    <3>1. msFlag' = msFlag + 1
      BY <1>2, <2>2, <2>8 DEF Raised, FlagWaits
    <3> QED BY <1>0, <2>1, <2>2, <2>5, <2>8, <3>1 DEF FlagWaits
  <2>9. CASE PassComes(c)
    <3>1. PassAge' = age + 1
      BY <1>3, <2>2, <2>9 DEF PassComes
    <3> QED BY <1>0, <1>2, <2>1, <2>2, <2>5, <2>9, <3>1 DEF PassComes
  <2> QED BY <2>3, <2>6, <2>7, <2>8, <2>9
<1> QED BY <1>2, <1>4, <1>6 DEF LimiterInv, Limited

\* A pass begins: what the flag waited for is now in front of it.
LEMMA PassKeepsLimit ==
  ASSUME TypeOK, LimiterInv, OverDwellActive, applyOverDwellProtection
  PROVE  LimiterInv'
<1> USE TimingAssumption
<1>0. LimitTicks \in Nat
  BY LimitReached
<1>1. /\ odNext = 0 /\ odNow' = now /\ odNext' = 1 /\ now' = now
      /\ coil' = coil /\ startTime' = startTime /\ msCounter' = msCounter
  BY DEF applyOverDwellProtection, schedVars
<1>2. PassAge' = 0
  BY <1>1, SinceNow DEF PassAge, TypeOK
<1>3. ASSUME NEW c \in Channels, coil[c]
      PROVE  (NotDue(c) \/ FlagWaits(c) \/ PassComes(c))'
  <2> DEFINE charged == Charged(c)
  <2>1. charged \in Int
    BY SinceInRange DEF Charged, TypeOK
  <2>2. msCounter \in Nat /\ msFlag \in Nat /\ msFlag <= Latency + 1 /\ c \in Nat /\ 1 <= c
    BY DEF TypeOK, Channels
  <2>3. NotDue(c) \/ FlagWaits(c)
    BY <1>1, <1>3 DEF LimiterInv, Limited, PassComes
  <2>4. Charged(c)' = charged
    BY <1>1 DEF Charged
  <2>5. CASE NotDue(c)
    BY <1>1, <2>4, <2>5 DEF NotDue
  <2>6. CASE FlagWaits(c) /\ charged < LimitTicks
    BY <1>0, <1>1, <2>1, <2>2, <2>4, <2>6 DEF NotDue
  <2>7. CASE FlagWaits(c) /\ charged >= LimitTicks
    BY <1>0, <1>1, <1>2, <2>1, <2>2, <2>4, <2>7 DEF FlagWaits, PassComes
  <2> QED BY <2>1, <1>0, <2>3, <2>5, <2>6, <2>7
<1> QED BY <1>1, <1>2, <1>3 DEF LimiterInv, Limited, PassShort

\* The pass comes to a channel: one that it was to end, it ends.
LEMMA LimiterKeepsLimit ==
  ASSUME TypeOK, CoilFollowsStatus, LimiterInv, WrapIsLate, applyChannelOverDwellProtection
  PROVE  LimiterInv'
<1> USE TimingAssumption
<1> DEFINE c == odNext
           due == hasIntervalElapsed(odNow, startTime[c], DwellLimit)
<1>0. LimitTicks \in Nat
  BY LimitReached
<1>1. /\ c \in Channels
      /\ IF isRunning(c) /\ due THEN moveToNextState(c) ELSE UNCHANGED schedVars
      /\ odNext' = IF odNext = IGN_CHANNELS THEN 0 ELSE odNext + 1
      /\ now' = now /\ odNow' = odNow /\ msCounter' = msCounter /\ msFlag' = msFlag
  BY DEF applyChannelOverDwellProtection
<1>2. c \in Nat /\ 1 <= c /\ odNext \in Nat /\ odNext # 0
  BY <1>1 DEF Channels
<1>3. \/ coil' = coil
      \/ coil' = [coil EXCEPT ![c] = FALSE]
  BY <1>1 DEF moveToNextState, ignitionPendingToRunning, ignitionRunningToOff, ignitionRunningToPending,
              IgnoreMatch, isRunning, schedVars
<1>4. startTime' = startTime
  BY <1>1 DEF moveToNextState, ignitionPendingToRunning, ignitionRunningToOff, ignitionRunningToPending,
              IgnoreMatch, isRunning, schedVars
<1>5. ASSUME coil[c], PassComes(c)
      PROVE  ~coil'[c]
  <2>1. isRunning(c)
    BY <1>1, <1>5 DEF CoilFollowsStatus
  <2>2. LimitTicks <= Since(odNow, startTime[c])
    <3>1. startTime[c] \in 0..MicrosWrap - 1 /\ now \in 0..MicrosWrap - 1 /\ odNow \in 0..MicrosWrap - 1
      BY <1>1 DEF TypeOK
    <3> DEFINE charged == Charged(c)
               age == PassAge
    <3>2. charged = IF startTime[c] <= now THEN now - startTime[c] ELSE now - startTime[c] + MicrosWrap
      BY <3>1, SinceIs DEF Charged
    <3>3. age = IF odNow <= now THEN now - odNow ELSE now - odNow + MicrosWrap
      BY <3>1, SinceIs DEF PassAge
    <3>4. Since(odNow, startTime[c]) = IF startTime[c] <= odNow THEN odNow - startTime[c]
                                       ELSE odNow - startTime[c] + MicrosWrap
      BY <3>1, SinceIs
    <3>5. LimitTicks <= charged - age /\ charged - age <= LimitTicks + MsTicks + Latency
      BY <1>5 DEF PassComes
    <3> HIDE DEF charged, age
    <3> QED BY <1>0, <3>1, <3>2, <3>3, <3>4, <3>5 DEF WrapIsLate
  <2>3. due
    <3>1. Since(odNow, startTime[c]) \in Int
      BY <1>1, SinceInRange DEF TypeOK
    <3> QED BY <2>2, <3>1, LimitReached DEF hasIntervalElapsed
  <2>4. moveToNextState(c)
    BY <1>1, <2>1, <2>3
  <2> QED BY <1>1, <2>1, <2>4 DEF moveToNextState, ignitionPendingToRunning, ignitionRunningToOff,
                                  ignitionRunningToPending, IgnoreMatch, isRunning, TypeOK
<1>6. ASSUME NEW d \in Channels, coil'[d]
      PROVE  (NotDue(d) \/ FlagWaits(d) \/ PassComes(d))'
  <2>1. coil[d]
    BY <1>1, <1>3, <1>6 DEF TypeOK
  <2>2. NotDue(d) \/ FlagWaits(d) \/ PassComes(d)
    BY <2>1 DEF LimiterInv, Limited
  <2>3. Charged(d)' = Charged(d) /\ PassAge' = PassAge
    BY <1>1, <1>4 DEF Charged, PassAge
  <2>4. CASE NotDue(d)
    BY <1>1, <2>3, <2>4 DEF NotDue
  <2>5. CASE FlagWaits(d)
    BY <1>1, <2>3, <2>5 DEF FlagWaits
  <2>6. CASE PassComes(d)
    <3>1. d # c
      BY <1>5, <1>6, <2>1, <2>6
    <3>2. odNext' = odNext + 1
      BY <1>1, <1>2, <2>6, <3>1 DEF PassComes, Channels
    <3>3. 1 <= odNext' /\ odNext' <= d
      BY <1>2, <2>6, <3>1, <3>2 DEF PassComes, Channels
    <3> QED BY <2>3, <2>6, <3>3 DEF PassComes
  <2> QED BY <2>2, <2>4, <2>5, <2>6
<1>7. PassShort'
  BY <1>1, <1>2 DEF LimiterInv, PassShort, PassAge
<1> QED BY <1>6, <1>7 DEF LimiterInv, Limited

\* What starts to charge has not charged yet.
LEMMA MatchKeepsLimit ==
  ASSUME TypeOK, LimiterInv, NEW c \in Channels, ServeMatch(c)
  PROVE  LimiterInv'
<1> USE TimingAssumption
<1>1. /\ moveToNextState(c) /\ now' = now /\ msFlag' = msFlag /\ msCounter' = msCounter
      /\ odNow' = odNow /\ odNext' = odNext
  BY DEF ServeMatch, odVars
<1>2. ASSUME NEW d \in Channels, coil'[d]
      PROVE  Charged(d)' = 0 \/ (coil[d] /\ startTime'[d] = startTime[d])
  <2>1. CASE ignitionPendingToRunning(c)
    <3>1. startTime' = [startTime EXCEPT ![c] = now] /\ coil' = [coil EXCEPT ![c] = TRUE]
      BY <2>1 DEF ignitionPendingToRunning
    <3>2. CASE d = c
      <4>1. startTime'[d] = now
        BY <3>1, <3>2 DEF TypeOK
      <4> QED BY <1>1, <4>1, SinceNow DEF Charged, TypeOK
    <3>3. CASE d # c
      BY <1>2, <3>1, <3>3 DEF TypeOK
    <3> QED BY <3>2, <3>3
  <2>2. CASE ignitionRunningToOff(c)
    BY <1>2, <2>2 DEF ignitionRunningToOff, TypeOK
  <2>3. CASE ignitionRunningToPending(c)
    BY <1>2, <2>3 DEF ignitionRunningToPending, TypeOK
  <2>4. CASE IgnoreMatch(c)
    BY <1>2, <2>4 DEF IgnoreMatch, schedVars
  <2> QED BY <1>1, <2>1, <2>2, <2>3, <2>4 DEF moveToNextState
<1>3. ASSUME NEW d \in Channels, coil'[d]
      PROVE  (NotDue(d) \/ FlagWaits(d) \/ PassComes(d))'
  <2>1. CASE Charged(d)' = 0
    BY <1>1, <2>1, LimitReached DEF NotDue, TypeOK
  <2>2. CASE coil[d] /\ startTime'[d] = startTime[d]
    BY <1>1, <2>2 DEF LimiterInv, Limited, NotDue, FlagWaits, PassComes, Charged, PassAge
  <2> QED BY <1>2, <1>3, <2>1, <2>2
<1> QED BY <1>1, <1>3 DEF LimiterInv, Limited, PassShort, PassAge

\* Whatever leaves the clocks, the limiter and what charges as they are.
LEMMA OthersKeepLimit ==
  ASSUME LimiterInv, UNCHANGED <<coil, startTime, now, odVars>>
  PROVE  LimiterInv'
BY DEF LimiterInv, Limited, PassShort, NotDue, FlagWaits, PassComes, Charged, PassAge, odVars

LEMMA LimiterKept ==
  ASSUME OverDwellActive, WrapIsLate
  PROVE  Inv /\ LimiterInv /\ [Next]_vars => LimiterInv'
<1> SUFFICES ASSUME Inv, LimiterInv, [Next]_vars
             PROVE  LimiterInv'
  OBVIOUS
<1>1. CASE Tick
  BY <1>1, TickKeepsLimit DEF Inv
<1>2. ASSUME NEW c \in Channels, SetSchedule(c) \/ adjustCrankAngle(c)
      PROVE  LimiterInv'
  <2>1. UNCHANGED <<coil, startTime, now, odVars>>
    BY <1>2 DEF SetSchedule, setSchedule, setScheduleRunning, setScheduleNext, adjustCrankAngle
  <2> QED BY <2>1, OthersKeepLimit
<1>3. ASSUME NEW c \in Channels, ServeMatch(c)
      PROVE  LimiterInv'
  BY <1>3, MatchKeepsLimit DEF Inv
<1>4. CASE applyOverDwellProtection
  BY <1>4, PassKeepsLimit DEF Inv
<1>5. CASE applyChannelOverDwellProtection
  BY <1>5, LimiterKeepsLimit DEF Inv
<1>6. CASE UNCHANGED vars
  BY <1>6, OthersKeepLimit DEF vars, schedVars
<1> QED BY <1>1, <1>2, <1>3, <1>4, <1>5, <1>6 DEF Next

\* With the limiter no dwell exceeds the longest, for any number of channels and
\* whatever corrections do to the matches, if an interrupt and a pass are served
\* in time.
LEMMA LimiterBounds ==
  ASSUME TypeOK, LimiterInv, OverDwellActive
  PROVE  DwellBounded
<1> USE TimingAssumption
<1>1. LimitTicks \in Nat /\ LongestDwell = LimitTicks + MsTicks + Latency + PassTicks
  BY LimitReached DEF LongestDwell, LimitTicks
<1>2. ASSUME NEW c \in Channels, coil[c]
      PROVE  Since(now, startTime[c]) <= LongestDwell
  <2>1. NotDue(c) \/ FlagWaits(c) \/ PassComes(c)
    BY <1>2 DEF LimiterInv, Limited
  <2>2. Charged(c) \in Int /\ PassAge \in Int
    BY SinceInRange DEF Charged, PassAge, TypeOK
  <2>3. msCounter < MsTicks /\ msFlag <= Latency + 1 /\ msCounter \in Nat /\ msFlag \in Nat
    BY DEF TypeOK
  <2>4. odNext \in Nat /\ (odNext # 0 => PassAge <= PassTicks)
    BY DEF TypeOK, LimiterInv, PassShort
  <2>5. CASE NotDue(c)
    BY <1>1, <2>2, <2>3, <2>5 DEF NotDue, Charged
  <2>6. CASE FlagWaits(c)
    BY <1>1, <2>2, <2>3, <2>6 DEF FlagWaits, Charged
  <2>7. CASE PassComes(c)
    <3>1. Charged(c) - PassAge <= LimitTicks + MsTicks + Latency /\ PassAge <= PassTicks
      BY <2>4, <2>7 DEF PassComes
    <3>2. Charged(c) <= LimitTicks + MsTicks + Latency + PassTicks
      BY <1>1, <2>2, <3>1
    <3> QED BY <1>1, <3>2 DEF Charged
  <2> QED BY <2>1, <2>5, <2>6, <2>7
<1> QED BY <1>2 DEF DwellBounded

LEMMA LimitedDwell ==
  ASSUME OverDwellActive, WrapIsLate
  PROVE  Spec => []DwellBounded
<1>1. Init => LimiterInv
  BY DEF Init, LimiterInv, Limited, PassShort
<1>2. Inv /\ LimiterInv /\ [Next]_vars => LimiterInv'
  BY LimiterKept
<1>3. Inv /\ LimiterInv => DwellBounded
  BY LimiterBounds DEF Inv
<1> QED BY InitInv, NextKeepsInv, <1>1, <1>2, <1>3, PTL DEF Spec

-----------------------------------------------------------------------------
(* Without limiter and corrections.  The compare register of a coil that    *)
(* charges is as far ahead of the counter as the time left of the dwell     *)
(* some request asked for, and once the two have met the flag tells how     *)
(* late the end is.  A request that is queued meanwhile touches neither.    *)

Requested == {Ticks(clipDuration(us)) : us \in Durations}

Due(c, d) ==
  /\ flag[c] > 0 => Charged(c) = d + flag[c]
  /\ flag[c] = 0 => Charged(c) <= d /\ compare[c] = Wrapped(counter + (d - Charged(c)))

Dwells(c) ==
  /\ status[c] # "OFF" => duration[c] \in Requested
  /\ coil[c] => \E d \in Requested : Due(c, d)

DwellInv == odNext = 0 /\ \A c \in Channels : Dwells(c)

\* Neither does the clock come round within a timer period and a late interrupt.
PeriodIsShort == TimerPeriod + Latency < MicrosWrap

LEMMA QuotientBelow ==
  ASSUME NEW m \in Nat \ {0}, NEW x \in Int, NEW k \in Int, x <= m * k
  PROVE  x \div m <= k
<1>1. PICK q \in Int, r \in 0..m - 1 : q = x \div m /\ x = m * q + r
  BY Division
<1>2. ASSUME k < q
      PROVE  FALSE
  <2>1. m * q >= m * k + m
    BY <1>2, Multiples
  <2>2. m * q \in Int /\ m * k \in Int
    OBVIOUS
  <2> QED BY <1>1, <2>1, <2>2
<1> QED BY <1>1, <1>2

LEMMA QuotientsInOrder ==
  ASSUME NEW m \in Nat \ {0}, NEW x \in Int, NEW y \in Int, x <= y
  PROVE  x \div m <= y \div m
<1>1. PICK q \in Int, r \in 0..m - 1 : q = y \div m /\ y = m * q + r
  BY Division
<1>2. ASSUME q < x \div m
      PROVE  FALSE
  <2>1. PICK p \in Int, t \in 0..m - 1 : p = x \div m /\ x = m * p + t
    BY Division
  <2>2. m * p >= m * q + m
    BY <1>2, <2>1, Multiples
  <2>3. m * q \in Int /\ m * p \in Int
    OBVIOUS
  <2> QED BY <1>1, <2>1, <2>2, <2>3
<1>3. x \div m \in Int
  BY Division
<1> QED BY <1>1, <1>2, <1>3

\* No dwell is longer than the timer can count, nor than the longest request.
LEMMA RequestedInRange ==
  ASSUME NEW d \in Requested
  PROVE  /\ d \in Nat /\ d <= TimerPeriod - 1
         /\ d <= Ticks(clipDuration(UINT16_MAX))
<1> USE TimingAssumption
<1>1. PICK us \in Durations : d = Ticks(clipDuration(us))
  BY DEF Requested
<1>2. us \in Nat /\ us <= UINT16_MAX
  OBVIOUS
<1>3. MAX_TIMER_PERIOD \in Int /\ MAX_TIMER_PERIOD = UsPerTick * (TimerPeriod - 1)
  BY DEF MAX_TIMER_PERIOD
<1>4. clipDuration(us) \in Int /\ clipDuration(us) <= MAX_TIMER_PERIOD
  BY <1>2, <1>3 DEF clipDuration
<1>5. clipDuration(UINT16_MAX) \in Int /\ clipDuration(us) <= clipDuration(UINT16_MAX)
  BY <1>2, <1>3 DEF clipDuration
<1>6. clipDuration(us) <= UsPerTick * (TimerPeriod - 1)
  BY <1>3, <1>4
<1>7. Ticks(clipDuration(us)) <= TimerPeriod - 1
  <2>1. UsPerTick \in Nat \ {0} /\ TimerPeriod - 1 \in Int
    OBVIOUS
  <2> QED BY <1>4, <1>6, <2>1, QuotientBelow DEF Ticks
<1>8. Ticks(clipDuration(us)) <= Ticks(clipDuration(UINT16_MAX))
  BY <1>4, <1>5, QuotientsInOrder DEF Ticks
<1> QED BY <1>1, <1>2, <1>7, <1>8, ClipNat, TicksNat

LEMMA CounterAfterTick ==
  ASSUME TypeOK, Tick
  PROVE  counter' = IF counter + 1 = TimerPeriod THEN 0 ELSE counter + 1
<1> USE TimingAssumption
<1>1. now \in Nat /\ now < MicrosWrap /\ now' = (now + 1) % MicrosWrap
  BY DEF TypeOK, Tick
<1>2. now' = IF now + 1 = MicrosWrap THEN 0 ELSE now + 1
  <2>1. now % MicrosWrap = now
    BY <1>1, SmallRemainder
  <2>2. (now + 1) % MicrosWrap = IF now % MicrosWrap = MicrosWrap - 1 THEN 0 ELSE (now % MicrosWrap) + 1
    BY <1>1, NextRemainder
  <2> QED BY <1>1, <2>1, <2>2
<1>3. (now + 1) % TimerPeriod = IF counter = TimerPeriod - 1 THEN 0 ELSE counter + 1
  BY <1>1, NextRemainder DEF counter
<1>4. counter \in Int
  BY CounterInRange
<1>5. CASE now + 1 # MicrosWrap
  BY <1>2, <1>3, <1>4, <1>5 DEF counter
<1>6. CASE now + 1 = MicrosWrap
  <2>1. (now + 1) % TimerPeriod = 0
    BY <1>6, WrapAssumption
  <2>2. counter \in 0..TimerPeriod - 1
    BY CounterInRange
  <2>3. counter + 1 = TimerPeriod
    BY <1>3, <2>1, <2>2
  <2>4. counter' = 0 % TimerPeriod
    BY <1>2, <1>6 DEF counter
  <2>5. 0 % TimerPeriod = 0
    BY SmallRemainder
  <2> QED BY <2>3, <2>4, <2>5
<1> QED BY <1>5, <1>6

\* What is ahead of the counter by less than a period.
LEMMA AheadIs ==
  ASSUME NEW t \in Nat, NEW k \in Nat, t < TimerPeriod, k < TimerPeriod
  PROVE  Wrapped(t + k) = IF t + k < TimerPeriod THEN t + k ELSE t + k - TimerPeriod
<1> USE TimingAssumption
<1>1. CASE t + k < TimerPeriod
  BY <1>1, SmallRemainder DEF Wrapped
<1>2. CASE t + k >= TimerPeriod
  <2> DEFINE x == t + k
  <2>2. x = TimerPeriod * 1 + (x - TimerPeriod) /\ x - TimerPeriod \in Int
    BY <1>2
  <2>3. 0 <= x - TimerPeriod /\ x - TimerPeriod < TimerPeriod
    BY <1>2
  <2>5. x \in Int /\ TimerPeriod \in Nat \ {0}
    OBVIOUS
  <2> HIDE DEF x
  <2>1. PICK q \in Int, r \in 0..TimerPeriod - 1 : r = x % TimerPeriod /\ x = TimerPeriod * q + r
    BY <2>5, Division
  <2>4. r = x - TimerPeriod
    BY <2>1, <2>2, <2>3, OneRemainder
  <2> QED BY <1>2, <2>1, <2>4 DEF Wrapped, x
<1> QED BY <1>1, <1>2

LEMMA TickKeepsDwell ==
  ASSUME Inv, DwellInv, PeriodIsShort, Tick
  PROVE  DwellInv'
<1> USE TimingAssumption
<1>1. /\ now' = (now + 1) % MicrosWrap /\ odNext' = odNext /\ status' = status /\ duration' = duration
      /\ coil' = coil /\ startTime' = startTime /\ compare' = compare
      /\ now \in 0..MicrosWrap - 1
      /\ flag' = [c \in Channels |-> Raised(flag[c], counter = compare[c])]
      /\ \A c \in Channels : flag[c] <= Latency
  BY DEF Tick, schedVars, Inv, TypeOK
<1>2. ASSUME NEW c \in Channels, coil[c]
      PROVE  (\E d \in Requested : Due(c, d))'
  <2>1. PICK d \in Requested : Due(c, d)
    BY <1>2 DEF DwellInv, Dwells
  <2> DEFINE charged == Charged(c)
             left == d - charged
  <2>2. d \in Nat /\ d <= TimerPeriod - 1
    BY RequestedInRange
  <2>3. charged \in Int /\ 0 <= charged /\ startTime[c] \in 0..MicrosWrap - 1
    BY <1>1, SinceInRange DEF Charged, Inv, TypeOK
  <2>4. flag[c] \in Nat /\ flag[c] <= Latency /\ flag'[c] = Raised(flag[c], counter = compare[c])
    BY <1>1 DEF Inv, TypeOK
  <2>5. charged <= d + flag[c]
    BY <2>1, <2>2, <2>3, <2>4 DEF Due
  <2>6. charged + 1 < MicrosWrap
    BY <2>2, <2>3, <2>4, <2>5 DEF PeriodIsShort
  <2>7. Charged(c)' = charged + 1
    BY <1>1, <2>3, <2>6, SinceAfterTick DEF Charged
  <2>8. counter \in Nat /\ counter < TimerPeriod
    BY CounterInRange DEF Inv
  <2>9. counter' = IF counter + 1 = TimerPeriod THEN 0 ELSE counter + 1
    BY CounterAfterTick DEF Inv
  <2>10. CASE flag[c] > 0
    <3>1. flag'[c] = flag[c] + 1
      BY <2>4, <2>10 DEF Raised
    <3>2. Charged(c)' = d + flag'[c]
      BY <2>1, <2>2, <2>3, <2>4, <2>7, <2>10, <3>1 DEF Due
    <3> QED BY <2>4, <3>1, <3>2 DEF Due
  <2>11. CASE flag[c] = 0
    <3>1. left \in Nat /\ left < TimerPeriod /\ compare[c] = Wrapped(counter + left)
      BY <2>1, <2>2, <2>3, <2>11 DEF Due
    <3>2. compare[c] = IF counter + left < TimerPeriod THEN counter + left ELSE counter + left - TimerPeriod
      BY <2>8, <3>1, AheadIs
    <3>3. CASE left = 0
      <4>1. compare[c] = counter
        BY <2>8, <3>2, <3>3
      <4>2. flag'[c] = 1
        BY <2>4, <2>11, <4>1 DEF Raised
      <4>3. Charged(c)' = d + flag'[c]
        BY <2>2, <2>3, <2>7, <3>3, <4>2
      <4> QED BY <4>2, <4>3 DEF Due
    <3>4. CASE left # 0
      <4>1. compare[c] # counter
        BY <2>8, <3>1, <3>2, <3>4
      <4>2. flag'[c] = 0
        BY <2>4, <2>11, <4>1 DEF Raised
      <4>3. counter' \in Nat /\ counter' < TimerPeriod /\ left - 1 \in Nat /\ left - 1 < TimerPeriod
        BY <2>8, <2>9, <3>1, <3>4
      <4>4. Wrapped(counter' + (left - 1)) = IF counter' + (left - 1) < TimerPeriod THEN counter' + (left - 1)
                                             ELSE counter' + (left - 1) - TimerPeriod
        BY <4>3, AheadIs
      <4>5. Wrapped(counter' + (left - 1)) = compare[c]
        <5> HIDE DEF left
        <5> QED BY <2>8, <2>9, <3>1, <3>2, <3>4, <4>4
      <4>6. d - Charged(c)' = left - 1 /\ Charged(c)' <= d
        BY <2>2, <2>3, <2>7, <3>1, <3>4
      <4> QED BY <1>1, <4>2, <4>5, <4>6 DEF Due
    <3> QED BY <3>3, <3>4
  <2> QED BY <2>4, <2>10, <2>11
<1>3. Requested' = Requested
  BY DEF Requested
<1> QED BY <1>1, <1>2, <1>3 DEF DwellInv, Dwells

LEMMA SetScheduleKeepsDwell ==
  ASSUME Inv, DwellInv, NEW b \in Channels, SetSchedule(b)
  PROVE  DwellInv'
<1>1. PICK delay \in Delays, dwell \in Durations : setSchedule(b, delay, dwell)
  BY DEF SetSchedule
<1>2. UNCHANGED <<flag, now, odVars>>
  BY DEF SetSchedule
<1>3. /\ duration' = [duration EXCEPT ![b] = Ticks(clipDuration(dwell))]
      /\ \/ ~isRunning(b) /\ compare' = [compare EXCEPT ![b] = Wrapped(counter + Ticks(delay))]
         \/ compare' = compare
      /\ UNCHANGED <<startTime, coil>>
      /\ status' \in {[status EXCEPT ![b] = "PENDING"], [status EXCEPT ![b] = "RUNNING_WITHNEXT"]}
  BY <1>1 DEF setSchedule, setScheduleRunning, setScheduleNext
<1>4. Ticks(clipDuration(dwell)) \in Requested
  BY DEF Requested
<1>5. ASSUME NEW c \in Channels
      PROVE  Dwells(c)'
  <2>1. (status[c] # "OFF")' => (duration[c] \in Requested)'
    BY <1>3, <1>4 DEF DwellInv, Dwells, Inv, TypeOK, Requested
  <2>2. ASSUME coil[c]
        PROVE  (\E d \in Requested : Due(c, d))'
    <3>1. compare'[c] = compare[c]
      BY <1>3, <2>2 DEF Inv, TypeOK, CoilFollowsStatus
    <3>2. PICK d \in Requested : Due(c, d)
      BY <2>2 DEF DwellInv, Dwells
    <3>3. Due(c, d)'
      BY <1>2, <1>3, <3>1, <3>2 DEF Due, Charged, counter
    <3> QED BY <3>3 DEF Requested
  <2> QED BY <1>3, <2>1, <2>2 DEF Dwells
<1> QED BY <1>2, <1>5 DEF DwellInv, odVars

\* A match starts a dwell at its beginning, or ends one when it is due.
LEMMA MatchKeepsDwell ==
  ASSUME Inv, DwellInv, NEW b \in Channels, ServeMatch(b)
  PROVE  DwellInv'
<1> USE TimingAssumption
<1>1. /\ moveToNextState(b) /\ now' = now /\ odNext' = odNext
      /\ flag' = [flag EXCEPT ![b] = 0]
  BY DEF ServeMatch, odVars
<1>2. ASSUME NEW c \in Channels, c # b
      PROVE  Dwells(c)'
  <2>1. /\ status'[c] = status[c] /\ duration'[c] = duration[c] /\ coil'[c] = coil[c] /\ flag'[c] = flag[c]
        /\ compare'[c] = compare[c] /\ startTime'[c] = startTime[c]
    BY <1>1, <1>2 DEF moveToNextState, ignitionPendingToRunning, ignitionRunningToOff, ignitionRunningToPending,
                      IgnoreMatch, schedVars, Inv, TypeOK
  <2>2. Dwells(c)
    BY DEF DwellInv
  <2>3. ASSUME NEW d \in Requested, Due(c, d)
        PROVE  Due(c, d)'
    BY <1>1, <2>1, <2>3 DEF Due, Charged, counter
  <2> QED BY <2>1, <2>2, <2>3 DEF Dwells, Requested
<1>3. Dwells(b)'
  <2>1. CASE ignitionPendingToRunning(b)
    <3> DEFINE d == duration[b]
    <3>1. /\ status[b] = "PENDING" /\ startTime'[b] = now /\ flag'[b] = 0 /\ duration' = duration
          /\ compare'[b] = Wrapped(counter + d)
      BY <1>1, <2>1 DEF ignitionPendingToRunning, Inv, TypeOK
    <3>2. d \in Requested
      BY <3>1 DEF DwellInv, Dwells
    <3>3. Charged(b)' = 0
      BY <1>1, <3>1, SinceNow DEF Charged, Inv, TypeOK
    <3>4. d \in Nat /\ d - 0 = d
      BY <3>2, RequestedInRange
    <3>5. Due(b, d)'
      BY <1>1, <3>1, <3>3, <3>4 DEF Due, counter
    <3> QED BY <3>1, <3>2, <3>5 DEF Dwells, Requested
  <2>2. CASE ignitionRunningToOff(b)
    BY <2>2 DEF ignitionRunningToOff, Dwells, Inv, TypeOK
  <2>3. CASE ignitionRunningToPending(b)
    BY <2>3 DEF ignitionRunningToPending, Dwells, DwellInv, Requested, Inv, TypeOK
  <2>4. CASE IgnoreMatch(b)
    BY <2>4 DEF IgnoreMatch, schedVars, Dwells, DwellInv, Inv, TypeOK, CoilFollowsStatus, isRunning
  <2> QED BY <1>1, <2>1, <2>2, <2>3, <2>4 DEF moveToNextState
<1> QED BY <1>1, <1>2, <1>3 DEF DwellInv

LEMMA OthersKeepDwell ==
  ASSUME DwellInv, UNCHANGED <<schedVars, flag, now, odNext>>
  PROVE  DwellInv'
BY DEF DwellInv, Dwells, Due, Charged, counter, Requested, schedVars

LEMMA DwellKept ==
  ASSUME ~OverDwellActive, Corrections = {}, PeriodIsShort
  PROVE  Inv /\ DwellInv /\ [Next]_vars => DwellInv'
<1> SUFFICES ASSUME Inv, DwellInv, [Next]_vars
             PROVE  DwellInv'
  OBVIOUS
<1>1. CASE Tick
  BY <1>1, TickKeepsDwell
<1>2. ASSUME NEW c \in Channels, SetSchedule(c)
      PROVE  DwellInv'
  BY <1>2, SetScheduleKeepsDwell
<1>3. ASSUME NEW c \in Channels, adjustCrankAngle(c)
      PROVE  DwellInv'
  BY <1>3 DEF adjustCrankAngle
<1>4. ASSUME NEW c \in Channels, ServeMatch(c)
      PROVE  DwellInv'
  BY <1>4, MatchKeepsDwell
<1>5. CASE applyOverDwellProtection
  BY <1>5, OthersKeepDwell DEF applyOverDwellProtection
<1>6. CASE applyChannelOverDwellProtection
  BY <1>6 DEF applyChannelOverDwellProtection, DwellInv, Channels
<1>7. CASE UNCHANGED vars
  BY <1>7, OthersKeepDwell DEF vars, odVars
<1> QED BY <1>1, <1>2, <1>3, <1>4, <1>5, <1>6, <1>7 DEF Next

LEMMA InitDwell == Init => DwellInv
BY DEF Init, DwellInv, Dwells

\* Only a match ends a dwell, and it is due by as much as its flag has waited.
LEMMA EndsWhenDue ==
  ASSUME Inv, DwellInv, [Next]_vars, NEW c \in Channels, coil[c], ~coil'[c]
  PROVE  \E us \in Durations : Since(now, startTime[c]) - Ticks(clipDuration(us)) \in 1..Latency + 1
<1> USE TimingAssumption
<1>1. ServeMatch(c)
  <2>1. ASSUME NEW b \in Channels, b # c, ServeMatch(b)
        PROVE  coil'[c] = coil[c]
    BY <2>1 DEF ServeMatch, moveToNextState, ignitionPendingToRunning, ignitionRunningToOff,
                ignitionRunningToPending, IgnoreMatch, schedVars, Inv, TypeOK
  <2>2. ASSUME NEW b \in Channels, SetSchedule(b) \/ adjustCrankAngle(b)
        PROVE  coil' = coil
    BY <2>2 DEF SetSchedule, setSchedule, setScheduleRunning, setScheduleNext, adjustCrankAngle
  <2>3. ~applyChannelOverDwellProtection
    BY DEF applyChannelOverDwellProtection, DwellInv, Channels
  <2>4. Tick \/ applyOverDwellProtection \/ UNCHANGED vars => coil' = coil
    BY DEF Tick, applyOverDwellProtection, vars, schedVars
  <2> QED BY <2>1, <2>2, <2>3, <2>4 DEF Next
<1>2. flag[c] \in Nat /\ flag[c] > 0 /\ flag[c] <= Latency + 1
  BY <1>1 DEF ServeMatch, Inv, TypeOK
<1>3. PICK d \in Requested : Charged(c) = d + flag[c]
  BY <1>2 DEF DwellInv, Dwells, Due
<1>4. d \in Nat
  BY RequestedInRange
<1>5. Charged(c) - d \in 1..Latency + 1
  BY <1>2, <1>3, <1>4
<1>6. PICK us \in Durations : d = Ticks(clipDuration(us))
  BY DEF Requested
<1> QED BY <1>5, <1>6 DEF Charged

\* Without corrections and limiter a coil charges as long as one of the requests
\* asked for, for any number of channels and whatever is queued meanwhile: it
\* ends late by no more than its interrupt is.
THEOREM DwellRequested ==
  ASSUME ~OverDwellActive, Corrections = {}, PeriodIsShort
  PROVE  Spec => DwellAsRequested
<1>1. Inv /\ DwellInv /\ [Next]_vars =>
        [\A c \in Channels :
           coil[c] /\ ~coil'[c] =>
             \E us \in Durations : Since(now, startTime[c]) - Ticks(clipDuration(us)) \in 1..Latency + 1]_vars
  BY EndsWhenDue
<1> QED BY InitInv, NextKeepsInv, InitDwell, DwellKept, <1>1, PTL DEF Spec, DwellAsRequested

LEMMA DwellBounds ==
  ASSUME Inv, DwellInv, ~OverDwellActive
  PROVE  DwellBounded
<1> USE TimingAssumption
<1>1. ASSUME NEW c \in Channels, coil[c]
      PROVE  Since(now, startTime[c]) <= LongestDwell
  <2>1. PICK d \in Requested : Due(c, d)
    BY <1>1 DEF DwellInv, Dwells
  <2>2. flag[c] \in Nat /\ flag[c] <= Latency + 1
    BY DEF Inv, TypeOK
  <2>3. Charged(c) \in Int
    BY SinceInRange DEF Charged, Inv, TypeOK
  <2>4. d \in Nat /\ d <= Ticks(clipDuration(UINT16_MAX))
    BY RequestedInRange
  <2>5. Charged(c) <= d + flag[c]
    BY <2>1, <2>2, <2>3, <2>4 DEF Due
  <2>6. Ticks(clipDuration(UINT16_MAX)) \in Nat
    BY ClipNat, TicksNat
  <2> QED BY <2>2, <2>3, <2>4, <2>5, <2>6 DEF LongestDwell, Charged
<1> QED BY <1>1 DEF DwellBounded

\* No dwell exceeds the longest, with the limiter, or without it where no
\* decoder moves the matches.
THEOREM DwellIsBounded ==
  ASSUME \/ OverDwellActive /\ WrapIsLate
         \/ ~OverDwellActive /\ Corrections = {} /\ PeriodIsShort
  PROVE  Spec => []DwellBounded
<1>1. CASE OverDwellActive /\ WrapIsLate
  BY <1>1, LimitedDwell
<1>2. CASE ~OverDwellActive /\ Corrections = {} /\ PeriodIsShort
  <2>1. Inv /\ DwellInv /\ [Next]_vars => DwellInv'
    BY <1>2, DwellKept
  <2>2. Inv /\ DwellInv => DwellBounded
    BY <1>2, DwellBounds
  <2> QED BY InitInv, NextKeepsInv, InitDwell, <2>1, <2>2, PTL DEF Spec
<1> QED BY <1>1, <1>2
=============================================================================
