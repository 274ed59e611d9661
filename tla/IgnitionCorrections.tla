-------------------------- MODULE IgnitionCorrections --------------------------
(***************************************************************************)
(* corrections.cpp, the advance: knock control, the soft limit, the delay  *)
(* of the idle advance and the taper on the overrun.  Advance is looked up *)
(* in every pass, with the engine turning or not, and twice in a pass in   *)
(* which the second spark table is switched in.                            *)
(***************************************************************************)
EXTENDS FuelCorrections

VARIABLES
  limits,  \* softLimitTime, whether it is active, and idleAdvDelayCount
  knock    \* knock control: see initialKnock, and its history

correctionVars == <<fuelCorrVars, limits, knock>>

SoftRevLim == 5
SoftLimMax == 1
idleAdvStartDelay == 1
knock_count == 2
knock_firstStep == 2
knock_stepSize == 1
knock_maxRetard == 3
knock_stepTime == 1
knock_duration == 2
knock_recoveryStepTime == 1
knock_recoveryStep == 1
KnockTime == 6   \* bound of the time since a knock: recovery is over by then
MaxKnocks == 4   \* bound of knockCount (255 in the code)

\* retard, and when it was last raised; answered and seen are the history: the
\* retard then, and the time since then as the last pass saw it.
initialKnock == [count |-> 1, active |-> FALSE, pulse |-> FALSE, retard |-> 0,
                 age |-> 0, lastStep |-> 0, answered |-> 0, seen |-> 0]

correctionSoftRevLimit(l, timers) ==
  CASE rpm >= SoftRevLim ->
         [l EXCEPT !.softLimitActive = TRUE,
                   !.softLimitTime = IF @ < SoftLimMax THEN NextTenth(@, timers) ELSE @]
    [] rpm < SoftRevLim ->
         [l EXCEPT !.softLimitActive = FALSE, !.softLimitTime = IF "10HZ" \in timers THEN 0 ELSE @]

isIdleAdvanceOn == rotationStatus = "Running" /\ runSecs > 0
isIdleAdvanceOperational == rpm < 5 /\ reading.tps = 0

correctionIdleAdvance(l, timers) ==
  CASE isIdleAdvanceOn /\ ~isIdleAdvanceOperational -> [l EXCEPT !.idleAdvDelayCount = 0]
    [] isIdleAdvanceOn /\ isIdleAdvanceOperational /\ l.idleAdvDelayCount < idleAdvStartDelay ->
         [l EXCEPT !.idleAdvDelayCount = NextTenth(@, timers)]
    [] OTHER -> l

limitsAfter(l, timers) ==
  LET idled == IF corrConfig.idleAdv THEN correctionIdleAdvance(l, timers) ELSE l
  IN IF corrConfig.softLimit THEN correctionSoftRevLimit(idled, timers) ELSE idled

-----------------------------------------------------------------------------
retardFor(count) == Least(knock_firstStep + (count - knock_count) * knock_stepSize, knock_maxRetard)

answer(k, retard) ==
  [k EXCEPT !.active = TRUE, !.retard = retard, !.answered = retard, !.age = 0, !.lastStep = 0]

\* Another knock, when the last retard has had its time to take effect.
furtherKnock(k) ==
  IF ~k.pulse \/ k.age < knock_stepTime \/ k.count >= MaxKnocks THEN k
  ELSE answer([k EXCEPT !.count = @ + 1], retardFor(k.count + 1))

\* Some time after the last knock the retard goes back step by step; a pass
\* that comes late takes the steps it has missed.
calculateKnockRecovery(k, retard) ==
  IF k.age < knock_duration THEN [k EXCEPT !.retard = retard]
  ELSE LET steps == (k.age - knock_duration) \div knock_recoveryStepTime
           back == IF steps > k.lastStep THEN (steps - k.lastStep) * knock_recoveryStep ELSE 0
           last == IF steps > k.lastStep THEN steps ELSE k.lastStep
       IN IF back < k.retard THEN [k EXCEPT !.retard = @ - back, !.lastStep = last]
          ELSE [initialKnock EXCEPT !.count = 0, !.pulse = k.pulse]

digitalKnock(k) ==
  LET further == furtherKnock(k)
      after == CASE k.count < knock_count -> [k EXCEPT !.retard = 0]
                 [] k.count >= knock_count /\ ~k.active -> answer(k, retardFor(k.count))
                 [] OTHER -> calculateKnockRecovery(further, further.retard)
  IN [after EXCEPT !.pulse = FALSE]

\* With an analog sensor the pass starts from no retard each time.
analogKnock(k, loud, timers) ==
  CASE k.active /\ k.age >= knock_stepTime /\ loud /\ k.count < MaxKnocks ->
         answer([k EXCEPT !.count = @ + 1], retardFor(k.count + 1))
    [] k.active /\ ~(k.age >= knock_stepTime /\ loud /\ k.count < MaxKnocks) ->
         calculateKnockRecovery(k, 0)
    [] ~k.active /\ "30HZ" \in timers /\ loud -> answer(k, knock_firstStep)
    [] OTHER -> [k EXCEPT !.retard = 0]

correctionKnockTiming(k, timers) ==
  LET after == CASE corrConfig.knock_mode = "DIGITAL" -> {digitalKnock(k)}
                 [] corrConfig.knock_mode = "ANALOG" ->
                      {analogKnock(k, loud, timers) : loud \in BOOLEAN}
                 [] OTHER -> {k}
  IN {[a EXCEPT !.seen = a.age] : a \in after}

\* The taper is wound up here too while no fuel is being cut.
correctionDFCOignition(d) ==
  IF corrConfig.dfcoTaperEnable /\ d.isDFCOActive THEN d ELSE [d EXCEPT !.dfcoTaper = dfcoTaperTime]

advanceRuns == IF corrConfig.spark2Switched THEN {1, 2} ELSE {1}

knockAfter(timers) ==
  LET once == correctionKnockTiming(knock, timers)
  IN once \union (IF advanceRuns = {1} THEN {}
                  ELSE UNION {correctionKnockTiming(k, timers) : k \in once})

correctionsIgn(timers) ==
  /\ limits' \in {limitsAfter(limits, timers)} \union
       (IF advanceRuns = {1} THEN {} ELSE {limitsAfter(limitsAfter(limits, timers), timers)})
  /\ knock' \in knockAfter(timers)

-----------------------------------------------------------------------------
PassTimers == SUBSET {"10HZ", "30HZ", "CLT", "TPS", "MAP"}

\* A pass with sync: the advance first, then the fuel; one without, and one
\* that finds the engine stopped, which looks up the advance none the less.
CorrectionsPass(timers) ==
  /\ rpm > 0
  /\ correctionsIgn(timers)
  /\ correctionsFuel(timers)
  /\ UNCHANGED corrConfig

CorrectionsUnsynced(timers) ==
  /\ correctionsIgn(timers)
  /\ dfco' = correctionDFCOignition(dfco)
  /\ UNCHANGED <<corrConfig, enrich, accel, ego>>

CorrectionsStopped ==
  /\ fuelCorrectionsReset
  /\ limits' = limitsAfter(limits, {})
  /\ knock' \in correctionKnockTiming(
       [knock EXCEPT !.active = FALSE, !.pulse = FALSE, !.count = 1, !.lastStep = 0,
                     !.age = KnockTime], {})
  /\ dfco' = correctionDFCOignition(dfco)
  /\ UNCHANGED corrConfig

\* The knock sensor's interrupt: counted here while no retard is active.
knockPulse ==
  /\ corrConfig.knock_mode = "DIGITAL" /\ knock.count < MaxKnocks
  /\ reading.map < 2 /\ rpm < 6
  /\ knock' = [knock EXCEPT !.count = IF knock.active THEN @ ELSE @ + 1, !.pulse = TRUE]
  /\ UNCHANGED <<fuelCorrVars, limits>>

CorrectionTime ==
  /\ accel' = [accel EXCEPT !.age = IF isAccelEnrichmentOn(accel) THEN Least(@ + 1, aeTime) ELSE @]
  /\ knock' = [knock EXCEPT !.age = IF knock.active THEN Least(@ + 1, KnockTime) ELSE @]
  /\ UNCHANGED <<corrConfig, enrich, dfco, ego, limits>>

CorrectionsInit(configs) ==
  /\ FuelCorrectionsInit(configs)
  /\ limits = [softLimitTime |-> 0, softLimitActive |-> FALSE, idleAdvDelayCount |-> 0]
  /\ knock = initialKnock

\* The retard of a digital sensor is what was last answered, less one step of
\* recovery for each step's time, however late the passes come and whatever
\* knocks fall into the recovery.
KnockRecovers ==
  corrConfig.knock_mode = "DIGITAL" /\ knock.active =>
    LET steps == IF knock.seen < knock_duration THEN 0
                 ELSE (knock.seen - knock_duration) \div knock_recoveryStepTime
    IN knock.retard = knock.answered - steps * knock_recoveryStep

=============================================================================
