--------------------------- MODULE ControlLoop_proofs ---------------------------
(* Proofs about the parts around the main loop.  A step is of one part, or  *)
(* of the engine, which every part sees; so each part has an inductive      *)
(* invariant of its own, and Disturbs says which steps can disturb it.      *)
EXTENDS ControlLoop, WellFoundedInduction, TLAPS

-----------------------------------------------------------------------------
(* Which steps touch the state of a part.                                  *)

LEMMA Disturbs ==
  ASSUME [Next]_vars
  PROVE  /\ UNCHANGED fitted
         /\ UNCHANGED reading \/ \E s \in DOMAIN Watched[fitted] : ReadSensor(s, Watched[fitted][s])
         /\ UNCHANGED coolingVars \/ fanControl \/ fanInterrupt \/ fanOffWhenCranking \/ airConControl
         /\ \/ UNCHANGED <<pumpVars, rpm>>
            \/ fitted # "pump"
            \/ UNCHANGED rpm /\ (PumpSecond \/ onPowerSourceSwitch \/ resetSecl)
            \/ rpm' \in SpeedsRead[fitted] /\ PumpTurning(rpm')
            \/ rpm' = 0 /\ PumpStopped
         /\ UNCHANGED boostVars \/ boostControl \/ BoostSwitched \/ boostInterrupt \/ BoostStopped
         /\ \/ UNCHANGED vvtVars
            \/ fitted = "valves" /\ (vvtControl \/ wmiControl \/ VvtTick \/ VvtStopped)
         /\ \/ UNCHANGED idleVars \/ IdleStopped \/ IdlePowered \/ idleInterrupt \/ StepTimePasses
            \/ IdleAlgorithmChanged(Algorithms)
            \/ \E tenHz, airCon \in BOOLEAN : idleControl(tenHz, airCon)
         /\ UNCHANGED nitrousLaunchVars \/ nitrousControl \/ checkLaunchAndFlatShift
         /\ \/ UNCHANGED limitVars \/ LimitTime \/ ProtectionSwitched
            \/ ProtectionPass /\ UNCHANGED <<rpm, launch>>
         /\ UNCHANGED rpm \/ rpm' = 0 \/ rpm' \in SpeedsRead[fitted]
         /\ UNCHANGED ruleVars \/ checkProgrammableIO
         /\ \/ UNCHANGED testVars \/ TestCommand \/ VssCommand
            \/ \E thirtyHz, oneKHz \in BOOLEAN : pulsedCommandController(thirtyHz, oneKHz)
         /\ UNCHANGED timerVars \/ oneMSInterval \/ TakeTimers \/ tachoOutputOn
         /\ \/ UNCHANGED correctionVars \/ CorrectionsStopped \/ knockPulse \/ CorrectionTime
            \/ IgnitionEvent /\ UNCHANGED <<limits, knock>>
            \/ \E timers \in PassTimes : CorrectionsPass(timers) \/ CorrectionsUnsynced(timers)
         /\ \/ UNCHANGED commsVars \/ (\E port \in Ports : HostSends(port)) \/ TimeoutPasses
            \/ serialTransmit \/ (\E caller \in Ports : serialReceive(caller)) \/ secondserial_Command
         /\ \/ UNCHANGED canVars \/ (\E f \in {10, 15, 30, 50} : sendCANBroadcast(f)) \/ CanReceive
            \/ readAuxInputs
<1> USE DEF vars, Next, Only, CorrectionParts, SensorParts, SpeedParts, TakeSpeed, Stall, TellRotation, SensorsChange,
      EngineSecond, Fan, FanTimer, AirCon, Second, PowerSwitch, Connect, Boost, BoostTune, BoostTimer,
      Valves, WaterInjection, ValveTimer, IdleControl, IdlePower, IdleTimer, StepTime, IdleTune, Rules,
      Nitrous, LaunchAndShift, Protect, LimitClock, ProtectTune, Button, Calibrate, Pulses, Millisecond,
      Pass, CoilCharges, Correct,
      CorrectUnsynced, Knock, Spark, TimePasses, Sample, Turn, Throttle, Analog, Baro, SpeedSensor,
      FlexSensor, Send, Silence, Transmit, Receive, SecondPort, Trigger, LogCleared, Broadcast,
      ReadBus, AskChannel
<1>1. UNCHANGED fitted
  OBVIOUS
<1>2. UNCHANGED coolingVars \/ fanControl \/ fanInterrupt \/ fanOffWhenCranking \/ airConControl
  OBVIOUS
<1>3. \/ UNCHANGED <<pumpVars, rpm>>
      \/ fitted # "pump"
      \/ UNCHANGED rpm /\ (PumpSecond \/ onPowerSourceSwitch \/ resetSecl)
      \/ rpm' \in SpeedsRead[fitted] /\ PumpTurning(rpm')
      \/ rpm' = 0 /\ PumpStopped
  BY DEF engineVars, setRpm, StoppedTurning, SetRotationStatus, ReadSensor, RunSecond
<1>4. UNCHANGED boostVars \/ boostControl \/ BoostSwitched \/ boostInterrupt \/ BoostStopped
  OBVIOUS
<1>5. \/ UNCHANGED idleVars \/ IdleStopped \/ IdlePowered \/ idleInterrupt \/ StepTimePasses
      \/ IdleAlgorithmChanged(Algorithms)
      \/ \E tenHz, airCon \in BOOLEAN : idleControl(tenHz, airCon)
  OBVIOUS
<1>6. UNCHANGED nitrousLaunchVars \/ nitrousControl \/ checkLaunchAndFlatShift
  OBVIOUS
<1>7. UNCHANGED reading \/ \E s \in DOMAIN Watched[fitted] : ReadSensor(s, Watched[fitted][s])
  BY DEF engineVars, setRpm, StoppedTurning, SetRotationStatus, RunSecond, oneMSInterval
<1>8. UNCHANGED ruleVars \/ checkProgrammableIO
  OBVIOUS
<1>9. \/ UNCHANGED testVars \/ TestCommand \/ VssCommand
      \/ \E thirtyHz, oneKHz \in BOOLEAN : pulsedCommandController(thirtyHz, oneKHz)
  OBVIOUS
<1>10. UNCHANGED timerVars \/ oneMSInterval \/ TakeTimers \/ tachoOutputOn
  OBVIOUS
<1>11. \/ UNCHANGED correctionVars \/ CorrectionsStopped \/ knockPulse \/ CorrectionTime
       \/ IgnitionEvent /\ UNCHANGED <<limits, knock>>
       \/ \E timers \in PassTimes : CorrectionsPass(timers) \/ CorrectionsUnsynced(timers)
  OBVIOUS
<1>12. \/ UNCHANGED commsVars \/ (\E port \in Ports : HostSends(port)) \/ TimeoutPasses
       \/ serialTransmit \/ (\E caller \in Ports : serialReceive(caller)) \/ secondserial_Command
  BY DEF CommsTrigger, CommsLogCleared, Ports
<1>13. \/ UNCHANGED canVars \/ (\E f \in {10, 15, 30, 50} : sendCANBroadcast(f)) \/ CanReceive
       \/ readAuxInputs
  OBVIOUS
<1>14. \/ UNCHANGED vvtVars
       \/ fitted = "valves" /\ (vvtControl \/ wmiControl \/ VvtTick \/ VvtStopped)
  OBVIOUS
<1>15. \/ UNCHANGED limitVars \/ LimitTime \/ ProtectionSwitched
       \/ ProtectionPass /\ UNCHANGED <<rpm, launch>>
  BY DEF engineVars, nitrousLaunchVars
<1>16. UNCHANGED rpm \/ rpm' = 0 \/ rpm' \in SpeedsRead[fitted]
  BY DEF engineVars, setRpm, StoppedTurning, SetRotationStatus, ReadSensor, RunSecond, oneMSInterval
<1> QED BY <1>1, <1>2, <1>3, <1>4, <1>5, <1>6, <1>7, <1>8, <1>9, <1>10, <1>11, <1>12, <1>13, <1>14,
           <1>15, <1>16

-----------------------------------------------------------------------------
(* The fan.                                                                *)

\* The interrupt only runs between the extremes, so that a fan whose pin is
\* dropped stays off.
FanFields == {"on", "duty", "pin", "timer", "pwmState"}

FanInv ==
  /\ DOMAIN fan = FanFields
  /\ coolingConfig.fanEnable = 1 => ~fan.timer
  /\ fan.timer => fan.duty \in 1..fullDuty - 1
  /\ FanAgrees

LEMMA FanPreserves ==
  ASSUME FanInv, reading \in Sensors,
         UNCHANGED coolingVars \/ fanControl \/ fanInterrupt \/ fanOffWhenCranking \/ airConControl
  PROVE  FanInv'
<1> USE DEF FanInv, FanAgrees, FanFields, fullDuty
<1>1. CASE fanControl
  <2>1. CASE coolingConfig.fanEnable = 1
    BY <1>1, <2>1 DEF fanControl, onOffFan, switchFan
  <2>2. CASE coolingConfig.fanEnable # 1
    <3>1. fan' = pwmFan /\ UNCHANGED coolingConfig
      BY <1>1, <2>2 DEF fanControl
    <3>2. wantedDuty \in 0..2
      BY DEF wantedDuty, fanPWMTable, airConPwmFanMinDuty, Sensors
    <3> DEFINE lit == wantedDuty > 0
               timed == coolingConfig.pwmAvailable /\ wantedDuty \in 1..fullDuty - 1
    <3>3. fan' = [fan EXCEPT !.duty = wantedDuty, !.on = lit, !.timer = timed,
                             !.pin = IF timed THEN @ ELSE lit]
      BY <3>1 DEF pwmFan
    <3>4. timed \in BOOLEAN /\ (timed => wantedDuty = 1) /\ (wantedDuty = 0 => ~lit)
      BY <3>2
    <3> HIDE DEF timed, lit
    <3>5. /\ DOMAIN fan' = FanFields /\ fan'.duty = wantedDuty /\ fan'.timer = timed
          /\ ~timed => fan'.pin = lit
      BY <3>3
    <3> QED BY <2>2, <3>1, <3>2, <3>4, <3>5
  <2> QED BY <2>1, <2>2
<1>2. CASE fanInterrupt
  BY <1>2 DEF fanInterrupt
<1>3. CASE fanOffWhenCranking
  BY <1>3 DEF fanOffWhenCranking
<1>4. CASE UNCHANGED coolingVars \/ airConControl
  BY <1>4 DEF coolingVars, airConControl
<1> QED BY <1>1, <1>2, <1>3, <1>4

(* The fuel pump.                                                          *)

PumpFields == {"isPumpOn", "pin", "fpPrimeTime", "isPrimingComplete"}
PumpState(p) == DOMAIN p = PumpFields /\ p.isPumpOn \in BOOLEAN /\ p.pin = p.isPumpOn

PumpInv == PumpState(pump) /\ rpm \in Nat /\ PumpAgrees

LEMMA SwitchedPump ==
  ASSUME NEW p, PumpState(p)
  PROVE  /\ PumpState(fuelPumpOn(p)) /\ fuelPumpOn(p).isPumpOn
         /\ PumpState(fuelPumpOff(p))
         /\ PumpState([p EXCEPT !.isPrimingComplete = TRUE])
         /\ [p EXCEPT !.isPrimingComplete = TRUE].isPumpOn = p.isPumpOn
         /\ PumpState(startPumpPriming(p))
<1>1. PumpState(fuelPumpOn(p)) /\ fuelPumpOn(p).isPumpOn
  BY DEF fuelPumpOn, PumpState, PumpFields
<1>2. PumpState(fuelPumpOff(p))
  BY DEF fuelPumpOff, PumpState, PumpFields
<1>3. /\ PumpState([p EXCEPT !.isPrimingComplete = TRUE])
      /\ [p EXCEPT !.isPrimingComplete = TRUE].isPumpOn = p.isPumpOn
  BY DEF PumpState, PumpFields
<1>4. PumpState(startPumpPriming(p))
  BY <1>1 DEF startPumpPriming, PumpState, PumpFields
<1> QED BY <1>1, <1>2, <1>3, <1>4

\* The end of priming only switches off a pump whose engine stands.
LEMMA Primed ==
  ASSUME PumpState(pump), NEW now, NEW speed \in Nat, speed > 0 => pump.isPumpOn
  PROVE  /\ PumpState(stopPumpPriming(now, speed))
         /\ speed > 0 => stopPumpPriming(now, speed).isPumpOn
<1> DEFINE done == [pump EXCEPT !.isPrimingComplete = TRUE]
<1>1. PumpState(done) /\ done.isPumpOn = pump.isPumpOn
  BY SwitchedPump
<1> HIDE DEF done
<1>2. \/ stopPumpPriming(now, speed) \in {pump, done}
      \/ speed = 0 /\ stopPumpPriming(now, speed) = fuelPumpOff(done)
  BY DEF stopPumpPriming, done
<1>3. PumpState(fuelPumpOff(done))
  BY <1>1, SwitchedPump
<1> QED BY <1>1, <1>2, <1>3

LEMMA PumpPreserves ==
  ASSUME PumpInv,
         \/ UNCHANGED <<pumpVars, rpm>>
         \/ UNCHANGED rpm /\ (PumpSecond \/ onPowerSourceSwitch \/ resetSecl)
         \/ rpm' \in Nat /\ PumpTurning(rpm')
         \/ rpm' = 0 /\ PumpStopped
  PROVE  PumpInv'
<1> USE DEF PumpInv, PumpAgrees
<1>1. CASE UNCHANGED <<pumpVars, rpm>>
  BY <1>1 DEF pumpVars, PumpState
<1>2. CASE UNCHANGED rpm /\ PumpSecond
  <2>1. pump' = stopPumpPriming(secl', rpm)
    BY <1>2 DEF PumpSecond
  <2> QED BY <1>2, <2>1, Primed DEF PumpState
<1>3. CASE UNCHANGED rpm /\ onPowerSourceSwitch
  <2>1. rpm = 0 /\ pump' = startPumpPriming(pump)
    BY <1>3 DEF onPowerSourceSwitch
  <2> QED BY <1>3, <2>1, SwitchedPump DEF PumpState
<1>4. CASE UNCHANGED rpm /\ resetSecl
  BY <1>4 DEF resetSecl, PumpState
<1>5. CASE rpm' \in Nat /\ PumpTurning(rpm')
  BY <1>5, SwitchedPump DEF PumpTurning, PumpState
<1>6. CASE rpm' = 0 /\ PumpStopped
  <2>1. pump' = stopPumpPriming(secl, 0)
    BY <1>6 DEF PumpStopped
  <2> QED BY <1>6, <2>1, Primed DEF PumpState
<1> QED BY <1>1, <1>2, <1>3, <1>4, <1>5, <1>6

(* The boost solenoid.                                                     *)

BoostFields == {"duty", "target", "counter", "timer", "pin", "pwmState", "fresh"}
BoostState(b) == DOMAIN b = BoostFields /\ b.duty \in Int /\ b.target \in Int

BoostInv == BoostState(boost) /\ boostConfig \in BoostConfigs /\ BoostAgrees

\* What boostDrive makes of a duty agrees with it.
Driven(b) ==
  /\ b.duty = 0 => ~b.timer /\ ~b.pin
  /\ b.duty = fullBoost => ~b.timer /\ b.pin
  /\ b.duty \in 1..fullBoost - 1 => b.timer

LEMMA LookedUp ==
  ASSUME NEW old \in Int, NEW table \in Int, boostConfig \in BoostConfigs
  PROVE  lookedUp(old, table) \in Int
<1>1. CASE reading.gear \in 1..6
  <2>1. boostByGear[reading.gear] \in Int
    BY <1>1 DEF boostByGear
  <2> QED BY <1>1, <2>1 DEF lookedUp, BoostConfigs
<1>2. CASE reading.gear \notin 1..6
  BY <1>2 DEF lookedUp, BoostConfigs
<1> QED BY <1>1, <1>2

LEMMA BoostDriven ==
  ASSUME NEW b, BoostState(b)
  PROVE  /\ BoostState(boostDisable(b)) /\ Driven(boostDisable(b))
         /\ BoostState(boostDrive(b)) /\ Driven(boostDrive(b))
BY DEF BoostState, BoostFields, boostDisable, boostDrive, Driven, fullBoost

LEMMA ClosedLoopBoostType ==
  ASSUME NEW b, BoostState(b), boostConfig \in BoostConfigs,
         NEW table \in Int, NEW flexCorrection \in Int, NEW output \in Int
  PROVE  /\ BoostState(closedLoopTarget(b, table, flexCorrection))
         /\ BoostState(closedLoopBoost(b, output))
<1>1. BoostState(closedLoopTarget(b, table, flexCorrection))
  <2>1. lookedUp(b.target, table) \in Int
    BY LookedUp DEF BoostState
  <2> QED BY <2>1 DEF closedLoopTarget, BoostState, BoostFields
<1>2. BoostState(closedLoopBoost(b, output))
  <2>1. BoostState(boostDisable(b))
    BY BoostDriven
  <2>2. boostConfig.boostDCWhenDisabled \in Nat
    BY DEF BoostConfigs, BoostDuties, fullBoost
  <2> QED BY <2>1, <2>2 DEF closedLoopBoost, BoostState, BoostFields
<1> QED BY <1>1, <1>2

LEMMA BoostPreserves ==
  ASSUME BoostInv,
         UNCHANGED boostVars \/ boostControl \/ BoostSwitched \/ boostInterrupt \/ BoostStopped
  PROVE  BoostInv'
<1>1. CASE boostControl
  <2>1. PICK table \in IF boostConfig.openLoop THEN BoostDuties ELSE 0..1,
             flexCorrection \in IF boostConfig.flexEnabled THEN BoostTargets ELSE {0},
             output \in IF boostConfig.openLoop THEN {0} ELSE BoostDuties :
          boost' = [(IF ~boostConfig.boostEnabled THEN [boost EXCEPT !.timer = FALSE]
                     ELSE IF boostConfig.openLoop THEN boostDrive(openLoopBoost(boost, table))
                     ELSE boostDrive(closedLoopBoost(
                       closedLoopTarget(boost, IF table > 0 THEN 1 ELSE 0, flexCorrection),
                       output))) EXCEPT !.counter = (@ + 1) % 8, !.fresh = TRUE]
    BY <1>1 DEF boostControl
  <2>2. table \in Int /\ flexCorrection \in Int /\ output \in Int
    BY DEF BoostDuties, BoostTargets, fullBoost
  <2> DEFINE b == IF ~boostConfig.boostEnabled THEN [boost EXCEPT !.timer = FALSE]
                  ELSE IF boostConfig.openLoop THEN boostDrive(openLoopBoost(boost, table))
                  ELSE boostDrive(closedLoopBoost(
                    closedLoopTarget(boost, IF table > 0 THEN 1 ELSE 0, flexCorrection),
                    output))
  <2>3. BoostState(b) /\ (boostConfig.boostEnabled => Driven(b))
    <3>1. CASE ~boostConfig.boostEnabled
      BY <3>1 DEF BoostInv, BoostState, BoostFields
    <3>2. CASE boostConfig.boostEnabled /\ boostConfig.openLoop
      <4>1. BoostState(openLoopBoost(boost, table))
        <5>1. lookedUp(boost.duty, table) \in Int
          BY <2>2, LookedUp DEF BoostInv, BoostState
        <5> QED BY <5>1 DEF openLoopBoost, BoostInv, BoostState, BoostFields
      <4> QED BY <3>2, <4>1, BoostDriven
    <3>3. CASE boostConfig.boostEnabled /\ ~boostConfig.openLoop
      BY <2>2, <3>3, BoostDriven, ClosedLoopBoostType DEF BoostInv
    <3> QED BY <3>1, <3>2, <3>3
  <2>4. boost' = [b EXCEPT !.counter = (@ + 1) % 8, !.fresh = TRUE]
    BY <2>1
  <2> HIDE DEF b
  <2>5. BoostState(boost') /\ (boostConfig.boostEnabled => Driven(boost'))
    BY <2>3, <2>4 DEF BoostState, BoostFields, Driven, fullBoost
  <2>6. UNCHANGED boostConfig
    BY <1>1 DEF boostControl
  <2> QED BY <2>5, <2>6 DEF BoostInv, BoostState, BoostAgrees, Driven
<1>2. CASE BoostSwitched
  <2>1. BoostState(boost') /\ ~boost'.fresh
    BY <1>2 DEF BoostSwitched, BoostInv, BoostState, BoostFields
  <2>2. boostConfig' \in BoostConfigs
    BY <1>2 DEF BoostSwitched, BoostInv, BoostConfigs
  <2> QED BY <2>1, <2>2 DEF BoostInv, BoostState, BoostAgrees
<1>3. CASE boostInterrupt
  BY <1>3 DEF boostInterrupt, BoostInv, BoostState, BoostFields, BoostAgrees, fullBoost
<1>4. CASE BoostStopped
  <2>1. BoostState(boost') /\ Driven(boost')
    BY <1>4, BoostDriven DEF BoostStopped, BoostInv
  <2> QED BY <1>4, <2>1 DEF BoostStopped, BoostInv, BoostState, BoostAgrees, Driven
<1>5. CASE UNCHANGED boostVars
  BY <1>5 DEF boostVars, BoostInv, BoostState, BoostAgrees
<1> QED BY <1>1, <1>2, <1>3, <1>4, <1>5

(* The stages of nitrous.                                                  *)

NitrousInv ==
  /\ DOMAIN nitrous = {"status", "stage1", "stage2"} /\ nitrous.status \subseteq 1..2
  /\ nitrous.status # {} => speedConfig.n2o_enable > 0
  /\ NitrousAgrees

LEMMA NitrousPreserves ==
  ASSUME NitrousInv, UNCHANGED nitrousLaunchVars \/ nitrousControl \/ checkLaunchAndFlatShift
  PROVE  NitrousInv'
<1>1. CASE nitrousControl
  <2> DEFINE ready == speedConfig.n2o_enable > 0 /\ nitrousReady
             status == {s \in 1..2 : ready /\ IF s = 1 THEN rpm \in Stage1
                                              ELSE speedConfig.n2o_enable = 2 /\ rpm \in Stage2}
             first == nitrous.stage1 \/ 1 \in status
             second == nitrous.stage2 \/ 2 \in status
             raised == [status |-> status, stage1 |-> first, stage2 |-> second]
  <2>1. nitrous' = IF status = {} /\ speedConfig.n2o_enable > 0 THEN lowered(raised) ELSE raised
    BY <1>1 DEF nitrousControl
  <2>2. status \subseteq 1..2 /\ (status # {} => speedConfig.n2o_enable > 0)
    OBVIOUS
  <2>3. UNCHANGED speedConfig
    BY <1>1 DEF nitrousControl
  <2>4. first \in BOOLEAN /\ second \in BOOLEAN /\ (1 \in status => first) /\ (2 \in status => second)
        /\ (status = {} /\ ~nitrous.stage1 => ~first) /\ (status = {} /\ ~nitrous.stage2 => ~second)
    OBVIOUS
  <2> HIDE DEF status, first, second
  <2>5. CASE status = {} /\ speedConfig.n2o_enable > 0
    <3>1. nitrous' = [raised EXCEPT !.stage1 = FALSE, !.stage2 = FALSE]
      BY <2>1, <2>5 DEF lowered
    <3>2. DOMAIN nitrous' = {"status", "stage1", "stage2"} /\ nitrous'.status = {}
          /\ ~nitrous'.stage1 /\ ~nitrous'.stage2
      BY <2>5, <3>1
    <3> QED BY <3>2 DEF NitrousInv, NitrousAgrees
  <2>6. CASE ~(status = {} /\ speedConfig.n2o_enable > 0)
    <3>1. nitrous' = raised
      BY <2>1, <2>6
    <3>2. DOMAIN nitrous' = {"status", "stage1", "stage2"} /\ nitrous'.status = status
          /\ nitrous'.stage1 = first /\ nitrous'.stage2 = second
      BY <3>1
    <3> QED BY <2>2, <2>3, <2>4, <2>6, <3>2 DEF NitrousInv, NitrousAgrees
  <2> QED BY <2>5, <2>6
<1>2. CASE UNCHANGED nitrousLaunchVars \/ checkLaunchAndFlatShift
  BY <1>2 DEF nitrousLaunchVars, checkLaunchAndFlatShift, NitrousInv, NitrousAgrees
<1> QED BY <1>1, <1>2

(* The idle valve.                                                         *)

IdleFields == {"idleTaper", "idleLoad", "idleOn", "idleUpActive", "initialised", "fresh"}
PwmFields == {"timer", "state", "energised"}
StepperFields ==
  {"curIdleStep", "targetIdleStep", "status", "completedHomeSteps", "pin", "enabled", "elapsed"}

WorldShape(w) ==
  /\ DOMAIN w = {"idle", "pwm", "stepper", "valve"}
  /\ DOMAIN w.idle = IdleFields /\ DOMAIN w.pwm = PwmFields /\ DOMAIN w.stepper = StepperFields

\* The motor: until it is homed it counts from the closed end, which it reaches
\* though its first pulse may find the pin high; from then on it never misses a
\* step, as the pin has been low before.
Motor(s, v) ==
  /\ s.status \in {"SOFF", "STEPPING", "COOLING"}
  /\ s.completedHomeSteps \in 0..HomeSteps /\ s.targetIdleStep \in Nat
  /\ v \in 0..MaxSteps
  /\ s.status # "STEPPING" /\ s.completedHomeSteps > 0 => ~s.pin
  /\ s.completedHomeSteps < HomeSteps => s.curIdleStep = 0
  /\ s.completedHomeSteps \in 1..HomeSteps - 1 => v = 0 \/ v + s.completedHomeSteps <= MaxSteps + 1
  /\ s.completedHomeSteps = HomeSteps => s.curIdleStep = v

\* The pulsed valve does what the load says.
Follows(w) ==
  CASE w.idle.idleLoad = 0 -> ~w.pwm.timer /\ ~w.pwm.energised
    [] w.idle.idleLoad = fullLoad -> ~w.pwm.timer /\ w.pwm.energised
    [] OTHER -> w.pwm.timer

ValveState(w) == WorldShape(w) /\ Motor(w.stepper, w.valve)

IdleInv ==
  /\ DOMAIN idleConfig = {"iacAlgorithm", "iacPWMrun", "iacStepHyster", "iacStepperPower", "idleUpEnabled"}
  /\ idleConfig.iacStepHyster \in Nat
  /\ ValveState(World)
  /\ IdleAgrees

LEMMA CheckedStep ==
  ASSUME NEW w, ValveState(w)
  PROVE  ValveState(checkForStepping(w))
<1> DEFINE s == w.stepper
           reached == Cardinality(Between(s.curIdleStep, s.targetIdleStep)) - 1 <= idleConfig.iacStepHyster
           cooling == [s EXCEPT !.pin = FALSE, !.status = "COOLING", !.elapsed = FALSE]
           still == [s EXCEPT !.status = "SOFF",
                              !.enabled = @ /\ ~(idleConfig.iacStepperPower /\ reached)]
<1>1. ASSUME NEW t \in {cooling, still}, t = cooling \/ s.status = "COOLING",
             checkForStepping(w) = [w EXCEPT !.stepper = t]
      PROVE  ValveState(checkForStepping(w))
  <2> HIDE DEF reached
  <2>1. /\ DOMAIN t = StepperFields
        /\ t.status \in {"SOFF", "COOLING"} /\ t.completedHomeSteps = s.completedHomeSteps
        /\ t.targetIdleStep = s.targetIdleStep /\ t.curIdleStep = s.curIdleStep
        /\ t = still => t.pin = s.pin
        /\ t = cooling => ~t.pin
    BY DEF ValveState, WorldShape, StepperFields
  <2>2. Motor(t, w.valve)
    <3>1. t.completedHomeSteps > 0 => ~t.pin
      BY <1>1, <2>1 DEF ValveState, Motor
    <3> HIDE DEF cooling, still
    <3> QED BY <2>1, <3>1 DEF ValveState, Motor
  <2>3. WorldShape(checkForStepping(w)) /\ checkForStepping(w).stepper = t /\ checkForStepping(w).valve = w.valve
    BY <1>1, <2>1 DEF ValveState, WorldShape
  <2> QED BY <2>2, <2>3 DEF ValveState
<1>2. CASE s.status = "STEPPING" /\ s.elapsed
  BY <1>1, <1>2 DEF checkForStepping
<1>3. CASE s.status = "COOLING" /\ s.elapsed
  BY <1>1, <1>3 DEF checkForStepping
<1>4. CASE ~(s.status = "STEPPING" /\ s.elapsed) /\ ~(s.status = "COOLING" /\ s.elapsed)
  BY <1>4 DEF checkForStepping
<1> QED BY <1>2, <1>3, <1>4

LEMMA HomedStep ==
  ASSUME NEW w, ValveState(w), ~isStepping(w), ~isHomed(w)
  PROVE  ValveState(homeStep(w))
<1> DEFINE v == [w EXCEPT !.stepper.completedHomeSteps = @ + 1]
           after == [v.stepper EXCEPT !.enabled = TRUE, !.pin = TRUE, !.status = "STEPPING", !.elapsed = FALSE]
<1>1. /\ WorldShape(homeStep(w)) /\ homeStep(w).stepper = after /\ homeStep(w).valve = Edge(v, -1)
  BY DEF homeStep, Pulse, ValveState, WorldShape, IdleFields, StepperFields
<1>2. /\ after.status = "STEPPING" /\ after.completedHomeSteps = w.stepper.completedHomeSteps + 1
      /\ after.targetIdleStep = w.stepper.targetIdleStep /\ after.curIdleStep = w.stepper.curIdleStep
      /\ v.stepper.pin = w.stepper.pin /\ v.valve = w.valve
  BY DEF ValveState, WorldShape, StepperFields
<1> HIDE DEF after, v
<1>3. Motor(after, Edge(v, -1))
  BY <1>2, IdleAssumption DEF Edge, ValveState, Motor, isStepping, isHomed
<1> QED BY <1>1, <1>3 DEF ValveState

LEMMA SteppedOnce ==
  ASSUME NEW w, ValveState(w), ~isStepping(w), isHomed(w), w.stepper.targetIdleStep <= MaxSteps,
         idleConfig.iacStepHyster \in Nat
  PROVE  ValveState(doStep(w))
<1> DEFINE error == w.stepper.targetIdleStep - w.stepper.curIdleStep
<1>1. ASSUME NEW d \in {1, -1}, w.stepper.curIdleStep + d \in 0..MaxSteps
      PROVE  ValveState(Pulse([w EXCEPT !.stepper.curIdleStep = @ + d], d))
  <2> DEFINE v == [w EXCEPT !.stepper.curIdleStep = @ + d]
             after == [v.stepper EXCEPT !.enabled = TRUE, !.pin = TRUE, !.status = "STEPPING", !.elapsed = FALSE]
  <2>1. WorldShape(Pulse(v, d)) /\ Pulse(v, d).stepper = after /\ Pulse(v, d).valve = Edge(v, d)
    BY DEF Pulse, ValveState, WorldShape, IdleFields, StepperFields
  <2>2. /\ after.status = "STEPPING" /\ after.completedHomeSteps = w.stepper.completedHomeSteps
        /\ after.targetIdleStep = w.stepper.targetIdleStep /\ after.curIdleStep = w.stepper.curIdleStep + d
        /\ v.stepper.pin = w.stepper.pin /\ v.valve = w.valve
    BY DEF ValveState, WorldShape, StepperFields
  <2> HIDE DEF after, v
  <2>3. Motor(after, Edge(v, d))
    BY <1>1, <2>2, IdleAssumption DEF Edge, ValveState, Motor, isStepping, isHomed
  <2> QED BY <2>1, <2>3 DEF ValveState, v
<1>2. w.stepper.curIdleStep = w.valve /\ w.valve \in 0..MaxSteps /\ w.stepper.targetIdleStep \in 0..MaxSteps
  BY IdleAssumption DEF ValveState, Motor, isHomed
<1>3. CASE error > idleConfig.iacStepHyster
  BY <1>1, <1>2, <1>3, IdleAssumption DEF doStep
<1>4. CASE error < -idleConfig.iacStepHyster
  BY <1>1, <1>2, <1>4, IdleAssumption DEF doStep
<1>5. CASE ~(error > idleConfig.iacStepHyster) /\ ~(error < -idleConfig.iacStepHyster)
  BY <1>5 DEF doStep
<1> QED BY <1>3, <1>4, <1>5

\* Both ways to use the motor: it is only given a target, or told one and moved.
LEMMA TargetOnly ==
  ASSUME NEW w, ValveState(w), NEW n \in Nat
  PROVE  ValveState([w EXCEPT !.stepper.targetIdleStep = n])
<1> DEFINE x == [w EXCEPT !.stepper.targetIdleStep = n]
<1>1. /\ WorldShape(x) /\ x.valve = w.valve
      /\ x.stepper = [w.stepper EXCEPT !.targetIdleStep = n]
  BY DEF ValveState, WorldShape
<1>2. Motor([w.stepper EXCEPT !.targetIdleStep = n], w.valve)
  BY DEF ValveState, WorldShape, StepperFields, Motor
<1> QED BY <1>1, <1>2 DEF ValveState

LEMMA CrankSteps == iacCrankStepsTable \in Nat /\ iacStepTable \in Nat
BY IdleAssumption DEF iacCrankStepsTable, iacStepTable

LEMMA TargetsInReach ==
  ASSUME NEW w, ValveState(w), NEW tenHz, NEW airCon, NEW n \in stepperTargets(w, tenHz, airCon)
  PROVE  n \in 0..MaxSteps
<1> DEFINE up == IF w.idle.idleUpActive THEN idleUpAdder ELSE 0
           extra == up + (IF airCon THEN airConIdleSteps ELSE 0)
           tapering == w.idle.idleTaper < idleTaperTime
           openLoop == idleConfig.iacAlgorithm = "STEP_OL"
<1>1. up \in Nat /\ extra \in Nat
  BY DEF idleUpAdder, airConIdleSteps
<1>2. \A m \in Nat : limited(m) \in 0..MaxSteps
  BY IdleAssumption DEF limited, Least
<1> HIDE DEF up, extra, tapering
<1>3. CASE rotationStatus # "Running"
  BY <1>1, <1>2, <1>3, CrankSteps DEF stepperTargets, up
<1>4. CASE rotationStatus = "Running" /\ openLoop /\ ~(tenHz /\ rpm > 0)
  BY <1>2, <1>4 DEF stepperTargets, ValveState, Motor
<1>5. CASE rotationStatus = "Running" /\ openLoop /\ tenHz /\ rpm > 0
  <2>1. PICK m \in IF tapering THEN Between(iacCrankStepsTable, iacStepTable) ELSE {iacStepTable} :
               n = limited(m + extra)
    BY <1>5 DEF stepperTargets, extra, up, tapering
  <2>2. m \in Nat
    BY CrankSteps DEF Between
  <2> QED BY <1>1, <1>2, <2>1, <2>2
<1>6. CASE rotationStatus = "Running" /\ ~openLoop
  <2>1. PICK m \in CLSteps : n = limited(m + extra)
    BY <1>6 DEF stepperTargets, extra, up
  <2> QED BY <1>1, <1>2, <2>1 DEF CLSteps
<1> QED BY <1>3, <1>4, <1>5, <1>6

LEMMA SteppedTo ==
  ASSUME NEW w, ValveState(w), idleConfig.iacStepHyster \in Nat, NEW tenHz, NEW airCon,
         NEW x \in stepperControl(w, tenHz, airCon)
  PROVE  ValveState(x)
<1> DEFINE c == checkForStepping(w)
<1>1. ValveState(c)
  BY CheckedStep
<1>2. CASE isStepping(c)
  BY <1>1, <1>2 DEF stepperControl, WhenReady
<1>3. CASE ~isStepping(c) /\ ~isHomed(c)
  BY <1>1, <1>3, HomedStep DEF stepperControl, WhenReady
<1>4. CASE ~isStepping(c) /\ isHomed(c)
  <2> HIDE DEF c
  <2> DEFINE taper == IF rotationStatus # "Running" THEN 0
                      ELSE IF tenHz /\ rpm > 0 /\ c.idle.idleTaper < idleTaperTime
                      THEN c.idle.idleTaper + 1 ELSE c.idle.idleTaper
  <2>1. PICK n \in stepperTargets(c, tenHz, airCon) :
               x = doStep([c EXCEPT !.stepper.targetIdleStep = n, !.idle.idleTaper = taper, !.idle.idleLoad = 0])
    BY <1>4 DEF stepperControl, WhenReady, c
  <2> HIDE DEF taper
  <2> DEFINE d == [c EXCEPT !.stepper.targetIdleStep = n]
             e == [c EXCEPT !.stepper.targetIdleStep = n, !.idle.idleTaper = taper, !.idle.idleLoad = 0]
  <2>2. n \in 0..MaxSteps
    BY <1>1, <2>1, TargetsInReach
  <2>3. ValveState(d) /\ d.stepper = [c.stepper EXCEPT !.targetIdleStep = n]
    BY <1>1, <2>2, TargetOnly DEF ValveState, WorldShape
  <2>4. WorldShape(e) /\ e.stepper = d.stepper /\ e.valve = d.valve
    BY <1>1 DEF ValveState, WorldShape, IdleFields
  <2>5. d.stepper.targetIdleStep = n /\ d.stepper.status = c.stepper.status
        /\ d.stepper.completedHomeSteps = c.stepper.completedHomeSteps
    BY <1>1, <2>3 DEF ValveState, WorldShape, StepperFields
  <2> HIDE DEF d, e
  <2>6. ValveState(e) /\ ~isStepping(e) /\ isHomed(e) /\ e.stepper.targetIdleStep <= MaxSteps
    BY <1>4, <2>2, <2>3, <2>4, <2>5, IdleAssumption DEF ValveState, isStepping, isHomed
  <2>7. ValveState(doStep(e))
    BY <2>6, SteppedOnce
  <2> QED BY <2>1, <2>7 DEF e
<1> QED BY <1>2, <1>3, <1>4

LEMMA Disabled ==
  ASSUME NEW w, ValveState(w), NEW x \in disableIdle(w)
  PROVE  /\ ValveState(x)
         /\ idleConfig.iacAlgorithm \in {"PWM_CL", "PWM_OL"} => Follows(x)
<1>1. CASE idleConfig.iacAlgorithm \in {"PWM_CL", "PWM_OL"}
  <2>1. x = [w EXCEPT !.pwm.timer = FALSE, !.pwm.energised = FALSE, !.idle.idleLoad = 0]
    BY <1>1 DEF disableIdle, isStepperIac, StepAlgorithms
  <2> DEFINE p == [w.pwm EXCEPT !.timer = FALSE, !.energised = FALSE]
             i == [w.idle EXCEPT !.idleLoad = 0]
  <2>2. /\ DOMAIN x = {"idle", "pwm", "stepper", "valve"}
        /\ x.idle = i /\ x.pwm = p /\ x.stepper = w.stepper /\ x.valve = w.valve
    BY <2>1 DEF ValveState, WorldShape
  <2>3. DOMAIN p = PwmFields /\ ~p.timer /\ ~p.energised /\ DOMAIN i = IdleFields /\ i.idleLoad = 0
    BY DEF ValveState, WorldShape, IdleFields, PwmFields
  <2> HIDE DEF p, i
  <2> QED BY <2>2, <2>3 DEF ValveState, WorldShape, Follows, fullLoad
<1>2. CASE isStepperIac
  <2> DEFINE c == checkForStepping(w)
             n == limited(iacCrankStepsTable + (IF c.idle.idleUpActive THEN idleUpAdder ELSE 0))
  <2>1. ValveState(c)
    BY CheckedStep
  <2>2. idleConfig.iacAlgorithm \notin {"PWM_CL", "PWM_OL"}
    BY <1>2 DEF isStepperIac, StepAlgorithms
  <2>3. disableIdle(w) = WhenReady(w, LAMBDA d : {[d EXCEPT !.stepper.targetIdleStep =
           limited(iacCrankStepsTable + (IF d.idle.idleUpActive THEN idleUpAdder ELSE 0))]})
    BY <1>2, <2>2 DEF disableIdle
  <2>4. disableIdle(w) = IF isStepping(c) THEN {c} ELSE IF ~isHomed(c) THEN {homeStep(c)}
                         ELSE {[c EXCEPT !.stepper.targetIdleStep = n]}
    BY <2>3 DEF WhenReady
  <2>5. n \in Nat
    BY CrankSteps, IdleAssumption DEF limited, Least, idleUpAdder
  <2> HIDE DEF c, n
  <2> QED BY <2>1, <2>2, <2>4, <2>5, HomedStep, TargetOnly
<1>3. CASE idleConfig.iacAlgorithm \notin {"PWM_CL", "PWM_OL"} /\ ~isStepperIac
  <2>1. x = [w EXCEPT !.idle.idleLoad = 0]
    BY <1>3 DEF disableIdle
  <2> QED BY <1>3, <2>1 DEF ValveState, WorldShape, IdleFields
<1> QED BY <1>1, <1>2, <1>3

LEMMA PwmDriven ==
  ASSUME NEW w, ValveState(w), NEW x \in pwmDrive(w)
  PROVE  /\ ValveState(x)
         /\ idleConfig.iacAlgorithm \in {"PWM_CL", "PWM_OL"} => Follows(x)
<1>1. CASE w.idle.idleLoad = fullLoad
  <2>1. x = [w EXCEPT !.pwm.timer = FALSE, !.pwm.energised = TRUE]
    BY <1>1 DEF pwmDrive, fullLoad
  <2> DEFINE p == [w.pwm EXCEPT !.timer = FALSE, !.energised = TRUE]
  <2>2. /\ DOMAIN x = {"idle", "pwm", "stepper", "valve"}
        /\ x.idle = w.idle /\ x.pwm = p /\ x.stepper = w.stepper /\ x.valve = w.valve
    BY <2>1 DEF ValveState, WorldShape
  <2>3. DOMAIN p = PwmFields /\ ~p.timer /\ p.energised
    BY DEF ValveState, WorldShape, PwmFields
  <2> HIDE DEF p
  <2> QED BY <1>1, <2>2, <2>3 DEF ValveState, WorldShape, Follows, fullLoad
<1>2. CASE w.idle.idleLoad = 0
  BY <1>2, Disabled DEF pwmDrive, fullLoad
<1>3. CASE w.idle.idleLoad \notin {0, fullLoad}
  <2>1. x = [w EXCEPT !.pwm.timer = TRUE]
    BY <1>3 DEF pwmDrive
  <2> QED BY <1>3, <2>1 DEF ValveState, WorldShape, PwmFields, Follows, fullLoad
<1> QED BY <1>1, <1>2, <1>3

LEMMA PwmControlled ==
  ASSUME NEW w, ValveState(w), NEW tenHz, NEW airCon, NEW x \in pwmControl(w, tenHz, airCon)
  PROVE  /\ ValveState(x)
         /\ idleConfig.iacAlgorithm \in {"PWM_CL", "PWM_OL"} => Follows(x)
<1> DEFINE running == rotationStatus = "Running"
           openLoop == idleConfig.iacAlgorithm = "PWM_OL"
           taper == IF ~openLoop THEN w.idle.idleTaper
                    ELSE IF rotationStatus = "Cranking" \/ (~running /\ idleConfig.iacPWMrun) THEN 0
                    ELSE IF running /\ tenHz /\ w.idle.idleTaper < idleTaperTime
                    THEN w.idle.idleTaper + 1 ELSE w.idle.idleTaper
<1>1. PICK load :
        x \in pwmDrive([w EXCEPT !.idle = [@ EXCEPT !.idleLoad = load, !.idleTaper = taper]])
  <2> PICK n \in newLoads(w, airCon) :
        x \in pwmDrive([w EXCEPT !.idle = [@ EXCEPT !.idleLoad = Least(n, fullLoad), !.idleTaper = taper]])
    BY DEF pwmControl
  <2> QED OBVIOUS
<1> HIDE DEF taper
<1>2. ValveState([w EXCEPT !.idle = [@ EXCEPT !.idleLoad = load, !.idleTaper = taper]])
  BY DEF ValveState, WorldShape, IdleFields
<1> QED BY <1>1, <1>2, PwmDriven

\* Initialising gives the motor no step; homing starts it again where it is,
\* whatever its pin is.
LEMMA Initialised ==
  ASSUME NEW w, ValveState(w), NEW forcehoming \in BOOLEAN
  PROVE  /\ ValveState(initialiseIdle(w, forcehoming))
         /\ ~initialiseIdle(w, forcehoming).idle.fresh
<1> DEFINE a == idleConfig.iacAlgorithm
           cold == a = "ONOFF" /\ ~Warm
           timed == a = "PWM_OL"
           p == [w.pwm EXCEPT !.timer = timed, !.energised = @ \/ cold]
           s == IF isStepperIac /\ forcehoming
                THEN [w.stepper EXCEPT !.completedHomeSteps = 0, !.curIdleStep = 0, !.status = "SOFF"]
                ELSE w.stepper
           i == [w.idle EXCEPT !.idleOn = @ \/ cold, !.initialised = a, !.idleLoad = 0, !.fresh = FALSE]
           x == initialiseIdle(w, forcehoming)
<1>1. /\ DOMAIN x = {"idle", "pwm", "stepper", "valve"}
      /\ x.idle = i /\ x.pwm = p /\ x.stepper = s /\ x.valve = w.valve
  <2>1. x = [w EXCEPT !.pwm = p, !.stepper = s, !.idle = i]
    BY DEF initialiseIdle
  <2> HIDE DEF x, s, i, p
  <2> QED BY <2>1 DEF ValveState, WorldShape
<1>2. DOMAIN p = PwmFields /\ DOMAIN i = IdleFields /\ ~i.fresh
  <2> HIDE DEF cold, timed, a
  <2> QED BY DEF ValveState, WorldShape, IdleFields, PwmFields
<1>3. DOMAIN s = StepperFields /\ Motor(s, w.valve)
  BY IdleAssumption DEF ValveState, WorldShape, StepperFields, Motor
<1> HIDE DEF p, s, i, x
<1> QED BY <1>1, <1>2, <1>3 DEF ValveState, WorldShape, x

LEMMA IdlePreserves ==
  ASSUME IdleInv,
         \/ UNCHANGED idleVars \/ IdleStopped \/ IdlePowered \/ idleInterrupt \/ StepTimePasses
         \/ IdleAlgorithmChanged(Algorithms)
         \/ \E tenHz, airCon \in BOOLEAN : idleControl(tenHz, airCon)
  PROVE  IdleInv'
<1> DEFINE Same == {"iacAlgorithm", "iacPWMrun", "iacStepHyster", "iacStepperPower", "idleUpEnabled"}
           Follow(a) == a \in {"PWM_OL", "PWM_CL"}
<1> USE DEF IdleInv
\* What a step leaves behind is a world like those above.
<1>0. ASSUME NEW w, ValveState(w), Becomes(w), DOMAIN idleConfig' = Same, idleConfig'.iacStepHyster \in Nat,
             w.idle.fresh /\ Follow(idleConfig'.iacAlgorithm) => Follows(w)
      PROVE  IdleInv'
  <2>1. WorldShape(w) /\ Motor(w.stepper, w.valve)
    BY <1>0 DEF ValveState
  <2>2. /\ WorldShape([idle |-> idle', pwm |-> pwm', stepper |-> stepper', valve |-> valve'])
        /\ Motor(stepper', valve')
    BY <1>0, <2>1 DEF Becomes, WorldShape
  <2>3. ValveState(World)'
    BY <2>2 DEF ValveState, World
  <2>4. IdleAgrees'
    BY <1>0 DEF IdleAgrees, Follows, Becomes
  <2> QED BY <1>0, <2>3, <2>4
<1>1. ValveState(World)
  OBVIOUS
<1>2. World.idle = idle /\ World.pwm = pwm /\ World.stepper = stepper /\ World.valve = valve
  BY DEF World
<1>3. idle.fresh /\ Follow(idleConfig.iacAlgorithm) => Follows(World)
  BY <1>2 DEF IdleAgrees, Follows
<1>4. CASE IdleStopped
  <2>1. UNCHANGED idleConfig
    BY <1>4 DEF IdleStopped
  <2>2. CASE idleConfig.iacPWMrun
    BY <1>0, <1>1, <1>2, <1>3, <1>4, <2>1, <2>2 DEF IdleStopped, Becomes
  <2>3. CASE ~idleConfig.iacPWMrun
    <3>1. PICK w \in disableIdle(World) : Becomes(w)
      BY <1>4, <2>3 DEF IdleStopped
    <3>2. ValveState(w) /\ (Follow(idleConfig.iacAlgorithm) => Follows(w))
      BY <1>1, Disabled
    <3> QED BY <1>0, <2>1, <3>1, <3>2
  <2> QED BY <2>2, <2>3
<1>5. CASE IdlePowered
  <2>1. /\ Becomes(initialiseIdle(World, TRUE)) /\ ~initialiseIdle(World, TRUE).idle.fresh
        /\ ValveState(initialiseIdle(World, TRUE))
    BY <1>1, <1>5, Initialised DEF IdlePowered
  <2>2. DOMAIN idleConfig' = Same /\ idleConfig'.iacStepHyster \in Nat
    BY <1>5 DEF IdlePowered
  <2> QED BY <1>0, <2>1, <2>2
<1>6. CASE idleInterrupt
  <2> DEFINE p == [pwm EXCEPT !.energised = ~pwm.state, !.state = ~pwm.state]
             w == [World EXCEPT !.pwm = p]
  <2>1. pwm.timer /\ Becomes(w) /\ UNCHANGED idleConfig
    BY <1>2, <1>6 DEF idleInterrupt, Becomes, World
  <2>2. ValveState(w) /\ w.pwm = p /\ w.idle = idle
    BY <1>1 DEF ValveState, WorldShape, World, PwmFields
  <2>3. p.timer = pwm.timer
    BY <1>1 DEF ValveState, WorldShape, World, PwmFields
  <2>4. idle.fresh /\ Follow(idleConfig.iacAlgorithm) => Follows(w)
    BY <1>2, <1>3, <2>1, <2>2, <2>3 DEF Follows, fullLoad
  <2> HIDE DEF w
  <2> QED BY <1>0, <2>1, <2>2, <2>4
<1>7. CASE StepTimePasses
  <2> DEFINE w == [World EXCEPT !.stepper = [stepper EXCEPT !.elapsed = TRUE]]
  <2>1. Becomes(w) /\ UNCHANGED idleConfig /\ w.idle = idle /\ w.pwm = pwm
    BY <1>2, <1>7 DEF StepTimePasses, Becomes, World
  <2>2. Motor([stepper EXCEPT !.elapsed = TRUE], valve)
    BY <1>1, <1>2 DEF ValveState, WorldShape, StepperFields, Motor
  <2>3. ValveState(w)
    BY <1>1, <2>2 DEF ValveState, WorldShape, World, StepperFields
  <2>4. idle.fresh /\ Follow(idleConfig.iacAlgorithm) => Follows(w)
    BY <1>2, <1>3, <2>1 DEF Follows
  <2> HIDE DEF w
  <2> QED BY <1>0, <2>1, <2>3, <2>4
<1>8. CASE IdleAlgorithmChanged(Algorithms)
  <2> DEFINE w == [World EXCEPT !.idle = [idle EXCEPT !.fresh = FALSE]]
  <2>1. Becomes(w) /\ DOMAIN idleConfig' = Same /\ idleConfig'.iacStepHyster \in Nat
    BY <1>2, <1>8 DEF IdleAlgorithmChanged, Becomes, World
  <2>2. ValveState(w) /\ ~w.idle.fresh
    BY <1>1 DEF ValveState, WorldShape, World, IdleFields
  <2> HIDE DEF w
  <2> QED BY <1>0, <2>1, <2>2
<1>9. ASSUME NEW tenHz \in BOOLEAN, NEW airCon \in BOOLEAN, idleControl(tenHz, airCon)
      PROVE  IdleInv'
  <2> DEFINE first == IF idle.initialised # idleConfig.iacAlgorithm THEN initialiseIdle(World, FALSE)
                      ELSE World
             lit == IF isPwmIac /\ (rpm > 0 \/ idleConfig.iacPWMrun)
                    THEN [first EXCEPT !.pwm.timer = TRUE] ELSE first
             w == [lit EXCEPT !.idle = [@ EXCEPT !.fresh = TRUE,
                     !.idleUpActive = idleConfig.idleUpEnabled /\ reading.request = 1]]
  <2>1. ValveState(first)
    BY <1>1, Initialised
  <2> HIDE DEF first
  <2>2. ValveState(lit)
    BY <2>1 DEF ValveState, WorldShape, PwmFields
  <2> HIDE DEF lit
  <2>3. ValveState(w)
    BY <2>2 DEF ValveState, WorldShape, IdleFields
  <2>4. PICK after \in CASE isPwmIac -> pwmControl(w, tenHz, airCon)
                        [] isStepperIac -> stepperControl(w, tenHz, airCon)
                        [] idleConfig.iacAlgorithm = "ONOFF" -> {onOffControl(w)}
                        [] OTHER -> {w} : Becomes(after)
    BY <1>9 DEF idleControl, first, lit
  <2> HIDE DEF w
  <2>5. /\ DOMAIN idleConfig' = Same /\ idleConfig'.iacStepHyster = idleConfig.iacStepHyster
        /\ idleConfig'.iacAlgorithm = idleConfig.iacAlgorithm
    BY <1>9 DEF idleControl
  <2>6. CASE isPwmIac
    <3>1. after \in pwmControl(w, tenHz, airCon)
      BY <2>4, <2>6 DEF isPwmIac, isStepperIac, PwmAlgorithms, StepAlgorithms
    <3>2. ValveState(after) /\ (Follow(idleConfig.iacAlgorithm) => Follows(after))
      BY <2>3, <3>1, PwmControlled
    <3> QED BY <1>0, <2>4, <2>5, <3>2
  <2>7. CASE ~isPwmIac
    <3>1. ~Follow(idleConfig.iacAlgorithm)
      BY <2>7 DEF isPwmIac, PwmAlgorithms
    <3>2. \/ isStepperIac /\ after \in stepperControl(w, tenHz, airCon)
          \/ after \in {onOffControl(w), w}
      BY <2>4, <2>7 DEF isStepperIac, StepAlgorithms
    <3>3. ValveState(onOffControl(w))
      BY <2>3 DEF onOffControl, ValveState, WorldShape, IdleFields, PwmFields
    <3>4. ValveState(after)
      BY <2>3, <3>2, <3>3, SteppedTo
    <3> QED BY <1>0, <2>4, <2>5, <3>1, <3>4
  <2> QED BY <2>6, <2>7
<1>10. CASE UNCHANGED idleVars
  <2>1. Becomes(World)
    BY <1>2, <1>10 DEF Becomes, idleVars
  <2> QED BY <1>0, <1>1, <1>2, <1>3, <1>10, <2>1 DEF idleVars
<1> QED BY <1>4, <1>5, <1>6, <1>7, <1>8, <1>9, <1>10

-----------------------------------------------------------------------------
(* The outputs.                                                            *)

LoopInv ==
  /\ fitted \in DOMAIN Tunes /\ reading \in Sensors
  /\ FanInv /\ (fitted = "pump" => PumpInv) /\ BoostInv /\ IdleInv /\ NitrousInv

LEMMA LoopInit == Init => LoopInv
<1> SUFFICES ASSUME Init PROVE LoopInv
  OBVIOUS
<1>1. fitted \in DOMAIN Tunes /\ reading \in Sensors
  BY DEF Init, EngineInit
<1>2. Tunes[fitted] \subseteq Configs(fitted)
  BY <1>1, ControlLoopAssumption
<1>3. FanInv
  BY DEF Init, CoolingInit, FanInv, FanFields, FanAgrees, initialiseFan, fullDuty
<1>4. PumpInv
  <2> DEFINE p == [isPumpOn |-> FALSE, pin |-> FALSE, fpPrimeTime |-> 0, isPrimingComplete |-> FALSE]
  <2>1. PumpState(p)
    BY DEF PumpState, PumpFields
  <2> HIDE DEF p
  <2>2. PumpState(startPumpPriming(p))
    BY <2>1, SwitchedPump
  <2>3. pump = startPumpPriming(p) /\ rpm = 0
    BY DEF Init, FuelPumpInit, EngineInit, p
  <2> QED BY <2>2, <2>3 DEF PumpInv, PumpAgrees, PumpState
<1>5. BoostInv
  <2>1. tunes("boost", BoostConfigs) \subseteq BoostConfigs
    <3>1. [boostEnabled |-> TRUE, openLoop |-> TRUE, boostByGearEnabled |-> 0, externalVss |-> TRUE,
           flexEnabled |-> TRUE, boostDCWhenDisabled |-> 0] \in BoostConfigs
      BY DEF BoostConfigs, BoostDuties, fullBoost
    <3>2. (CHOOSE c \in BoostConfigs : TRUE) \in BoostConfigs
      BY <3>1
    <3>3. fitted = "boost" => Configs(fitted) = BoostConfigs
      BY DEF Configs, CorrectionParts, SensorParts
    <3> QED BY <1>2, <3>2, <3>3 DEF tunes
  <2>2. boostConfig \in BoostConfigs /\ boost = initialiseBoost
    BY <2>1 DEF Init, BoostInit
  <2> QED BY <2>2 DEF initialiseBoost, BoostInv, BoostState, BoostFields, BoostAgrees, fullBoost
<1>6. IdleInv
  <2>1. tunes("idle", IdleConfigs) \subseteq IdleConfigs
    <3>1. [iacAlgorithm |-> "NONE", iacPWMrun |-> TRUE, iacStepHyster |-> 0, iacStepperPower |-> TRUE,
           idleUpEnabled |-> TRUE] \in IdleConfigs
      BY DEF IdleConfigs
    <3>2. (CHOOSE c \in IdleConfigs : TRUE) \in IdleConfigs
      BY <3>1
    <3>3. fitted = "idle" => Configs(fitted) = IdleConfigs
      BY DEF Configs, CorrectionParts, SensorParts
    <3> QED BY <1>2, <3>2, <3>3 DEF tunes
  <2> DEFINE w == [idle |-> [idleTaper |-> 0, idleLoad |-> 0, idleOn |-> FALSE, idleUpActive |-> FALSE,
                             initialised |-> "NONE", fresh |-> FALSE],
                   pwm |-> [timer |-> FALSE, state |-> FALSE, energised |-> FALSE],
                   stepper |-> [curIdleStep |-> 0, targetIdleStep |-> 0, status |-> "SOFF",
                                completedHomeSteps |-> 0, pin |-> FALSE, enabled |-> FALSE,
                                elapsed |-> FALSE],
                   valve |-> valve]
             x == initialiseIdle(w, TRUE)
  <2>2. ValveState(w)
    BY IdleAssumption
       DEF Init, IdleInit, ValveState, WorldShape, IdleFields, PwmFields, StepperFields, Motor
  <2>3. idle = x.idle /\ pwm = x.pwm /\ stepper = x.stepper /\ valve = x.valve
    <3>1. idle = x.idle /\ pwm = x.pwm /\ stepper = x.stepper
      BY DEF Init, IdleInit
    <3>2. valve = x.valve
      BY DEF initialiseIdle
    <3> QED BY <3>1, <3>2
  <2> HIDE DEF w
  <2>4. ValveState(x) /\ ~x.idle.fresh
    BY <2>2, Initialised
  <2> HIDE DEF x
  <2>5. ValveState(World)
    BY <2>3, <2>4 DEF ValveState, WorldShape, World
  <2>6. idleConfig \in IdleConfigs
    BY <2>1 DEF Init, IdleInit
  <2> QED BY <2>3, <2>4, <2>5, <2>6 DEF IdleInv, IdleAgrees, IdleConfigs
<1>7. NitrousInv
  BY DEF Init, NitrousLaunchInit, initialiseNitrous, NitrousInv, NitrousAgrees
<1> QED BY <1>1, <1>3, <1>4, <1>5, <1>6, <1>7 DEF LoopInv

LEMMA LoopNext == LoopInv /\ [Next]_vars => LoopInv'
<1> SUFFICES ASSUME LoopInv, [Next]_vars PROVE LoopInv'
  OBVIOUS
<1>1. fitted' \in DOMAIN Tunes /\ reading' \in Sensors
  <2>1. UNCHANGED fitted
    BY Disturbs
  <2>2. CASE UNCHANGED reading
    BY <2>1, <2>2 DEF LoopInv
  <2>3. ASSUME NEW s \in DOMAIN Watched[fitted], ReadSensor(s, Watched[fitted][s])
        PROVE  reading' \in Sensors
    <3>1. PICK v \in Watched[fitted][s] : reading' = [reading EXCEPT ![s] = v]
      BY <2>3 DEF ReadSensor
    <3>2. [reading EXCEPT ![s] = v] \in Sensors
      BY ControlLoopAssumption, Zenon DEF LoopInv
    <3> QED BY <3>1, <3>2
  <2> QED BY <2>1, <2>2, <2>3, Disturbs DEF LoopInv
<1>2. FanInv'
  BY Disturbs, FanPreserves DEF LoopInv
<1>3. fitted' = "pump" => PumpInv'
  <2>1. SpeedsRead[fitted] \subseteq Nat
    BY ControlLoopAssumption DEF LoopInv, Speeds
  <2> QED BY <2>1, Disturbs, PumpPreserves DEF LoopInv
<1>4. BoostInv'
  BY Disturbs, BoostPreserves DEF LoopInv
<1>5. IdleInv'
  BY Disturbs, IdlePreserves DEF LoopInv
<1>6. NitrousInv'
  BY Disturbs, NitrousPreserves DEF LoopInv
<1> QED BY <1>1, <1>2, <1>3, <1>4, <1>5, <1>6 DEF LoopInv

LEMMA LoopInvariant == Spec => []LoopInv
BY LoopInit, LoopNext, PTL DEF Spec

\* What is reported of the fan, the pump, the boost solenoid, the idle valve
\* and nitrous is what their pins and timers do, whatever is tuned and read
\* and in whatever order loop() and the interrupts come to them.
THEOREM OutputsAlwaysAgree == Spec => []OutputsAgree
<1>1. LoopInv => OutputsAgree
  BY DEF LoopInv, OutputsAgree, FanInv, PumpInv, BoostInv, IdleInv, NitrousInv
<1> QED BY <1>1, LoopInvariant, PTL

\* A homed stepper motor is at the step idleStepper.curIdleStep names, though
\* it is homed in the middle of a pulse, stalls and changes its algorithm.
THEOREM StepsAlwaysCounted == Spec => []StepsCounted
<1>1. LoopInv => StepsCounted
  BY IdleAssumption DEF LoopInv, IdleInv, ValveState, Motor, StepsCounted, World
<1> QED BY <1>1, LoopInvariant, PTL

-----------------------------------------------------------------------------
(* The pulses of the valves.  They are regular once every channel has been *)
(* through an end with its duty as it is now, and then through a start.    *)

PulseFields == {"value", "cur", "state", "max", "pin", "next", "compare"}

PulseState(p) ==
  /\ DOMAIN p = PulseFields
  /\ DOMAIN p.value = Outs /\ DOMAIN p.cur = Outs
  /\ DOMAIN p.state = Outs /\ DOMAIN p.max = Outs /\ DOMAIN p.pin = Outs
  /\ \A i \in Outs :
       /\ p.value[i] \in Duty /\ p.cur[i] \in Duty
       /\ p.state[i] \in BOOLEAN /\ p.max[i] \in BOOLEAN /\ p.pin[i] \in BOOLEAN
  /\ p.compare \in Nat \ {0} /\ p.next \in 0..2

\* Only a channel at full duty is left alone.
FullOnly(p) == \A i \in Outs : p.value[i] < vvtMaxCount => ~p.max[i]

Mid == 1..vvtMaxCount - 1
Live(p, i) == p.state[i] /\ ~p.max[i]

\* Channel i has no pulse to end, and its pin is where that leaves it.
Ended(p, i) ==
  /\ p.value[i] < vvtMaxCount => ~p.state[i]
  /\ p.value[i] = vvtMaxCount => p.max[i]
  /\ p.value[i] \in Mid => ~p.pin[i]

Quiet(p) == \A i \in Outs : noPulse(p, i)
UnderWay(p) == \A i \in Outs : Ended(p, i) \/ Live(p, i)
Ending(p) ==
  \E i \in Outs : Ended(p, i) /\ (Ended(p, 3 - i) \/ (Live(p, 3 - i) /\ p.next = 2 - i))
AllEnded(p) == \A i \in Outs : Ended(p, i)

\* Where in the period the next match is.
NextEdge(p) ==
  IF Quiet(p) THEN vvtMaxCount ELSE IF p.next = 1 THEN p.value[2] ELSE p.value[1]

Regular(p, level) ==
  /\ \A i \in Outs :
       /\ p.value[i] = 0 => ~p.state[i]
       /\ p.value[i] = vvtMaxCount => p.max[i]
       /\ p.value[i] \in Mid =>
            /\ p.pin[i] = p.state[i]
            /\ p.state[i] => /\ NextEdge(p) <= p.value[i]
                             /\ level[i] + p.compare <= NextEdge(p) + 1
            /\ ~p.state[i] => level[i] + p.compare <= NextEdge(p) - p.value[i] + 1
  /\ ~Quiet(p) =>
       /\ \A i \in Outs : p.cur[i] = p.value[i]
       /\ p.next = 0 => Live(p, 1) /\ (Live(p, 2) => p.value[1] # p.value[2])
       /\ p.next = 1 => Live(p, 2) /\ (Live(p, 1) => p.value[1] # p.value[2])
       /\ p.next = 2 => Live(p, 1) /\ Live(p, 2) /\ p.value[1] = p.value[2]

\* How far the pulses have come since the duties were changed.
Stages(p, h) ==
  /\ h.settled >= 1 => Quiet(p) \/ UnderWay(p)
  /\ h.settled >= 2 => UnderWay(p)
  /\ h.settled >= 3 => Ending(p) \/ Regular(p, h.level)
  /\ h.settled >= 4 => AllEnded(p) \/ Regular(p, h.level)
  /\ h.settled >= 5 => Regular(p, h.level)

LEMMA SetCompare ==
  ASSUME NEW p, PulseState(p), NEW n \in Int, NEW q, q = setCompare(p, n)
  PROVE  /\ PulseState(q)
         /\ q.value = p.value /\ q.cur = p.cur /\ q.state = p.state /\ q.max = p.max
         /\ q.pin = p.pin /\ q.next = p.next
         /\ n \in 1..vvtMaxCount => q.compare = n
<1> DEFINE d == n % VvtModulus
           c == IF d = 0 THEN VvtModulus ELSE d
<1>1. d \in 0..VvtModulus - 1
  BY VvtAssumption
<1>2. n \in 1..vvtMaxCount => d = n
  BY VvtAssumption
<1> HIDE DEF d
<1>3. c \in Nat \ {0} /\ (n \in 1..vvtMaxCount => c = n)
  BY <1>1, <1>2, VvtAssumption
<1>4. q = [p EXCEPT !.compare = c]
  BY DEF setCompare, d
<1> HIDE DEF c
<1> QED BY <1>3, <1>4 DEF PulseState, PulseFields

\* The start of a period.
LEMMA SwitchOn ==
  ASSUME NEW p, PulseState(p), NEW q, q = switchOn(p)
  PROVE  /\ PulseState(q)
         /\ q.value = p.value /\ q.cur = p.cur /\ q.max = p.max
         /\ q.next = p.next /\ q.compare = p.compare
         /\ \A i \in Outs :
              IF p.value[i] > 0 /\ ~p.max[i] THEN q.state[i] /\ q.pin[i]
              ELSE q.state[i] = p.state[i] /\ q.pin[i] = p.pin[i]
<1> DEFINE rise == {i \in Outs : p.value[i] > 0 /\ ~p.max[i]}
           pin == [i \in Outs |-> p.pin[i] \/ i \in rise]
           state == [i \in Outs |-> p.state[i] \/ i \in rise]
<1>1. q = [p EXCEPT !.pin = pin, !.state = state]
  BY DEF switchOn
<1>2. /\ DOMAIN pin = Outs /\ DOMAIN state = Outs
      /\ \A i \in Outs : /\ pin[i] \in BOOLEAN /\ state[i] \in BOOLEAN
                         /\ i \in rise => pin[i] /\ state[i]
                         /\ i \notin rise => pin[i] = p.pin[i] /\ state[i] = p.state[i]
  BY DEF PulseState
<1>3. \A i \in Outs : i \in rise <=> p.value[i] > 0 /\ ~p.max[i]
  OBVIOUS
<1> HIDE DEF pin, state, rise
<1>4. /\ DOMAIN q = PulseFields /\ q.pin = pin /\ q.state = state
      /\ q.value = p.value /\ q.cur = p.cur /\ q.max = p.max
      /\ q.next = p.next /\ q.compare = p.compare
  BY <1>1 DEF PulseState, PulseFields
<1>5. PulseState(q)
  BY <1>2, <1>4 DEF PulseState
<1> QED BY <1>2, <1>3, <1>4, <1>5

Same(p, q, i) == q.state[i] = p.state[i] /\ q.max[i] = p.max[i] /\ q.pin[i] = p.pin[i]

Left(p, q, i) ==
  /\ p.value[i] < vvtMaxCount => ~q.state[i] /\ ~q.max[i] /\ ~q.pin[i]
  /\ p.value[i] = vvtMaxCount => q.max[i] /\ q.state[i] = p.state[i] /\ q.pin[i] = p.pin[i]

\* A channel alone is written.
LEMMA SetOff ==
  ASSUME NEW p, PulseState(p), NEW i \in Outs, NEW q, q = off(p, i)
  PROVE  /\ PulseState(q)
         /\ q.value = p.value /\ q.cur = p.cur /\ q.next = p.next /\ q.compare = p.compare
         /\ ~q.pin[i] /\ ~q.state[i] /\ ~q.max[i]
         /\ \A j \in Outs \ {i} : Same(p, q, j)
<1>1. q = [p EXCEPT !.pin[i] = FALSE, !.state[i] = FALSE, !.max[i] = FALSE]
  BY DEF off
<1>2. /\ DOMAIN q = PulseFields /\ q.pin = [p.pin EXCEPT ![i] = FALSE]
      /\ q.state = [p.state EXCEPT ![i] = FALSE] /\ q.max = [p.max EXCEPT ![i] = FALSE]
      /\ q.value = p.value /\ q.cur = p.cur /\ q.next = p.next /\ q.compare = p.compare
  BY <1>1 DEF PulseState, PulseFields
<1>3. /\ DOMAIN q.pin = Outs /\ DOMAIN q.state = Outs /\ DOMAIN q.max = Outs
      /\ q.pin[i] = FALSE /\ q.state[i] = FALSE /\ q.max[i] = FALSE
      /\ \A j \in Outs \ {i} : Same(p, q, j)
  BY <1>2 DEF PulseState, Same
<1>4. PulseState(q)
  BY <1>2, <1>3 DEF PulseState, Same
<1> QED BY <1>2, <1>3, <1>4

LEMMA SetOn ==
  ASSUME NEW p, PulseState(p), NEW i \in Outs, NEW q, q = on(p, i)
  PROVE  /\ PulseState(q)
         /\ q.value = p.value /\ q.cur = p.cur /\ q.next = p.next /\ q.compare = p.compare
         /\ q.pin[i] /\ q.state[i] /\ q.max[i]
         /\ \A j \in Outs \ {i} : Same(p, q, j)
<1>1. q = [p EXCEPT !.pin[i] = TRUE, !.state[i] = TRUE, !.max[i] = TRUE]
  BY DEF on
<1>2. /\ DOMAIN q = PulseFields /\ q.pin = [p.pin EXCEPT ![i] = TRUE]
      /\ q.state = [p.state EXCEPT ![i] = TRUE] /\ q.max = [p.max EXCEPT ![i] = TRUE]
      /\ q.value = p.value /\ q.cur = p.cur /\ q.next = p.next /\ q.compare = p.compare
  BY <1>1 DEF PulseState, PulseFields
<1>3. /\ DOMAIN q.pin = Outs /\ DOMAIN q.state = Outs /\ DOMAIN q.max = Outs
      /\ q.pin[i] = TRUE /\ q.state[i] = TRUE /\ q.max[i] = TRUE
      /\ \A j \in Outs \ {i} : Same(p, q, j)
  BY <1>2 DEF PulseState, Same
<1>4. PulseState(q)
  BY <1>2, <1>3 DEF PulseState, Same
<1> QED BY <1>2, <1>3, <1>4

LEMMA SwitchOff ==
  ASSUME NEW p, PulseState(p), NEW i \in Outs, NEW q, q = switchOff(p, i)
  PROVE  /\ PulseState(q)
         /\ q.value = p.value /\ q.cur = p.cur /\ q.next = p.next /\ q.compare = p.compare
         /\ Left(p, q, i)
         /\ \A j \in Outs \ {i} : Same(p, q, j)
<1>0. p.value[i] \in Int /\ vvtMaxCount \in Int
  BY VvtAssumption DEF PulseState, Duty
<1>1. CASE p.value[i] < vvtMaxCount
  <2>1. q = off(p, i)
    BY <1>1 DEF switchOff, off
  <2> QED BY <1>0, <1>1, <2>1, SetOff DEF Left
<1>2. CASE ~(p.value[i] < vvtMaxCount)
  <2>1. q = [p EXCEPT !.max[i] = TRUE]
    BY <1>2 DEF switchOff
  <2>2. /\ DOMAIN q = PulseFields /\ q.pin = p.pin
        /\ q.state = p.state /\ q.max = [p.max EXCEPT ![i] = TRUE]
        /\ q.value = p.value /\ q.cur = p.cur /\ q.next = p.next /\ q.compare = p.compare
    BY <2>1 DEF PulseState, PulseFields
  <2>3. /\ DOMAIN q.max = Outs /\ q.max[i] = TRUE
        /\ \A j \in Outs \ {i} : Same(p, q, j)
    BY <2>2 DEF PulseState, Same
  <2>4. PulseState(q)
    BY <2>2, <2>3 DEF PulseState, Same
  <2> QED BY <1>2, <2>2, <2>3, <2>4 DEF Left
<1> QED BY <1>1, <1>2

\* What an interrupt makes of p: a start of both channels, or an end of some.
Started(p, q) ==
  /\ \A i \in Outs :
       /\ q.max[i] = p.max[i] /\ q.state[i] = (p.state[i] \/ (p.value[i] > 0 /\ ~p.max[i]))
       /\ q.pin[i] = (p.pin[i] \/ (p.value[i] > 0 /\ ~p.max[i]))
  /\ \/ \A i \in Outs : ~q.state[i]
     \/ /\ q.cur = q.value
        /\ \/ q.state[1] /\ (q.value[1] <= q.value[2] \/ ~q.state[2])
              /\ (q.value[1] > 0 => q.compare = q.value[1])
              /\ q.next = IF q.value[1] = q.value[2] THEN 2 ELSE 0
           \/ /\ q.state[2] /\ ~(q.state[1] /\ q.value[1] <= q.value[2])
              /\ (q.value[2] > 0 => q.compare = q.value[2])
              /\ q.next = 1

EndedOne(p, q, i) ==
  /\ q.cur = p.cur /\ Left(p, q, i) /\ Same(p, q, 3 - i)
  /\ IF p.state[3 - i]
     THEN /\ q.next = 2 - i
          /\ p.cur[3 - i] - p.cur[i] \in 1..vvtMaxCount => q.compare = p.cur[3 - i] - p.cur[i]
     ELSE /\ q.next = 2
          /\ p.cur[i] < vvtMaxCount => q.compare = vvtMaxCount - p.cur[i]

EndedBoth(p, q) ==
  /\ q.cur = p.cur /\ q.next = p.next
  /\ \A i \in Outs : Left(p, q, i)
  /\ p.value[2] \in Mid /\ p.cur[2] = p.value[2] => q.compare = vvtMaxCount - p.value[2]

LEMMA StartPeriod ==
  ASSUME NEW p, PulseState(p), NEW q, q = startPeriod(switchOn(p))
  PROVE  PulseState(q) /\ q.value = p.value /\ Started(p, q)
<1> DEFINE r == switchOn(p)
           l == [r EXCEPT !.cur = r.value]
<1>1. /\ PulseState(r)
      /\ r.value = p.value /\ r.max = p.max
      /\ \A i \in Outs :
           /\ r.state[i] = (p.state[i] \/ (p.value[i] > 0 /\ ~p.max[i]))
           /\ r.pin[i] = (p.pin[i] \/ (p.value[i] > 0 /\ ~p.max[i]))
  BY SwitchOn DEF PulseState
<1>2. /\ PulseState(l) /\ l.cur = r.value
      /\ l.value = r.value /\ l.max = r.max /\ l.state = r.state /\ l.pin = r.pin
  BY <1>1 DEF PulseState, PulseFields
<1>3. /\ \A i \in Outs : r.value[i] \in 0..vvtMaxCount
      /\ \A i \in Outs : r.value[i] \in Int /\ (r.value[i] > 0 => r.value[i] \in 1..vvtMaxCount)
      /\ vvtMaxCount \in Int
  BY <1>1, VvtAssumption DEF PulseState, Duty
<1> DEFINE first == r.state[1] /\ (r.value[1] <= r.value[2] \/ ~r.state[2])
           second == r.state[2] /\ ~(r.state[1] /\ r.value[1] <= r.value[2])
<1>4. CASE first
  <2> DEFINE m == setCompare(l, r.value[1])
             n == IF r.value[1] = r.value[2] THEN 2 ELSE 0
  <2>1. q = [m EXCEPT !.next = n]
    BY <1>4 DEF startPeriod
  <2>2. /\ PulseState(m)
        /\ m.value = r.value /\ m.cur = r.value /\ m.state = r.state /\ m.max = r.max
        /\ m.pin = r.pin /\ (r.value[1] > 0 => m.compare = r.value[1])
    <3> DEFINE e == r.value[1]
               c == setCompare(l, e)
    <3>1. e \in Int /\ (e > 0 => e \in 1..vvtMaxCount)
      BY <1>3 DEF Outs
    <3> HIDE DEF l, r, e
    <3>2. /\ PulseState(c)
          /\ c.value = l.value /\ c.cur = l.cur /\ c.state = l.state /\ c.max = l.max
          /\ c.pin = l.pin /\ (e \in 1..vvtMaxCount => c.compare = e)
      BY <1>2, <3>1, SetCompare
    <3> QED BY <1>2, <3>1, <3>2 DEF e
  <2> HIDE DEF m, r
  <2>3. n \in {0, 2}
    OBVIOUS
  <2>4. /\ PulseState(q) /\ q.next = n
        /\ q.value = r.value /\ q.cur = r.value /\ q.state = r.state /\ q.max = r.max
        /\ q.pin = r.pin /\ (r.value[1] > 0 => q.compare = r.value[1])
    BY <2>1, <2>2, <2>3 DEF PulseState, PulseFields
  <2> QED BY <1>1, <1>4, <2>4 DEF Started
<1>5. CASE second
  <2> DEFINE m == setCompare(l, r.value[2])
  <2>1. q = [m EXCEPT !.next = 1]
    BY <1>5 DEF startPeriod
  <2>2. /\ PulseState(m)
        /\ m.value = r.value /\ m.cur = r.value /\ m.state = r.state /\ m.max = r.max
        /\ m.pin = r.pin /\ (r.value[2] > 0 => m.compare = r.value[2])
    <3> DEFINE e == r.value[2]
               c == setCompare(l, e)
    <3>1. e \in Int /\ (e > 0 => e \in 1..vvtMaxCount)
      BY <1>3 DEF Outs
    <3> HIDE DEF l, r, e
    <3>2. /\ PulseState(c)
          /\ c.value = l.value /\ c.cur = l.cur /\ c.state = l.state /\ c.max = l.max
          /\ c.pin = l.pin /\ (e \in 1..vvtMaxCount => c.compare = e)
      BY <1>2, <3>1, SetCompare
    <3> QED BY <1>2, <3>1, <3>2 DEF e
  <2> HIDE DEF m, r
  <2>4. /\ PulseState(q) /\ q.next = 1
        /\ q.value = r.value /\ q.cur = r.value /\ q.state = r.state /\ q.max = r.max
        /\ q.pin = r.pin /\ (r.value[2] > 0 => q.compare = r.value[2])
    BY <2>1, <2>2 DEF PulseState, PulseFields
  <2> QED BY <1>1, <1>5, <2>4 DEF Started
<1>6. CASE ~first /\ ~second
  <2>1. q = setCompare(r, vvtMaxCount)
    BY <1>6 DEF startPeriod
  <2>2. /\ PulseState(q)
        /\ q.value = r.value /\ q.state = r.state /\ q.max = r.max /\ q.pin = r.pin
    BY <1>1, <1>3, <2>1, SetCompare
  <2>3. ~r.state[1] /\ ~r.state[2]
    BY <1>6
  <2> QED BY <1>1, <2>2, <2>3 DEF Started, Outs
<1> QED BY <1>4, <1>5, <1>6

LEMMA EndOne ==
  ASSUME NEW p, PulseState(p), NEW i \in Outs, NEW q, q = endOne(p, i)
  PROVE  PulseState(q) /\ q.value = p.value /\ EndedOne(p, q, i)
<1> USE DEF EndedOne
<1> DEFINE r == switchOff(p, i)
           j == 3 - i
<1>1. /\ PulseState(r) /\ r.value = p.value /\ r.cur = p.cur /\ Left(p, r, i) /\ Same(p, r, j)
      /\ j \in Outs \ {i} /\ r.state[j] = p.state[j]
  BY SwitchOff DEF Outs, Left, Same
<1>2. r.cur[i] \in 0..vvtMaxCount /\ r.cur[j] \in 0..vvtMaxCount /\ vvtMaxCount \in Int
  BY <1>1, VvtAssumption DEF PulseState, Duty
<1>3. CASE r.state[j]
  <2> DEFINE m == setCompare(r, r.cur[j] - r.cur[i])
  <2>1. q = [m EXCEPT !.next = j - 1]
    BY <1>3 DEF endOne
  <2>2. r.cur[j] - r.cur[i] \in Int
    BY <1>2
  <2> HIDE DEF r
  <2>3. /\ PulseState(m) /\ m.value = r.value /\ m.cur = r.cur
        /\ m.state = r.state /\ m.max = r.max /\ m.pin = r.pin
        /\ r.cur[j] - r.cur[i] \in 1..vvtMaxCount => m.compare = r.cur[j] - r.cur[i]
    <3> DEFINE n == r.cur[j] - r.cur[i]
               c == setCompare(r, n)
    <3>1. n \in Int
      BY <2>2
    <3> HIDE DEF n
    <3>2. /\ PulseState(c) /\ c.value = r.value /\ c.cur = r.cur
          /\ c.state = r.state /\ c.max = r.max /\ c.pin = r.pin
          /\ n \in 1..vvtMaxCount => c.compare = n
      BY <1>1, <3>1, SetCompare
    <3> QED BY <3>2 DEF n
  <2> HIDE DEF m
  <2>4. j - 1 \in 0..2 /\ j - 1 = 2 - i
    BY DEF Outs
  <2>5. /\ PulseState(q) /\ q.value = r.value /\ q.cur = r.cur /\ q.next = j - 1
        /\ q.state = r.state /\ q.max = r.max /\ q.pin = r.pin /\ q.compare = m.compare
    BY <2>1, <2>3, <2>4 DEF PulseState, PulseFields
  <2> QED BY <1>1, <1>3, <2>3, <2>4, <2>5 DEF Left, Same
<1>4. CASE ~r.state[j]
  <2> DEFINE m == setCompare(r, vvtMaxCount - r.cur[i])
  <2>1. q = [m EXCEPT !.next = 2]
    BY <1>4 DEF endOne
  <2>2. /\ vvtMaxCount - r.cur[i] \in Int
        /\ r.cur[i] < vvtMaxCount => vvtMaxCount - r.cur[i] \in 1..vvtMaxCount
    BY <1>2
  <2> HIDE DEF r
  <2>3. /\ PulseState(m) /\ m.value = r.value /\ m.cur = r.cur
        /\ m.state = r.state /\ m.max = r.max /\ m.pin = r.pin
        /\ r.cur[i] < vvtMaxCount => m.compare = vvtMaxCount - r.cur[i]
    <3> DEFINE n == vvtMaxCount - r.cur[i]
               c == setCompare(r, n)
    <3>1. n \in Int
      BY <2>2
    <3> HIDE DEF n
    <3>2. /\ PulseState(c) /\ c.value = r.value /\ c.cur = r.cur
          /\ c.state = r.state /\ c.max = r.max /\ c.pin = r.pin
          /\ n \in 1..vvtMaxCount => c.compare = n
      BY <1>1, <3>1, SetCompare
    <3> QED BY <2>2, <3>2 DEF n
  <2> HIDE DEF m
  <2>5. /\ PulseState(q) /\ q.value = r.value /\ q.cur = r.cur /\ q.next = 2
        /\ q.state = r.state /\ q.max = r.max /\ q.pin = r.pin /\ q.compare = m.compare
    BY <2>1, <2>3 DEF PulseState, PulseFields
  <2> QED BY <1>1, <1>4, <2>3, <2>5 DEF Left, Same
<1> QED BY <1>3, <1>4

LEMMA EndBoth ==
  ASSUME NEW p, PulseState(p), NEW q, q = endBoth(p)
  PROVE  PulseState(q) /\ q.value = p.value /\ EndedBoth(p, q)
<1> USE DEF EndedBoth
<1> DEFINE a == switchOff(p, 1)
           b == IF p.value[1] < vvtMaxCount THEN setCompare(a, vvtMaxCount - a.cur[1]) ELSE a
           c == switchOff(b, 2)
<1>1. /\ PulseState(a) /\ a.value = p.value /\ a.cur = p.cur /\ a.next = p.next
      /\ Left(p, a, 1) /\ Same(p, a, 2)
  BY SwitchOff DEF Outs, Left, Same
<1>2. vvtMaxCount - a.cur[1] \in Int
  BY <1>1, VvtAssumption DEF PulseState, Duty, Outs
<1>3. /\ PulseState(b) /\ b.value = a.value /\ b.cur = a.cur /\ b.next = a.next
      /\ b.state = a.state /\ b.max = a.max /\ b.pin = a.pin
  <2>1. CASE p.value[1] < vvtMaxCount
    <3> DEFINE n == vvtMaxCount - a.cur[1]
               m == setCompare(a, n)
    <3>1. b = m /\ n \in Int
      BY <1>2, <2>1
    <3> HIDE DEF a, n
    <3>2. /\ PulseState(m) /\ m.value = a.value /\ m.cur = a.cur /\ m.next = a.next
          /\ m.state = a.state /\ m.max = a.max /\ m.pin = a.pin
      BY <1>1, <3>1, SetCompare
    <3> QED BY <3>1, <3>2
  <2>2. CASE ~(p.value[1] < vvtMaxCount)
    BY <1>1, <2>2
  <2> QED BY <2>1, <2>2
<1> HIDE DEF a
<1>4. /\ PulseState(c) /\ c.value = p.value /\ c.cur = p.cur /\ c.next = p.next
      /\ Left(p, c, 1) /\ Left(p, c, 2)
  <2>1. 2 \in Outs /\ 1 \in Outs \ {2}
    BY DEF Outs
  <2> HIDE DEF b
  <2> QED BY <1>1, <1>3, <2>1, SwitchOff DEF Left, Same
<1> HIDE DEF b
<1>5. q = IF p.value[2] < vvtMaxCount THEN setCompare(c, vvtMaxCount - c.cur[2]) ELSE c
  BY DEF endBoth, a, b
<1> HIDE DEF c
<1>6. /\ vvtMaxCount - c.cur[2] \in Int
      /\ p.value[2] \in Mid /\ p.cur[2] = p.value[2] =>
           vvtMaxCount - c.cur[2] \in 1..vvtMaxCount /\ p.value[2] < vvtMaxCount
  BY <1>4, VvtAssumption DEF PulseState, Duty, Outs, Mid
<1>7. /\ PulseState(q) /\ q.value = c.value /\ q.cur = c.cur /\ q.next = c.next
      /\ q.state = c.state /\ q.max = c.max /\ q.pin = c.pin
      /\ p.value[2] \in Mid /\ p.cur[2] = p.value[2] => q.compare = vvtMaxCount - c.cur[2]
  <2>1. CASE p.value[2] < vvtMaxCount
    <3> DEFINE n == vvtMaxCount - c.cur[2]
               m == setCompare(c, n)
    <3>1. q = m /\ n \in Int
      BY <1>5, <1>6, <2>1
    <3>2. p.value[2] \in Mid /\ p.cur[2] = p.value[2] => n \in 1..vvtMaxCount
      BY <1>6
    <3> HIDE DEF n
    <3>3. /\ PulseState(m) /\ m.value = c.value /\ m.cur = c.cur /\ m.next = c.next
          /\ m.state = c.state /\ m.max = c.max /\ m.pin = c.pin
          /\ n \in 1..vvtMaxCount => m.compare = n
      BY <1>4, <3>1, SetCompare
    <3> QED BY <3>1, <3>2, <3>3 DEF n
  <2>2. CASE ~(p.value[2] < vvtMaxCount)
    BY <1>4, <1>5, <1>6, <2>2
  <2> QED BY <2>1, <2>2
<1> QED BY <1>4, <1>7 DEF Left, Outs

LEMMA Interrupt ==
  ASSUME NEW p, PulseState(p), FullOnly(p), NEW q, q = vvtInterrupt(p)
  PROVE  /\ PulseState(q) /\ FullOnly(q) /\ q.value = p.value
         /\ \/ Quiet(p) /\ Started(p, q)
            \/ ~Quiet(p) /\ p.next = 2 /\ EndedBoth(p, q)
            \/ ~Quiet(p) /\ \E i \in Outs : p.next = i - 1 /\ EndedOne(p, q, i)
<1> DEFINE r == [p EXCEPT !.compare = VvtModulus]
<1>1. /\ PulseState(r) /\ r.value = p.value /\ r.cur = p.cur /\ r.state = p.state
      /\ r.max = p.max /\ r.pin = p.pin /\ r.next = p.next
  BY VvtAssumption DEF PulseState, PulseFields
<1>2. Quiet(p) <=> noPulse(p, 1) /\ noPulse(p, 2)
  BY DEF Quiet, Outs
<1>3. p.next \in 0..2
  BY DEF PulseState
<1>4. CASE Quiet(p)
  <2>1. q = startPeriod(switchOn(r))
    BY <1>2, <1>4 DEF vvtInterrupt
  <2> HIDE DEF r
  <2>2. PulseState(q) /\ q.value = p.value /\ Started(r, q)
    BY <1>1, <2>1, StartPeriod
  <2> QED BY <1>1, <1>4, <2>2 DEF Started, FullOnly
<1>5. CASE ~Quiet(p) /\ p.next = 2
  <2>1. q = endBoth(r)
    BY <1>2, <1>5 DEF vvtInterrupt
  <2> HIDE DEF r
  <2>2. PulseState(q) /\ q.value = p.value /\ EndedBoth(r, q)
    BY <1>1, <2>1, EndBoth
  <2> QED BY <1>1, <1>5, <2>2 DEF EndedBoth, FullOnly, Left
<1>6. CASE ~Quiet(p) /\ p.next # 2
  <2>1. PICK i \in Outs : p.next = i - 1 /\ q = endOne(r, i)
    BY <1>2, <1>3, <1>6 DEF vvtInterrupt, Outs
  <2> HIDE DEF r
  <2>2. PulseState(q) /\ q.value = p.value /\ EndedOne(r, q, i)
    BY <1>1, <2>1, EndOne
  <2>3. EndedOne(p, q, i)
    BY <1>1, <2>2 DEF EndedOne, Left, Same
  <2>4. FullOnly(q)
    BY <2>2, <2>3 DEF EndedOne, FullOnly, Left, Same, Outs
  <2> QED BY <1>6, <2>1, <2>2, <2>3, <2>4
<1> QED BY <1>4, <1>5, <1>6

\* Before and after an interrupt.
Interrupted(p, q) ==
  /\ PulseState(p) /\ PulseState(q) /\ FullOnly(p) /\ FullOnly(q) /\ q.value = p.value
  /\ \/ Quiet(p) /\ Started(p, q)
     \/ ~Quiet(p) /\ p.next = 2 /\ EndedBoth(p, q)
     \/ ~Quiet(p) /\ \E i \in Outs : p.next = i - 1 /\ EndedOne(p, q, i)

\* A channel that is left with no pulse has ended.
LEMMA LeftIsEnded ==
  ASSUME NEW p, NEW q, PulseState(p), PulseState(q), q.value = p.value, NEW i \in Outs, Left(p, q, i)
  PROVE  Ended(q, i)
BY VvtAssumption DEF Left, Ended, PulseState, Duty, Mid

LEMMA SameEnded ==
  ASSUME NEW p, NEW q, q.value = p.value, NEW i \in Outs, Same(p, q, i)
  PROVE  (Ended(p, i) => Ended(q, i)) /\ (Live(p, i) => Live(q, i))
BY DEF Same, Ended, Live

\* A channel without a pulse has one after a start, unless its duty wants none.
LEMMA StartedIsUnderWay ==
  ASSUME NEW p, NEW q, Interrupted(p, q), Quiet(p), Started(p, q)
  PROVE  UnderWay(q)
<1> SUFFICES ASSUME NEW i \in Outs PROVE Ended(q, i) \/ Live(q, i)
  BY DEF UnderWay
<1>1. /\ p.value[i] \in Nat /\ p.value[i] <= vvtMaxCount /\ vvtMaxCount \in Nat
      /\ p.state[i] \in BOOLEAN /\ p.max[i] \in BOOLEAN /\ p.pin[i] \in BOOLEAN
  BY VvtAssumption DEF Interrupted, PulseState, Duty
<1>2. /\ ~p.state[i] \/ p.max[i]
      /\ p.value[i] < vvtMaxCount => ~p.max[i]
  BY DEF Quiet, noPulse, Interrupted, FullOnly
<1>3. /\ q.value[i] = p.value[i] /\ q.max[i] = p.max[i]
      /\ q.state[i] = (p.state[i] \/ (p.value[i] > 0 /\ ~p.max[i]))
  BY DEF Interrupted, Started
<1>4. CASE p.value[i] > 0 /\ ~p.max[i]
  BY <1>3, <1>4 DEF Live
<1>5. CASE p.value[i] = 0
  BY <1>1, <1>2, <1>3, <1>5, VvtAssumption DEF Ended, Mid
<1>6. CASE p.max[i]
  BY <1>1, <1>2, <1>3, <1>6 DEF Ended, Mid
<1> QED BY <1>1, <1>4, <1>5, <1>6

LEMMA FirstStages ==
  ASSUME NEW p, NEW q, Interrupted(p, q)
  PROVE  /\ Quiet(q) \/ UnderWay(q)
         /\ Quiet(p) \/ UnderWay(p) => UnderWay(q)
         /\ UnderWay(p) /\ ~Quiet(p) => Ending(q)
         /\ Ending(p) /\ ~Quiet(p) => AllEnded(q)
<1>0. \A i \in Outs : 3 - i \in Outs /\ 3 - (3 - i) = i /\ \A j \in Outs : j = i \/ j = 3 - i
  BY DEF Outs
<1>1. CASE Quiet(p) /\ Started(p, q)
  BY <1>1, StartedIsUnderWay
<1>2. CASE ~Quiet(p) /\ p.next = 2 /\ EndedBoth(p, q)
  <2>1. AllEnded(q)
    BY <1>2, LeftIsEnded DEF AllEnded, EndedBoth, Interrupted
  <2>2. UnderWay(q) /\ Ending(q)
    BY <1>0, <2>1 DEF AllEnded, UnderWay, Ending, Outs
  <2> QED BY <1>2, <2>1, <2>2
<1>3. CASE ~Quiet(p) /\ \E i \in Outs : p.next = i - 1 /\ EndedOne(p, q, i)
  <2>1. PICK i \in Outs : p.next = i - 1 /\ EndedOne(p, q, i)
    BY <1>3
  <2> DEFINE j == 3 - i
  <2>2. Ended(q, i) /\ j \in Outs
    BY <1>0, <2>1, LeftIsEnded DEF EndedOne, Interrupted
  <2>3. /\ q.state[j] = p.state[j] /\ q.max[j] = p.max[j] /\ q.next = IF p.state[j] THEN 2 - i ELSE 2
        /\ p.state[j] \in BOOLEAN /\ p.max[j] \in BOOLEAN
    BY <2>1, <2>2 DEF EndedOne, Same, Interrupted, PulseState
  <2>4. (Ended(p, j) => Ended(q, j)) /\ (Live(p, j) => Live(q, j))
    BY <2>1, <2>2, SameEnded DEF EndedOne, Interrupted
  <2>5. q.next = 2 - i \/ ~Live(q, j)
    BY <2>3 DEF Live
  <2>6. noPulse(q, i)
    <3>1. Left(p, q, i) /\ p.value[i] \in Duty
      BY <2>1 DEF EndedOne, Interrupted, PulseState
    <3> QED BY <3>1, VvtAssumption DEF noPulse, Left, Duty
  <2>7. Quiet(q) \/ UnderWay(q)
    BY <1>0, <2>2, <2>3, <2>6 DEF Quiet, UnderWay, noPulse, Live
  <2>8. UnderWay(p) => UnderWay(q) /\ Ending(q)
    BY <1>0, <2>2, <2>4, <2>5 DEF UnderWay, Ending
  <2>9. Ending(p) => AllEnded(q)
    <3> SUFFICES ASSUME Ending(p) PROVE Ended(q, j)
      BY <1>0, <2>2 DEF AllEnded
    <3>1. PICK k \in Outs : Ended(p, k) /\ (Ended(p, 3 - k) \/ (Live(p, 3 - k) /\ p.next = 2 - k))
      BY DEF Ending
    <3>2. CASE k = j
      BY <2>4, <3>1, <3>2
    <3>3. CASE k = i
      <4>1. p.next # 2 - i
        BY <2>1 DEF Outs
      <4> QED BY <2>4, <3>1, <3>3, <4>1
    <3> QED BY <1>0, <3>2, <3>3
  <2> QED BY <1>3, <2>7, <2>8, <2>9
<1> QED BY <1>1, <1>2, <1>3 DEF Interrupted

\* The levels of the pins at the next tick.
Lasted(p, q, level, after) ==
  \A i \in Outs :
    /\ level[i] \in Nat /\ after[i] \in Nat /\ after[i] <= level[i] + 1
    /\ p.pin[i] # q.pin[i] => after[i] = 1

\* Where a period starts with every channel ended, it is regular.
LEMMA RegularStart ==
  ASSUME NEW p, NEW q, NEW level, NEW after, Interrupted(p, q), Lasted(p, q, level, after),
         Quiet(p), Started(p, q), AllEnded(p)
  PROVE  Regular(q, after)
<1> DEFINE Value(i) == p.value[i] \in Nat /\ p.value[i] <= vvtMaxCount
<1>1. /\ vvtMaxCount \in Nat /\ vvtMaxCount >= 2
      /\ \A i \in Outs : /\ p.value[i] \in Nat /\ p.value[i] <= vvtMaxCount
                         /\ q.state[i] \in BOOLEAN /\ q.max[i] \in BOOLEAN /\ q.pin[i] \in BOOLEAN
                         /\ q.value[i] = p.value[i]
  BY VvtAssumption DEF Interrupted, PulseState, Duty
<1>2. \A i \in Outs :
        /\ p.value[i] = 0 => ~q.state[i]
        /\ p.value[i] = vvtMaxCount => q.max[i]
        /\ p.value[i] < vvtMaxCount => ~q.max[i]
        /\ p.value[i] \in Mid => q.state[i] /\ q.pin[i] /\ after[i] = 1
        /\ q.state[i] => p.value[i] > 0
  <2> TAKE i \in Outs
  <2>1. /\ q.max[i] = p.max[i] /\ q.state[i] = (p.state[i] \/ (p.value[i] > 0 /\ ~p.max[i]))
        /\ q.pin[i] = (p.pin[i] \/ (p.value[i] > 0 /\ ~p.max[i]))
    BY DEF Started
  <2>2. Ended(p, i) /\ (p.value[i] < vvtMaxCount => ~p.max[i])
    BY DEF AllEnded, Interrupted, FullOnly
  <2>3. p.pin[i] # q.pin[i] => after[i] = 1
    BY DEF Lasted
  <2>4. /\ p.state[i] \in BOOLEAN /\ p.max[i] \in BOOLEAN /\ p.pin[i] \in BOOLEAN
    BY DEF Interrupted, PulseState
  <2> QED BY <1>1, <2>1, <2>2, <2>3, <2>4 DEF Ended, Mid
<1>3. \A i \in Outs : Live(q, i) <=> p.value[i] \in Mid
  BY <1>1, <1>2 DEF Live, Mid
<1>4. Quiet(q) <=> p.value[1] \notin Mid /\ p.value[2] \notin Mid
  BY <1>3 DEF Quiet, noPulse, Live, Outs
<1>5. CASE Quiet(q)
  BY <1>1, <1>2, <1>4, <1>5 DEF Regular, Outs
<1>6. CASE ~Quiet(q)
  <2>1. q.cur = q.value /\ (q.state[1] \/ q.state[2])
    BY <1>1, <1>2, <1>4, <1>6 DEF Started, Outs
  <2>2. CASE /\ q.state[1] /\ (q.value[1] <= q.value[2] \/ ~q.state[2])
             /\ (q.value[1] > 0 => q.compare = q.value[1])
             /\ q.next = IF q.value[1] = q.value[2] THEN 2 ELSE 0
    <3>1. q.value[1] \in Mid /\ q.compare = q.value[1] /\ Live(q, 1)
      BY <1>1, <1>2, <1>3, <1>4, <1>6, <2>2 DEF Outs, Mid
    <3>2. NextEdge(q) = q.value[1] /\ (p.value[2] \in Mid => NextEdge(q) <= q.value[2])
      BY <1>1, <1>2, <1>6, <2>2 DEF NextEdge, Outs
    <3>3. q.next = 2 => q.value[1] = q.value[2] /\ Live(q, 2)
      BY <1>1, <1>3, <2>2, <3>1 DEF Outs
    <3>4. \A i \in Outs : p.value[i] \in Mid =>
            NextEdge(q) <= q.value[i] /\ after[i] + q.compare <= NextEdge(q) + 1
      BY <1>1, <1>2, <3>1, <3>2 DEF Outs, Mid
    <3>5. /\ q.next = 0 => q.value[1] # q.value[2]
          /\ q.next \in {0, 2}
      BY <2>2
    <3> QED BY <1>1, <1>2, <2>1, <3>1, <3>3, <3>4, <3>5 DEF Regular
  <2>3. CASE /\ q.state[2] /\ ~(q.state[1] /\ q.value[1] <= q.value[2])
             /\ (q.value[2] > 0 => q.compare = q.value[2])
             /\ q.next = 1
    <3>1. q.value[2] \in Mid /\ q.compare = q.value[2] /\ Live(q, 2)
      BY <1>1, <1>2, <1>3, <1>4, <1>6, <2>3 DEF Outs, Mid
    <3>2. NextEdge(q) = q.value[2] /\ (p.value[1] \in Mid => NextEdge(q) < q.value[1])
      BY <1>1, <1>2, <1>6, <2>3 DEF NextEdge, Outs
    <3>3. Live(q, 1) => q.value[1] # q.value[2]
      BY <1>1, <1>3, <3>1, <3>2 DEF Outs, Mid
    <3>4. \A i \in Outs : p.value[i] \in Mid =>
            NextEdge(q) <= q.value[i] /\ after[i] + q.compare <= NextEdge(q) + 1
      BY <1>1, <1>2, <3>1, <3>2 DEF Outs, Mid
    <3> QED BY <1>1, <1>2, <2>1, <2>3, <3>1, <3>3, <3>4 DEF Regular
  <2> QED BY <2>1, <2>2, <2>3 DEF Started, Outs
<1> QED BY <1>5, <1>6

\* What is regular, with the match due, has its edges where they belong.
LEMMA RegularEnd ==
  ASSUME NEW p, NEW q, NEW level, NEW after, Interrupted(p, q), Lasted(p, q, level, after),
         ~Quiet(p), Regular(p, level), p.compare = 1
  PROVE  Regular(q, after)
<1>1. /\ vvtMaxCount \in Nat /\ vvtMaxCount >= 2
      /\ \A i \in Outs :
           /\ p.value[i] \in Nat /\ p.value[i] <= vvtMaxCount /\ q.value[i] = p.value[i]
           /\ p.state[i] \in BOOLEAN /\ p.max[i] \in BOOLEAN /\ p.pin[i] \in BOOLEAN
           /\ q.state[i] \in BOOLEAN /\ q.max[i] \in BOOLEAN /\ q.pin[i] \in BOOLEAN
           /\ level[i] \in Nat /\ after[i] \in Nat /\ after[i] <= level[i] + 1
           /\ p.pin[i] # q.pin[i] => after[i] = 1
  BY VvtAssumption DEF Interrupted, PulseState, Duty, Lasted
<1>2. \A i \in Outs :
        /\ p.cur[i] = p.value[i]
        /\ p.value[i] = 0 => ~p.state[i]
        /\ p.value[i] = vvtMaxCount => p.max[i]
        /\ p.value[i] < vvtMaxCount => ~p.max[i]
        /\ Live(p, i) <=> p.value[i] \in Mid /\ p.state[i]
  BY <1>1 DEF Regular, Interrupted, FullOnly, Live, Mid
<1>3. (p.next = 2 /\ EndedBoth(p, q)) \/ \E i \in Outs : p.next = i - 1 /\ EndedOne(p, q, i)
  BY DEF Interrupted
<1>4. CASE p.next = 2 /\ EndedBoth(p, q)
  <2>1. /\ Live(p, 1) /\ Live(p, 2) /\ p.value[1] = p.value[2] /\ NextEdge(p) = p.value[1]
    BY <1>4 DEF Regular, NextEdge
  <2>2. \A i \in Outs : ~q.state[i] /\ ~q.pin[i] /\ p.pin[i] /\ p.value[i] \in Mid
    BY <1>1, <1>2, <1>4, <2>1 DEF EndedBoth, Left, Outs, Mid, Regular
  <2>3. Quiet(q) /\ NextEdge(q) = vvtMaxCount /\ q.compare = vvtMaxCount - p.value[2]
    BY <1>2, <1>4, <2>2 DEF Quiet, noPulse, NextEdge, EndedBoth, Outs
  <2>4. \A i \in Outs : after[i] = 1 /\ q.value[i] \in Mid /\ q.value[i] = p.value[2]
    BY <1>1, <2>1, <2>2 DEF Outs
  <2>5. \A i \in Outs : after[i] + q.compare <= NextEdge(q) - q.value[i] + 1
    BY <1>1, <2>3, <2>4 DEF Outs
  <2> QED BY <1>1, <2>2, <2>3, <2>4, <2>5 DEF Regular, Mid
<1>5. ASSUME NEW i \in Outs, p.next = i - 1, EndedOne(p, q, i) PROVE Regular(q, after)
  <2> DEFINE j == 3 - i
  <2>1. j \in Outs /\ i # j /\ Outs = {i, j} /\ (p.next = 0 => i = 1) /\ (p.next = 1 => i = 2) /\ p.next \in {0, 1}
    BY <1>5 DEF Outs
  <2>2. /\ Live(p, i) /\ (Live(p, j) => p.value[i] # p.value[j]) /\ NextEdge(p) = p.value[i]
    BY <1>5, <2>1 DEF Regular, NextEdge
  <2>3. /\ p.value[i] \in Mid /\ p.pin[i] /\ ~q.state[i] /\ ~q.max[i] /\ ~q.pin[i] /\ after[i] = 1
    BY <1>1, <1>2, <1>5, <2>2 DEF EndedOne, Left, Mid, Regular
  <2>4. /\ q.state[j] = p.state[j] /\ q.max[j] = p.max[j] /\ q.pin[j] = p.pin[j]
        /\ \A k \in Outs : q.cur[k] = p.value[k]
    BY <1>2, <1>5 DEF EndedOne, Same
  <2>5. CASE Live(p, j)
    <3>1. p.value[j] \in Mid /\ p.value[i] < p.value[j] /\ p.pin[j] /\ level[j] <= p.value[i]
      BY <1>1, <1>2, <2>1, <2>2, <2>5 DEF Regular, Mid
    <3>2. q.next = 2 - i /\ q.compare = p.value[j] - p.value[i]
      BY <1>1, <1>2, <1>5, <2>1, <2>5, <3>1 DEF EndedOne, Live, Mid
    <3>3. Live(q, j) /\ ~Live(q, i) /\ ~Quiet(q) /\ NextEdge(q) = q.value[j]
      <4>1. Live(q, j) /\ ~Live(q, i) /\ ~Quiet(q)
        BY <2>1, <2>3, <2>4, <2>5 DEF Live, Quiet, noPulse
      <4>2. (q.next = 1 /\ j = 2) \/ (q.next = 0 /\ j = 1)
        BY <2>1, <3>2
      <4> QED BY <4>1, <4>2 DEF NextEdge
    <3>4. after[j] + q.compare <= NextEdge(q) + 1 /\ after[i] + q.compare <= NextEdge(q) - q.value[i] + 1
      BY <1>1, <2>1, <2>3, <3>1, <3>2, <3>3 DEF Mid
    <3>5. /\ q.next = 0 => j = 1 /\ i = 2
          /\ q.next = 1 => j = 2 /\ i = 1
          /\ q.next # 2
      BY <2>1, <3>2 DEF Outs
    <3>6. \A k \in Outs :
            /\ q.value[k] \in Mid /\ q.pin[k] = q.state[k]
            /\ q.state[k] => NextEdge(q) <= q.value[k] /\ after[k] + q.compare <= NextEdge(q) + 1
            /\ ~q.state[k] => after[k] + q.compare <= NextEdge(q) - q.value[k] + 1
      <4>1. p.value[j] \in Mid /\ q.state[j] /\ q.pin[j] /\ NextEdge(q) <= q.value[j]
        BY <1>1, <1>2, <2>1, <2>4, <2>5, <3>1, <3>3
      <4>2. q.value[i] \in Mid /\ ~q.state[i] /\ ~q.pin[i]
        BY <1>1, <2>3
      <4> QED BY <1>1, <2>1, <3>4, <4>1, <4>2
    <3> QED BY <1>1, <2>1, <2>4, <3>3, <3>5, <3>6 DEF Regular, Mid
  <2>6. CASE ~Live(p, j)
    <3>1. q.compare = vvtMaxCount - p.value[i]
      <4>1. CASE p.state[j]
        <5>1. p.value[j] = vvtMaxCount
          BY <1>1, <1>2, <2>1, <2>6, <4>1 DEF Mid
        <5> QED BY <1>1, <1>2, <1>5, <2>1, <2>3, <4>1, <5>1 DEF EndedOne, Mid
      <4>2. CASE ~p.state[j]
        BY <1>1, <1>2, <1>5, <2>1, <2>3, <4>2 DEF EndedOne, Mid
      <4> QED BY <4>1, <4>2
    <3>2. Quiet(q) /\ NextEdge(q) = vvtMaxCount
      BY <1>1, <2>1, <2>3, <2>4, <2>6 DEF Live, Quiet, noPulse, NextEdge
    <3>3. p.value[j] \in Mid => ~p.state[j] /\ ~p.pin[j] /\ level[j] <= p.value[i] - p.value[j]
      BY <1>1, <1>2, <2>1, <2>2, <2>6 DEF Regular, Mid
    <3>4. /\ after[i] + q.compare <= NextEdge(q) - q.value[i] + 1
          /\ p.value[j] \in Mid => after[j] + q.compare <= NextEdge(q) - q.value[j] + 1
      BY <1>1, <2>1, <2>3, <3>1, <3>2, <3>3 DEF Mid
    <3>6. \A k \in Outs :
            /\ q.value[k] = 0 => ~q.state[k]
            /\ q.value[k] = vvtMaxCount => q.max[k]
            /\ q.value[k] \in Mid => /\ ~q.state[k] /\ ~q.pin[k]
                                     /\ after[k] + q.compare <= NextEdge(q) - q.value[k] + 1
      BY <1>1, <1>2, <2>1, <2>3, <2>4, <3>3, <3>4 DEF Mid
    <3> QED BY <1>1, <3>2, <3>6 DEF Regular
  <2> QED BY <2>5, <2>6
<1> QED BY <1>3, <1>4, <1>5

\* Regular pulses stay so, and what is regular has no channel to be started anew.
LEMMA RegularIsUnderWay ==
  ASSUME NEW p, PulseState(p), FullOnly(p), NEW level, Regular(p, level)
  PROVE  UnderWay(p) /\ (Quiet(p) => AllEnded(p))
<1> SUFFICES ASSUME NEW i \in Outs
             PROVE  (Ended(p, i) \/ Live(p, i)) /\ (Quiet(p) => Ended(p, i))
  BY DEF UnderWay, AllEnded
<1>1. /\ vvtMaxCount \in Nat /\ p.value[i] \in Nat /\ p.value[i] <= vvtMaxCount
      /\ p.state[i] \in BOOLEAN /\ p.max[i] \in BOOLEAN /\ p.pin[i] \in BOOLEAN
      /\ p.value[i] < vvtMaxCount => ~p.max[i]
  BY VvtAssumption DEF PulseState, Duty, FullOnly
<1>2. Quiet(p) => ~p.state[i] \/ p.max[i]
  BY DEF Quiet, noPulse
<1> QED BY <1>1, <1>2 DEF Regular, Ended, Live, Mid

LEMMA StagesNext ==
  ASSUME NEW p, NEW q, NEW h, NEW g, Interrupted(p, q), Lasted(p, q, h.level, g.level), Stages(p, h),
         p.compare = 1, h.settled \in 0..Settled,
         g.settled = IF h.settled < Settled THEN h.settled + 1 ELSE h.settled
  PROVE  Stages(q, g)
<1> DEFINE k == h.settled
<1>1. Regular(p, h.level) => Regular(q, g.level) /\ UnderWay(p)
  <2> SUFFICES ASSUME Regular(p, h.level) PROVE Regular(q, g.level) /\ UnderWay(p)
    OBVIOUS
  <2>1. UnderWay(p) /\ (Quiet(p) => AllEnded(p))
    BY RegularIsUnderWay DEF Interrupted
  <2>2. CASE Quiet(p)
    BY <2>1, <2>2, RegularStart DEF Interrupted
  <2>3. CASE ~Quiet(p)
    BY <2>1, <2>3, RegularEnd
  <2> QED BY <2>2, <2>3
<1>2. AllEnded(p) => Regular(q, g.level)
  <2> SUFFICES ASSUME AllEnded(p) PROVE Quiet(p)
    BY RegularStart DEF Interrupted
  <2> SUFFICES ASSUME NEW i \in Outs PROVE ~p.state[i] \/ p.max[i]
    BY DEF Quiet, noPulse
  <2>1. p.value[i] \in Nat /\ p.value[i] <= vvtMaxCount /\ vvtMaxCount \in Nat
    BY VvtAssumption DEF Interrupted, PulseState, Duty
  <2> QED BY <2>1 DEF AllEnded, Ended
<1>3. Quiet(p) /\ UnderWay(p) => AllEnded(p)
  BY DEF Quiet, UnderWay, AllEnded, noPulse, Live
<1>4. Ending(p) => UnderWay(p)
  <2> SUFFICES ASSUME Ending(p) PROVE UnderWay(p)
    OBVIOUS
  <2>1. PICK i \in Outs : Ended(p, i) /\ (Ended(p, 3 - i) \/ (Live(p, 3 - i) /\ p.next = 2 - i))
    BY DEF Ending
  <2>2. \A j \in Outs : j = i \/ j = 3 - i
    BY DEF Outs
  <2> QED BY <2>1, <2>2 DEF UnderWay
<1>5. /\ UnderWay(p) => Ending(q) \/ Regular(q, g.level)
      /\ Ending(p) => AllEnded(q) \/ Regular(q, g.level)
  BY <1>2, <1>3, <1>4, FirstStages
<1>6. /\ Quiet(q) \/ UnderWay(q)
      /\ Quiet(p) \/ UnderWay(p) => UnderWay(q)
  BY FirstStages
<1>7. AllEnded(p) => UnderWay(p)
  BY DEF AllEnded, UnderWay
<1> QED BY <1>1, <1>2, <1>4, <1>5, <1>6, <1>7 DEF Stages, Settled

\* The main loop may come at any time.  With the duties unchanged, it settles
\* channels that are off or always on, and leaves the others alone.
Tidied(p, q) ==
  /\ q.cur = p.cur /\ q.next = p.next /\ q.compare = p.compare
  /\ \A i \in Outs : \/ Same(p, q, i)
                     \/ q.value[i] = 0 /\ ~q.state[i] /\ ~q.max[i]
                     \/ q.value[i] = vvtMaxCount /\ q.state[i] /\ q.max[i]

LEMMA KeptStages ==
  ASSUME NEW p, NEW q, NEW h, PulseState(p), PulseState(q), FullOnly(p), FullOnly(q),
         q.value = p.value, Tidied(p, q), Stages(p, h)
  PROVE  Stages(q, h)
<1>1. /\ vvtMaxCount \in Nat /\ vvtMaxCount >= 2
      /\ \A i \in Outs :
           /\ p.value[i] \in Nat /\ p.value[i] <= vvtMaxCount /\ q.value[i] = p.value[i]
           /\ p.state[i] \in BOOLEAN /\ p.max[i] \in BOOLEAN /\ p.pin[i] \in BOOLEAN
           /\ q.state[i] \in BOOLEAN /\ q.max[i] \in BOOLEAN /\ q.pin[i] \in BOOLEAN
           /\ p.value[i] < vvtMaxCount => ~p.max[i] /\ ~q.max[i]
  BY VvtAssumption DEF PulseState, Duty, FullOnly
<1>2. /\ q.cur = p.cur /\ q.next = p.next /\ q.compare = p.compare
      /\ \A i \in Outs : \/ Same(p, q, i)
                         \/ p.value[i] = 0 /\ ~q.state[i] /\ ~q.max[i]
                         \/ p.value[i] = vvtMaxCount /\ q.state[i] /\ q.max[i]
  BY <1>1 DEF Tidied
<1>3. \A i \in Outs : /\ Ended(p, i) => Ended(q, i)
                      /\ Live(p, i) => Live(q, i) \/ Ended(q, i)
                      /\ noPulse(p, i) => noPulse(q, i)
  <2> TAKE i \in Outs
  <2>1. CASE Same(p, q, i)
    BY <1>1, <2>1 DEF Same, Ended, Live, noPulse
  <2>2. CASE ~Same(p, q, i)
    BY <1>1, <1>2, <2>2 DEF Ended, Live, noPulse, Mid
  <2> QED BY <2>1, <2>2
<1>4. /\ Quiet(p) => Quiet(q)
      /\ UnderWay(p) => UnderWay(q)
      /\ AllEnded(p) => AllEnded(q)
  BY <1>3 DEF Quiet, UnderWay, AllEnded
<1>5. Ending(p) => Ending(q)
  <2> SUFFICES ASSUME Ending(p) PROVE Ending(q)
    OBVIOUS
  <2>1. PICK i \in Outs : Ended(p, i) /\ (Ended(p, 3 - i) \/ (Live(p, 3 - i) /\ p.next = 2 - i))
    BY DEF Ending
  <2>2. 3 - i \in Outs
    BY DEF Outs
  <2>3. Ended(q, i) /\ (Ended(q, 3 - i) \/ (Live(q, 3 - i) /\ q.next = 2 - i))
    BY <1>2, <1>3, <2>1, <2>2
  <2> QED BY <2>3 DEF Ending
<1>6. Regular(p, h.level) => Regular(q, h.level)
  <2> SUFFICES ASSUME Regular(p, h.level) PROVE Regular(q, h.level)
    OBVIOUS
  <2>1. \A i \in Outs : /\ q.value[i] = 0 => ~q.state[i]
                        /\ q.value[i] = vvtMaxCount => q.max[i]
                        /\ q.value[i] \in Mid => q.state[i] = p.state[i] /\ q.pin[i] = p.pin[i]
    <3> TAKE i \in Outs
    <3>1. (p.value[i] = 0 => ~p.state[i]) /\ (p.value[i] = vvtMaxCount => p.max[i])
      BY DEF Regular
    <3> QED BY <1>1, <1>2, <3>1 DEF Same, Mid
  <2>2. \A i \in Outs : /\ Live(p, i) <=> p.value[i] \in Mid /\ p.state[i]
                        /\ Live(q, i) <=> Live(p, i)
    <3> TAKE i \in Outs
    <3>1. (p.value[i] = 0 => ~p.state[i]) /\ (p.value[i] = vvtMaxCount => p.max[i])
      BY DEF Regular
    <3>2. Live(p, i) <=> p.value[i] \in Mid /\ p.state[i]
      BY <1>1, <3>1 DEF Live, Mid
    <3>3. Live(q, i) <=> q.value[i] \in Mid /\ q.state[i]
      BY <1>1, <2>1 DEF Live, Mid
    <3> QED BY <1>1, <2>1, <3>2, <3>3
  <2>3. Quiet(q) <=> Quiet(p)
    BY <2>2 DEF Quiet, noPulse, Live
  <2>4. NextEdge(q) = NextEdge(p)
    BY <1>1, <1>2, <2>3 DEF NextEdge, Outs
  <2>5. \A i \in Outs : q.value[i] \in Mid =>
          /\ q.pin[i] = q.state[i]
          /\ q.state[i] => /\ NextEdge(q) <= q.value[i]
                           /\ h.level[i] + q.compare <= NextEdge(q) + 1
          /\ ~q.state[i] => h.level[i] + q.compare <= NextEdge(q) - q.value[i] + 1
    BY <1>1, <1>2, <2>1, <2>4 DEF Regular
  <2>6. ~Quiet(q) =>
          /\ \A i \in Outs : q.cur[i] = q.value[i]
          /\ q.next = 0 => Live(q, 1) /\ (Live(q, 2) => q.value[1] # q.value[2])
          /\ q.next = 1 => Live(q, 2) /\ (Live(q, 1) => q.value[1] # q.value[2])
          /\ q.next = 2 => Live(q, 1) /\ Live(q, 2) /\ q.value[1] = q.value[2]
    <3>1. 1 \in Outs /\ 2 \in Outs
      BY DEF Outs
    <3> QED BY <1>1, <1>2, <2>2, <2>3, <3>1 DEF Regular
  <2> QED BY <2>1, <2>5, <2>6 DEF Regular
<1> QED BY <1>4, <1>5, <1>6 DEF Stages

\* A tick that is no interrupt brings the match nearer.
LEMMA TickStages ==
  ASSUME NEW p, NEW q, NEW h, NEW g, PulseState(p), PulseState(q), Lasted(p, q, h.level, g.level),
         q.value = p.value, q.cur = p.cur, q.state = p.state, q.max = p.max, q.pin = p.pin,
         q.next = p.next, q.compare = p.compare - 1, g.settled = h.settled, Stages(p, h)
  PROVE  Stages(q, g)
<1>1. \A i \in Outs : /\ Ended(p, i) <=> Ended(q, i)
                      /\ Live(p, i) <=> Live(q, i)
                      /\ noPulse(p, i) <=> noPulse(q, i)
  BY DEF Ended, Live, noPulse
<1>2. /\ Quiet(p) <=> Quiet(q)
      /\ UnderWay(p) => UnderWay(q)
      /\ AllEnded(p) => AllEnded(q)
  BY <1>1 DEF Quiet, UnderWay, AllEnded
<1>3. Ending(p) => Ending(q)
  BY DEF Ending, Ended, Live
<1>4. Regular(p, h.level) => Regular(q, g.level)
  <2> SUFFICES ASSUME Regular(p, h.level) PROVE Regular(q, g.level)
    OBVIOUS
  <2>1. NextEdge(q) = NextEdge(p) /\ NextEdge(p) \in Nat /\ p.compare \in Nat
    BY <1>2, VvtAssumption DEF NextEdge, PulseState, Duty, Outs
  <2>2. \A i \in Outs : /\ h.level[i] \in Nat /\ g.level[i] \in Nat /\ g.level[i] <= h.level[i] + 1
                        /\ p.value[i] \in Nat
    BY VvtAssumption DEF Lasted, PulseState, Duty
  <2>3. \A i \in Outs : q.value[i] \in Mid =>
          /\ q.pin[i] = q.state[i]
          /\ q.state[i] => /\ NextEdge(q) <= q.value[i]
                           /\ g.level[i] + q.compare <= NextEdge(q) + 1
          /\ ~q.state[i] => g.level[i] + q.compare <= NextEdge(q) - q.value[i] + 1
    BY <2>1, <2>2 DEF Regular
  <2>4. Live(p, 1) = Live(q, 1) /\ Live(p, 2) = Live(q, 2)
    BY DEF Live
  <2> QED BY <1>2, <2>3, <2>4 DEF Regular
<1> QED BY <1>2, <1>3, <1>4 DEF Stages

VvtFields == {"duty", "timer", "timeHold", "warm", "wmiOn", "hot"}

VvtState(v) ==
  /\ DOMAIN v = VvtFields /\ v.timer \in BOOLEAN
  /\ DOMAIN v.duty = Outs /\ \A i \in Outs : v.duty[i] \in Duty
  /\ ~vvtConfig.vvt2Enabled => v.duty[2] = 0

VvtInv ==
  /\ vvtConfig \in VvtConfigs
  /\ ~(vvtConfig.vvtEnabled /\ vvtConfig.vvt2Enabled /\ vvtConfig.wmiEnabled)
  /\ VvtState(vvt)
  /\ PulseState(pulse) /\ FullOnly(pulse)
  /\ DOMAIN held = {"level", "settled"} /\ DOMAIN held.level = Outs
  /\ \A i \in Outs : held.level[i] \in Nat
  /\ held.settled \in 0..Settled
  /\ vvt.timer => Stages(pulse, held)

LEMMA UpdatedPreserves ==
  ASSUME VvtInv, NEW v, NEW q, Updated(v, q), VvtState(v), PulseState(q), FullOnly(q),
         q.value = pulse.value /\ v.timer /\ vvt.timer => Tidied(pulse, q)
  PROVE  VvtInv'
<1> USE DEF VvtInv
<1>1. vvt' = v /\ pulse' = q /\ UNCHANGED vvtConfig
  BY DEF Updated
<1>2. /\ held'.level = held.level /\ DOMAIN held' = {"level", "settled"}
      /\ held'.settled = IF q.value = pulse.value /\ v.timer = vvt.timer THEN held.settled ELSE 0
  BY DEF Updated
<1>3. v.timer => Stages(q, held')
  <2> SUFFICES ASSUME v.timer PROVE Stages(q, held')
    OBVIOUS
  <2>1. CASE q.value = pulse.value /\ v.timer = vvt.timer
    <3>1. Stages(q, held)
      BY <2>1, KeptStages
    <3> QED BY <1>2, <2>1, <3>1 DEF Stages
  <2>2. CASE ~(q.value = pulse.value /\ v.timer = vvt.timer)
    <3>1. held'.settled = 0
      BY <1>2, <2>2, Zenon
    <3> QED BY <3>1 DEF Stages
  <2> QED BY <2>1, <2>2
<1>4. VvtState(vvt)' /\ PulseState(pulse)' /\ FullOnly(pulse)'
  BY <1>1 DEF VvtState, PulseState, FullOnly
<1>5. held'.settled \in 0..Settled
  BY <1>2 DEF Settled
<1>6. (vvt.timer => Stages(pulse, held))'
  <2>1. Stages(q, held') => Stages(pulse, held)'
    BY <1>1 DEF Stages, Quiet, UnderWay, Ending, AllEnded, Regular, Ended, Live, noPulse, NextEdge
  <2> QED BY <1>1, <1>3, <2>1
<1> QED BY <1>1, <1>2, <1>4, <1>5, <1>6

LEMMA TickPreserves ==
  ASSUME VvtInv, VvtTick
  PROVE  VvtInv'
<1> USE DEF VvtInv
<1>1. /\ vvt.timer /\ UNCHANGED <<vvtConfig, vvt>>
      /\ Watch(pulse, pulse', pulse.compare = 1)
      /\ pulse' = IF pulse.compare > 1 THEN [pulse EXCEPT !.compare = @ - 1] ELSE vvtInterrupt(pulse)
  BY DEF VvtTick
<1>2. pulse.compare \in Nat \ {0} /\ vvtMaxCount \in Nat
  BY VvtAssumption DEF PulseState
<1> DEFINE level == [i \in Outs |-> IF pulse.pin[i] # pulse'.pin[i] THEN 1
                                    ELSE IF held.level[i] > vvtMaxCount THEN held.level[i]
                                    ELSE held.level[i] + 1]
<1>3. /\ held'.level = level /\ DOMAIN held' = {"level", "settled"}
      /\ held'.settled = IF pulse.compare = 1 /\ held.settled < Settled THEN held.settled + 1
                         ELSE held.settled
  BY <1>1 DEF Watch
<1>4. DOMAIN level = Outs /\ \A i \in Outs : level[i] \in Nat
  OBVIOUS
<1>5. Lasted(pulse, pulse', held.level, held'.level)
  <2> SUFFICES ASSUME NEW i \in Outs
               PROVE  /\ held.level[i] \in Nat /\ level[i] \in Nat /\ level[i] <= held.level[i] + 1
                      /\ pulse.pin[i] # pulse'.pin[i] => level[i] = 1
    BY <1>3 DEF Lasted
  <2> QED OBVIOUS
<1> HIDE DEF level
<1>6. held'.settled \in 0..Settled
  BY <1>3 DEF Settled
<1>7. PulseState(pulse') /\ FullOnly(pulse') /\ Stages(pulse', held')
  <2>1. CASE pulse.compare > 1
    <3>1. pulse' = [pulse EXCEPT !.compare = @ - 1]
      BY <1>1, <2>1
    <3>2. /\ PulseState(pulse') /\ pulse'.value = pulse.value /\ pulse'.cur = pulse.cur
          /\ pulse'.state = pulse.state /\ pulse'.max = pulse.max /\ pulse'.pin = pulse.pin
          /\ pulse'.next = pulse.next /\ pulse'.compare = pulse.compare - 1
      BY <1>2, <2>1, <3>1 DEF PulseState, PulseFields
    <3>3. held'.settled = held.settled
      BY <1>2, <1>3, <2>1
    <3>4. FullOnly(pulse')
      BY <3>2 DEF FullOnly
    <3>5. Stages(pulse', held')
      BY <1>1, <1>5, <3>2, <3>3, TickStages
    <3> QED BY <3>2, <3>4, <3>5
  <2>2. CASE ~(pulse.compare > 1)
    <3>1. pulse' = vvtInterrupt(pulse) /\ pulse.compare = 1
      BY <1>1, <1>2, <2>2
    <3>2. Interrupted(pulse, pulse')
      BY <3>1, Interrupt DEF Interrupted
    <3>3. held'.settled = IF held.settled < Settled THEN held.settled + 1 ELSE held.settled
      BY <1>3, <3>1
    <3> QED BY <1>1, <1>5, <3>1, <3>2, <3>3, StagesNext DEF Interrupted
  <2> QED BY <2>1, <2>2
<1>8. VvtState(vvt)' /\ PulseState(pulse)' /\ FullOnly(pulse)'
  BY <1>1, <1>7 DEF VvtState, PulseState, FullOnly
<1>9. (vvt.timer => Stages(pulse, held))'
  <2>1. Stages(pulse', held') => Stages(pulse, held)'
    BY DEF Stages, Quiet, UnderWay, Ending, AllEnded, Regular, Ended, Live, noPulse, NextEdge
  <2> QED BY <1>7, <2>1
<1> QED BY <1>1, <1>3, <1>4, <1>6, <1>8, <1>9

LEMMA NotFull ==
  ASSUME NEW p, PulseState(p), NEW i \in Outs, NEW q, q = notFull(p, i)
  PROVE  /\ PulseState(q)
         /\ q.value = p.value /\ q.cur = p.cur /\ q.next = p.next /\ q.compare = p.compare
         /\ p.value[i] < vvtMaxCount => ~q.max[i]
         /\ ~p.max[i] => Same(p, q, i)
         /\ p.value[i] = vvtMaxCount => Same(p, q, i)
         /\ \A j \in Outs \ {i} : Same(p, q, j)
<1>0. p.value[i] \in Nat /\ vvtMaxCount \in Nat /\ p.max[i] \in BOOLEAN
  BY VvtAssumption DEF PulseState, Duty
<1>1. CASE p.value[i] < vvtMaxCount
  <2>1. q = [p EXCEPT !.max[i] = FALSE]
    BY <1>1 DEF notFull
  <2>2. /\ DOMAIN q = PulseFields /\ q.pin = p.pin
        /\ q.state = p.state /\ q.max = [p.max EXCEPT ![i] = FALSE]
        /\ q.value = p.value /\ q.cur = p.cur /\ q.next = p.next /\ q.compare = p.compare
    BY <2>1 DEF PulseState, PulseFields
  <2>3. /\ DOMAIN q.max = Outs /\ q.max[i] = FALSE
        /\ \A j \in Outs \ {i} : Same(p, q, j)
    BY <2>2 DEF PulseState, Same
  <2>4. PulseState(q)
    BY <2>2, <2>3 DEF PulseState, Same
  <2>5. q.max[i] = FALSE /\ (~p.max[i] => p.max[i] = FALSE)
    BY <1>0, <2>3
  <2>6. ~p.max[i] => Same(p, q, i)
    BY <2>2, <2>5 DEF Same
  <2> QED BY <1>0, <1>1, <2>2, <2>3, <2>4, <2>6
<1>2. CASE ~(p.value[i] < vvtMaxCount)
  BY <1>2 DEF notFull, Same
<1> QED BY <1>1, <1>2

\* With the timer on, its match is left alone.
LEMMA EnabledTimer ==
  ASSUME NEW p, PulseState(p), NEW q \in Enabled(p)
  PROVE  /\ PulseState(q) /\ q.value = p.value /\ q.state = p.state /\ q.max = p.max
         /\ q.cur = p.cur /\ q.next = p.next /\ q.pin = p.pin
         /\ vvt.timer => q = p
<1>1. CASE vvt.timer
  BY <1>1 DEF Enabled
<1>2. CASE ~vvt.timer
  <2>1. PICK c \in {1, VvtModulus} : q = [p EXCEPT !.compare = c]
    BY <1>2 DEF Enabled
  <2>2. c \in Nat \ {0}
    BY VvtAssumption
  <2> QED BY <1>2, <2>1, <2>2 DEF PulseState, PulseFields
<1> QED BY <1>1, <1>2

LEMMA DutyIsOne ==
  ASSUME vvtConfig \in VvtConfigs, NEW i \in Outs
  PROVE  NewDuty(i) \subseteq Duty
BY VvtAssumption DEF NewDuty, VvtConfigs, Duty, vvtCLholdDuty

\* vvtDrive, with the new duties in v and p.
LEMMA DrivePreserves ==
  ASSUME VvtInv, NEW v, NEW p, vvtDrive(v, p), VvtState(v), PulseState(p),
         p.cur = pulse.cur, p.state = pulse.state, p.max = pulse.max, p.pin = pulse.pin,
         p.next = pulse.next, p.compare = pulse.compare,
         p.value[1] = v.duty[1],
         vvtConfig.wmiEnabled => p.value[2] = pulse.value[2],
         vvtConfig.vvt2Enabled => p.value[2] = v.duty[2],
         ~vvtConfig.vvt2Enabled => p.value[2] = pulse.value[2]
  PROVE  VvtInv'
<1> USE DEF VvtInv
<1>0. /\ 1 \in Outs /\ 2 \in Outs /\ \A i \in Outs : i = 1 \/ i = 2
      /\ vvtMaxCount \in Nat /\ 0 < vvtMaxCount
      /\ \A i \in Outs : /\ p.value[i] \in Nat /\ p.value[i] <= vvtMaxCount
                         /\ v.duty[i] \in Nat /\ v.duty[i] <= vvtMaxCount
      /\ v.duty[1] \in Duty
  BY VvtAssumption DEF Outs, PulseState, VvtState, Duty
<1>1. \A i \in Outs : p.value[i] < vvtMaxCount /\ p.value[i] = pulse.value[i] => ~p.max[i]
  BY DEF FullOnly
<1>2. ASSUME NEW q, PulseState(q), q.value = p.value, q.cur = p.cur, q.next = p.next,
             vvt.timer => q.compare = p.compare,
             NEW w, VvtState(w), Updated(w, q),
             \A i \in Outs :
               /\ p.value[i] < vvtMaxCount => ~q.max[i]
               /\ \/ Same(p, q, i)
                  \/ q.value[i] = 0 /\ ~q.state[i] /\ ~q.max[i]
                  \/ q.value[i] = vvtMaxCount /\ q.state[i] /\ q.max[i]
                  \/ p.value[i] # pulse.value[i]
                  \/ ~w.timer
      PROVE  VvtInv'
  <2>1. FullOnly(q)
    BY <1>2 DEF FullOnly
  <2>2. q.value = pulse.value /\ w.timer /\ vvt.timer => Tidied(pulse, q)
    BY <1>2 DEF Tidied, Same
  <2> QED BY <1>2, <2>1, <2>2, UpdatedPreserves
<1>3. CASE vvtConfig.wmiEnabled
  <2>0. p.value[2] < vvtMaxCount => ~p.max[2]
    BY <1>0, <1>1, <1>3
  <2>1. CASE v.duty[1] = 0
    <3>1. Updated(v, off(p, 1))
      BY <1>0, <1>3, <2>1 DEF vvtDrive
    <3> DEFINE q == off(p, 1)
    <3>2. /\ PulseState(q) /\ q.value = p.value /\ q.cur = p.cur /\ q.next = p.next
          /\ q.compare = p.compare /\ ~q.state[1] /\ ~q.max[1] /\ Same(p, q, 2)
      BY <1>0, SetOff
    <3> HIDE DEF q
    <3>3. q.max[2] = p.max[2]
      BY <3>2 DEF Same
    <3> QED BY <1>0, <1>2, <2>0, <2>1, <3>1, <3>2, <3>3 DEF q
  <2>2. CASE v.duty[1] = vvtMaxCount
    <3>1. Updated(v, on(p, 1))
      BY <1>0, <1>3, <2>2 DEF vvtDrive
    <3> DEFINE q == on(p, 1)
    <3>2. /\ PulseState(q) /\ q.value = p.value /\ q.cur = p.cur /\ q.next = p.next
          /\ q.compare = p.compare /\ q.state[1] /\ q.max[1] /\ Same(p, q, 2)
      BY <1>0, SetOn
    <3> HIDE DEF q
    <3>3. q.max[2] = p.max[2]
      BY <3>2 DEF Same
    <3> QED BY <1>0, <1>2, <2>0, <2>2, <3>1, <3>2, <3>3 DEF q
  <2>3. CASE v.duty[1] # 0 /\ v.duty[1] # vvtMaxCount
    <3> DEFINE r == notFull(p, 1)
               w == [v EXCEPT !.timer = TRUE]
    <3>0. v.duty[1] \in 1..vvtMaxCount - 1
      BY <1>0, <2>3
    <3>1. PICK q \in Enabled(r) : Updated(w, q)
      <4> HIDE DEF VvtInv
      <4> QED BY <1>3, <2>3, <3>0 DEF vvtDrive
    <3>2. /\ PulseState(r) /\ r.value = p.value /\ r.cur = p.cur /\ r.next = p.next
          /\ r.compare = p.compare /\ Same(p, r, 2)
          /\ (~p.max[1] => Same(p, r, 1)) /\ (p.value[1] < vvtMaxCount => ~r.max[1])
      BY <1>0, NotFull
    <3>3. VvtState(w)
      BY DEF VvtState, VvtFields
    <3> HIDE DEF r, w
    <3>4. /\ PulseState(q) /\ q.value = r.value /\ q.state = r.state /\ q.max = r.max
          /\ q.cur = r.cur /\ q.next = r.next /\ q.pin = r.pin
          /\ vvt.timer => q = r
      BY <3>1, <3>2, EnabledTimer
    <3>5. /\ Same(p, r, 1) => Same(p, q, 1)
          /\ Same(p, r, 2) => Same(p, q, 2)
      BY <3>4 DEF Same
    <3>6. p.value[1] < vvtMaxCount /\ p.value[1] = pulse.value[1] => Same(p, q, 1)
      BY <1>0, <1>1, <3>2, <3>5
    <3>7. /\ Same(p, q, 2)
          /\ \A i \in Outs : p.value[i] < vvtMaxCount => ~q.max[i]
      BY <1>0, <2>0, <3>2, <3>4, <3>5 DEF Same
    <3> QED BY <1>0, <1>2, <2>3, <3>1, <3>2, <3>3, <3>4, <3>6, <3>7
  <2> QED BY <2>1, <2>2, <2>3
<1>4. CASE ~vvtConfig.wmiEnabled
  <2> DEFINE w == [v EXCEPT !.timer = FALSE]
  <2>0. VvtState(w) /\ ~w.timer
    BY DEF VvtState, VvtFields
  <2>1. CASE v.duty = [i \in Outs |-> 0]
    <3> DEFINE r == off(p, 1)
               q == off(r, 2)
    <3>0. v.duty # [i \in Outs |-> vvtMaxCount]
      BY <1>0, <2>1
    <3>1. Updated(w, q)
      <4> HIDE DEF VvtInv
      <4> QED BY <1>4, <2>1, <3>0 DEF vvtDrive
    <3>2. /\ PulseState(r) /\ r.value = p.value /\ r.cur = p.cur /\ r.next = p.next
          /\ r.compare = p.compare /\ ~r.max[1]
      BY <1>0, SetOff
    <3> HIDE DEF r, w
    <3>3. /\ PulseState(q) /\ q.value = r.value /\ q.cur = r.cur /\ q.next = r.next
          /\ q.compare = r.compare /\ ~q.max[2] /\ Same(r, q, 1)
      BY <1>0, <3>2, SetOff
    <3> HIDE DEF q
    <3>4. \A i \in Outs : ~q.max[i]
      BY <1>0, <3>2, <3>3 DEF Same
    <3> QED BY <1>2, <2>0, <3>1, <3>2, <3>3, <3>4
  <2>2. CASE v.duty # [i \in Outs |-> 0] /\ v.duty = [i \in Outs |-> vvtMaxCount]
    <3> DEFINE r == on(p, 1)
               q == on(r, 2)
    <3>1. Updated(w, q)
      <4> HIDE DEF VvtInv
      <4> QED BY <1>4, <2>2 DEF vvtDrive
    <3>2. /\ PulseState(r) /\ r.value = p.value /\ r.cur = p.cur /\ r.next = p.next
          /\ r.compare = p.compare
      BY <1>0, SetOn
    <3> HIDE DEF r, w
    <3>3. /\ PulseState(q) /\ q.value = r.value /\ q.cur = r.cur /\ q.next = r.next
          /\ q.compare = r.compare
      BY <1>0, <3>2, SetOn
    <3> HIDE DEF q
    <3>4. \A i \in Outs : p.value[i] = vvtMaxCount
      BY <1>0, <2>2 DEF VvtState
    <3> QED BY <1>0, <1>2, <2>0, <3>1, <3>2, <3>3, <3>4
  <2>3. CASE v.duty # [i \in Outs |-> 0] /\ v.duty # [i \in Outs |-> vvtMaxCount]
    <3> DEFINE r == notFull(p, 1)
               t == notFull(r, 2)
               u == [v EXCEPT !.timer = TRUE]
    <3>1. PICK q \in Enabled(t) : Updated(u, q)
      <4> HIDE DEF VvtInv
      <4> QED BY <1>4, <2>3 DEF vvtDrive
    <3>2. /\ PulseState(r) /\ r.value = p.value /\ r.cur = p.cur /\ r.next = p.next
          /\ r.compare = p.compare /\ Same(p, r, 2)
          /\ (~p.max[1] => Same(p, r, 1)) /\ (p.value[1] = vvtMaxCount => Same(p, r, 1))
          /\ (p.value[1] < vvtMaxCount => ~r.max[1])
      BY <1>0, NotFull
    <3>3. VvtState(u)
      BY DEF VvtState, VvtFields
    <3> HIDE DEF r, u
    <3>4. /\ PulseState(t) /\ t.value = r.value /\ t.cur = r.cur /\ t.next = r.next
          /\ t.compare = r.compare /\ Same(r, t, 1)
          /\ (~r.max[2] => Same(r, t, 2)) /\ (r.value[2] = vvtMaxCount => Same(r, t, 2))
          /\ (r.value[2] < vvtMaxCount => ~t.max[2])
      BY <1>0, <3>2, NotFull
    <3> HIDE DEF t
    <3>5. /\ PulseState(q) /\ q.value = t.value /\ q.state = t.state /\ q.max = t.max
          /\ q.cur = t.cur /\ q.next = t.next /\ q.pin = t.pin
          /\ vvt.timer => q = t
      BY <3>1, <3>4, EnabledTimer
    <3>6. /\ Same(p, r, 1) => Same(p, q, 1)
          /\ Same(r, t, 2) => Same(p, q, 2)
      BY <3>2, <3>4, <3>5 DEF Same
    <3>7. \A i \in Outs : p.value[i] = pulse.value[i] => Same(p, q, i)
      <4>1. ~p.max[2] => ~r.max[2]
        BY <3>2 DEF Same
      <4> QED BY <1>0, <1>1, <3>2, <3>4, <3>6, <4>1
    <3>8. \A i \in Outs : p.value[i] < vvtMaxCount => ~q.max[i]
      BY <1>0, <3>2, <3>4, <3>5 DEF Same
    <3> QED BY <1>2, <3>1, <3>2, <3>3, <3>4, <3>5, <3>7, <3>8
  <2> QED BY <2>1, <2>2, <2>3
<1> QED BY <1>3, <1>4

\* vvtControl clears a channel.
Clear(p, i) == [p EXCEPT !.value[i] = 0, !.state[i] = FALSE, !.max[i] = FALSE]

LEMMA Cleared ==
  ASSUME NEW p, PulseState(p), NEW i \in Outs, NEW q, q = Clear(p, i)
  PROVE  /\ PulseState(q) /\ q.cur = p.cur /\ q.next = p.next /\ q.compare = p.compare
         /\ q.value[i] = 0 /\ ~q.state[i] /\ ~q.max[i]
         /\ \A j \in Outs \ {i} : Same(p, q, j) /\ q.value[j] = p.value[j]
<1>1. /\ DOMAIN q = PulseFields /\ q.value = [p.value EXCEPT ![i] = 0]
      /\ q.state = [p.state EXCEPT ![i] = FALSE] /\ q.max = [p.max EXCEPT ![i] = FALSE]
      /\ q.pin = p.pin /\ q.cur = p.cur /\ q.next = p.next /\ q.compare = p.compare
  BY DEF PulseState, PulseFields, Clear
<1>2. /\ DOMAIN q.value = Outs /\ DOMAIN q.state = Outs /\ DOMAIN q.max = Outs
      /\ q.value[i] = 0 /\ q.state[i] = FALSE /\ q.max[i] = FALSE
      /\ \A j \in Outs \ {i} : Same(p, q, j) /\ q.value[j] = p.value[j]
  BY <1>1 DEF PulseState, Same
<1>3. 0 \in Duty
  BY VvtAssumption DEF Duty
<1>4. PulseState(q)
  <2>1. ASSUME NEW j \in Outs
        PROVE  /\ q.value[j] \in Duty /\ q.cur[j] \in Duty
               /\ q.state[j] \in BOOLEAN /\ q.max[j] \in BOOLEAN /\ q.pin[j] \in BOOLEAN
    <3>1. /\ p.value[j] \in Duty /\ p.cur[j] \in Duty
          /\ p.state[j] \in BOOLEAN /\ p.max[j] \in BOOLEAN /\ p.pin[j] \in BOOLEAN
      BY DEF PulseState
    <3>2. CASE j = i
      BY <1>1, <1>2, <1>3, <3>1, <3>2
    <3>3. CASE j # i
      BY <1>1, <1>2, <3>1, <3>3 DEF Same
    <3> QED BY <3>2, <3>3
  <2> QED BY <1>1, <1>2, <2>1 DEF PulseState
<1> QED BY <1>1, <1>2, <1>4

LEMMA InactivePreserves ==
  ASSUME VvtInv, vvtInactive
  PROVE  VvtInv'
<1> USE DEF VvtInv
<1> DEFINE v == [vvt EXCEPT !.timeHold = FALSE, !.duty[1] = 0]
           w == [v EXCEPT !.duty[2] = 0, !.timer = FALSE]
           r == Clear(pulse, 1)
           q == Clear(r, 2)
<1>0. /\ 1 \in Outs /\ 2 \in Outs /\ \A i \in Outs : i = 1 \/ i = 2
      /\ vvtMaxCount \in Nat /\ 0 < vvtMaxCount /\ 0 \in Duty
  BY VvtAssumption DEF Outs, Duty
<1>1. VvtState(v) /\ v.timer = vvt.timer
  <2>1. /\ DOMAIN v = VvtFields /\ v.duty = [vvt.duty EXCEPT ![1] = 0] /\ v.timer = vvt.timer
    BY DEF VvtState, VvtFields
  <2> HIDE DEF v
  <2> QED BY <1>0, <2>1 DEF VvtState
<1>2. VvtState(w) /\ ~w.timer
  <2> HIDE DEF v
  <2>1. /\ DOMAIN w = VvtFields /\ w.duty = [v.duty EXCEPT ![2] = 0] /\ w.timer = FALSE
    BY <1>1 DEF VvtState, VvtFields
  <2> HIDE DEF w
  <2> QED BY <1>0, <1>1, <2>1 DEF VvtState
<1>3. /\ PulseState(r) /\ r.cur = pulse.cur /\ r.next = pulse.next /\ r.compare = pulse.compare
      /\ r.value[1] = 0 /\ ~r.state[1] /\ ~r.max[1]
      /\ Same(pulse, r, 2) /\ r.value[2] = pulse.value[2]
  BY <1>0, Cleared
<1>4. CASE vvtConfig.wmiEnabled
  <2>1. Updated(v, r)
    BY <1>4 DEF vvtInactive, Clear
  <2> HIDE DEF v, r
  <2>2. FullOnly(r)
    BY <1>0, <1>3 DEF FullOnly, Same
  <2>3. Tidied(pulse, r)
    BY <1>0, <1>3 DEF Tidied
  <2> QED BY <1>1, <1>3, <2>1, <2>2, <2>3, UpdatedPreserves
<1>5. CASE ~vvtConfig.wmiEnabled
  <2>1. Updated(w, q)
    BY <1>5 DEF vvtInactive, Clear
  <2> HIDE DEF w, r
  <2>2. /\ PulseState(q) /\ ~q.max[2] /\ Same(r, q, 1)
    BY <1>0, <1>3, Cleared
  <2> HIDE DEF q
  <2>3. FullOnly(q)
    BY <1>0, <1>3, <2>2 DEF FullOnly, Same
  <2> QED BY <1>2, <2>1, <2>2, <2>3, UpdatedPreserves
<1> QED BY <1>4, <1>5

LEMMA StoppedPreserves ==
  ASSUME VvtInv, VvtStopped
  PROVE  VvtInv'
<1> USE DEF VvtInv
<1> DEFINE v == [vvt EXCEPT !.timer = FALSE]
           q == [pulse EXCEPT !.pin = [i \in Outs |-> FALSE]]
<1>1. Updated(v, q)
  BY DEF VvtStopped
<1>2. VvtState(v) /\ ~v.timer
  BY DEF VvtState, VvtFields
<1>3. /\ DOMAIN q = PulseFields /\ q.pin = [i \in Outs |-> FALSE]
      /\ q.value = pulse.value /\ q.cur = pulse.cur /\ q.state = pulse.state /\ q.max = pulse.max
      /\ q.next = pulse.next /\ q.compare = pulse.compare
  BY DEF PulseState, PulseFields
<1> HIDE DEF v, q
<1>4. PulseState(q) /\ FullOnly(q)
  BY <1>3 DEF PulseState, FullOnly
<1> QED BY <1>1, <1>2, <1>4, UpdatedPreserves

LEMMA ControlPreserves ==
  ASSUME VvtInv, vvtControl
  PROVE  VvtInv'
<1> USE DEF VvtInv
<1>1. CASE ~vvtActive
  BY <1>1, InactivePreserves DEF vvtControl
<1>2. CASE vvtActive
  <2> DEFINE warm == IF vvt.timeHold THEN vvt.warm ELSE vvtWarmUp
             v == [vvt EXCEPT !.timeHold = TRUE, !.warm = IF warm > 0 THEN warm - 1 ELSE 0,
                              !.hot = @ \/ warm = 0]
  <2>1. VvtState(v) /\ v.timer = vvt.timer /\ v.duty = vvt.duty
    BY DEF VvtState, VvtFields
  <2>2. CASE ~v.hot
    <3>1. Updated(v, pulse)
      BY <1>2, <2>2 DEF vvtControl
    <3>2. Tidied(pulse, pulse)
      BY DEF Tidied, Same
    <3> HIDE DEF v
    <3> QED BY <2>1, <3>1, <3>2, UpdatedPreserves
  <2>3. CASE v.hot
    <3>1. PICK d1 \in NewDuty(1), d2 \in IF vvtConfig.vvt2Enabled THEN NewDuty(2) ELSE {vvt.duty[2]} :
            LET d == <<d1, d2>>
                value == IF vvtConfig.vvt2Enabled THEN d ELSE <<d1, pulse.value[2]>>
            IN vvtDrive([v EXCEPT !.duty = d], [pulse EXCEPT !.value = value])
      <4> HIDE DEF VvtInv
      <4> QED BY <1>2, <2>3 DEF vvtControl
    <3> DEFINE d == <<d1, d2>>
               value == IF vvtConfig.vvt2Enabled THEN d ELSE <<d1, pulse.value[2]>>
               w == [v EXCEPT !.duty = d]
               p == [pulse EXCEPT !.value = value]
    <3>2. vvtDrive(w, p)
      BY <3>1
    <3>3. /\ 1 \in Outs /\ 2 \in Outs /\ \A i \in Outs : i = 1 \/ i = 2
          /\ Outs = 1..2
      BY DEF Outs
    <3>4. d1 \in Duty /\ d2 \in Duty /\ (~vvtConfig.vvt2Enabled => d2 = 0)
      <4>1. NewDuty(1) \subseteq Duty /\ NewDuty(2) \subseteq Duty
        BY <3>3, DutyIsOne
      <4> QED BY <3>1, <3>3, <4>1 DEF VvtState
    <3>5. /\ DOMAIN d = Outs /\ d[1] = d1 /\ d[2] = d2
          /\ DOMAIN value = Outs /\ value[1] = d1
          /\ value[2] = IF vvtConfig.vvt2Enabled THEN d2 ELSE pulse.value[2]
      BY <3>3
    <3> HIDE DEF d, value, v
    <3>6. DOMAIN w = VvtFields /\ w.timer = vvt.timer /\ w.duty = d
      BY <2>1 DEF VvtState, VvtFields
    <3>7. /\ DOMAIN p = PulseFields /\ p.value = value
          /\ p.cur = pulse.cur /\ p.state = pulse.state /\ p.max = pulse.max /\ p.pin = pulse.pin
          /\ p.next = pulse.next /\ p.compare = pulse.compare
      BY DEF PulseState, PulseFields
    <3> HIDE DEF w, p
    <3>8. VvtState(w)
      BY <3>3, <3>4, <3>5, <3>6 DEF VvtState
    <3>9. PulseState(p)
      <4>1. \A i \in Outs : value[i] \in Duty
        BY <3>3, <3>4, <3>5 DEF PulseState
      <4> QED BY <3>5, <3>7, <4>1 DEF PulseState
    <3>10. vvtConfig.wmiEnabled => ~vvtConfig.vvt2Enabled
      BY <1>2 DEF vvtActive
    <3>11. /\ p.value[1] = w.duty[1]
           /\ vvtConfig.vvt2Enabled => p.value[2] = w.duty[2]
           /\ ~vvtConfig.vvt2Enabled => p.value[2] = pulse.value[2]
           /\ vvtConfig.wmiEnabled => p.value[2] = pulse.value[2]
      BY <3>5, <3>6, <3>7, <3>10
    <3> QED BY <3>2, <3>7, <3>8, <3>9, <3>11, DrivePreserves
  <2> QED BY <2>2, <2>3
<1> QED BY <1>1, <1>2

LEMMA WaterPreserves ==
  ASSUME VvtInv, wmiControl
  PROVE  VvtInv'
<1> USE DEF VvtInv
<1>1. PICK pw \in WmiDuties :
        LET p == [pulse EXCEPT !.value[2] = pw]
            v == [vvt EXCEPT !.wmiOn = pw > 0]
            still == [v EXCEPT !.timer = @ /\ vvtConfig.vvtEnabled]
        IN CASE pw = 0 -> Updated(still, off(p, 2))
             [] pw = vvtMaxCount -> Updated(still, on(p, 2))
             [] OTHER -> \E q \in Enabled([p EXCEPT !.max[2] = FALSE]) :
                           Updated([v EXCEPT !.timer = TRUE], q)
  <2> HIDE DEF VvtInv
  <2> QED BY DEF wmiControl
<1> DEFINE p == [pulse EXCEPT !.value[2] = pw]
           v == [vvt EXCEPT !.wmiOn = pw > 0]
           still == [v EXCEPT !.timer = @ /\ vvtConfig.vvtEnabled]
           go == [v EXCEPT !.timer = TRUE]
<1>2. /\ 1 \in Outs /\ 2 \in Outs /\ \A i \in Outs : i = 1 \/ i = 2
      /\ vvtMaxCount \in Nat /\ 0 < vvtMaxCount
      /\ pw \in Duty /\ pw \in Nat /\ pw <= vvtMaxCount
  BY VvtAssumption DEF Outs, WmiDuties, Duty
<1>3. /\ PulseState(p)
      /\ p.cur = pulse.cur /\ p.state = pulse.state /\ p.max = pulse.max /\ p.pin = pulse.pin
      /\ p.next = pulse.next /\ p.compare = pulse.compare
      /\ p.value[2] = pw /\ p.value[1] = pulse.value[1]
  <2>1. /\ DOMAIN p = PulseFields /\ p.value = [pulse.value EXCEPT ![2] = pw]
        /\ p.cur = pulse.cur /\ p.state = pulse.state /\ p.max = pulse.max /\ p.pin = pulse.pin
        /\ p.next = pulse.next /\ p.compare = pulse.compare
    BY DEF PulseState, PulseFields
  <2> HIDE DEF p
  <2>2. DOMAIN p.value = Outs /\ p.value[2] = pw /\ p.value[1] = pulse.value[1]
    BY <1>2, <2>1 DEF PulseState
  <2> QED BY <1>2, <2>1, <2>2 DEF PulseState
<1>4. VvtState(v) /\ VvtState(go)
  BY DEF VvtState, VvtFields
<1>5. VvtState(still)
  <2> DEFINE t == vvt.timer /\ vvtConfig.vvtEnabled
  <2>1. t \in BOOLEAN
    OBVIOUS
  <2>2. still = [v EXCEPT !.timer = t]
    BY DEF VvtState, VvtFields
  <2> HIDE DEF t, still, v
  <2> QED BY <1>4, <2>1, <2>2 DEF VvtState, VvtFields
<1>6. ASSUME NEW q, PulseState(q), q.value = p.value, q.cur = p.cur, q.next = p.next,
             vvt.timer => q.compare = p.compare, Same(p, q, 1),
             NEW w, VvtState(w), Updated(w, q),
             pw < vvtMaxCount => ~q.max[2],
             \/ pw # pulse.value[2] \/ Same(p, q, 2)
             \/ q.value[2] = 0 /\ ~q.state[2] /\ ~q.max[2]
             \/ q.value[2] = vvtMaxCount /\ q.state[2] /\ q.max[2]
      PROVE  VvtInv'
  <2> HIDE DEF p
  <2>1. FullOnly(q)
    BY <1>2, <1>3, <1>6 DEF FullOnly, Same
  <2>2. q.value = pulse.value /\ vvt.timer => Tidied(pulse, q)
    <3> SUFFICES ASSUME q.value = pulse.value, vvt.timer PROVE Tidied(pulse, q)
      OBVIOUS
    <3>1. Same(pulse, q, 1) /\ (Same(p, q, 2) => Same(pulse, q, 2)) /\ pw = pulse.value[2]
      BY <1>3, <1>6 DEF Same
    <3> QED BY <1>2, <1>3, <1>6, <3>1 DEF Tidied
  <2> QED BY <1>6, <2>1, <2>2, UpdatedPreserves
<1>7. CASE pw = 0
  <2> DEFINE q == off(p, 2)
  <2>1. Updated(still, q)
    <3> HIDE DEF VvtInv
    <3> QED BY <1>1, <1>2, <1>7
  <2> HIDE DEF p, still
  <2>2. /\ PulseState(q) /\ q.value = p.value /\ q.cur = p.cur /\ q.next = p.next
        /\ q.compare = p.compare /\ ~q.state[2] /\ ~q.max[2] /\ Same(p, q, 1)
    BY <1>2, <1>3, SetOff
  <2> HIDE DEF q
  <2> QED BY <1>3, <1>5, <1>6, <1>7, <2>1, <2>2
<1>8. CASE pw = vvtMaxCount
  <2> DEFINE q == on(p, 2)
  <2>1. Updated(still, q)
    <3>1. pw # 0
      BY <1>2, <1>8
    <3> HIDE DEF VvtInv
    <3> QED BY <1>1, <1>8, <3>1
  <2> HIDE DEF p, still
  <2>2. /\ PulseState(q) /\ q.value = p.value /\ q.cur = p.cur /\ q.next = p.next
        /\ q.compare = p.compare /\ q.state[2] /\ q.max[2] /\ Same(p, q, 1)
    BY <1>2, <1>3, SetOn
  <2> HIDE DEF q
  <2> QED BY <1>2, <1>3, <1>5, <1>6, <1>8, <2>1, <2>2
<1>9. CASE pw # 0 /\ pw # vvtMaxCount
  <2> DEFINE r == [p EXCEPT !.max[2] = FALSE]
  <2>1. PICK q \in Enabled(r) : Updated(go, q)
    <3> HIDE DEF VvtInv
    <3> QED BY <1>1, <1>9
  <2>2. p.value[2] < vvtMaxCount
    BY <1>2, <1>3, <1>9
  <2>3. r = notFull(p, 2)
    BY <2>2 DEF notFull
  <2> HIDE DEF p, go, r
  <2>4. /\ PulseState(r) /\ r.value = p.value /\ r.cur = p.cur /\ r.next = p.next
        /\ r.compare = p.compare /\ Same(p, r, 1)
        /\ (~p.max[2] => Same(p, r, 2)) /\ ~r.max[2]
    BY <1>2, <1>3, <2>2, <2>3, NotFull
  <2>5. /\ PulseState(q) /\ q.value = r.value /\ q.state = r.state /\ q.max = r.max
        /\ q.cur = r.cur /\ q.next = r.next /\ q.pin = r.pin
        /\ vvt.timer => q = r
    BY <2>1, <2>4, EnabledTimer
  <2>6. /\ Same(p, q, 1) /\ ~q.max[2]
        /\ Same(p, r, 2) => Same(p, q, 2)
    BY <2>4, <2>5 DEF Same
  <2>7. pw = pulse.value[2] => ~p.max[2]
    BY <1>2, <1>3, <2>2 DEF FullOnly
  <2> QED BY <1>4, <1>6, <2>1, <2>4, <2>5, <2>6, <2>7
<1> QED BY <1>7, <1>8, <1>9

LEMMA RegularMatches ==
  ASSUME VvtInv
  PROVE  PulsesMatchDuties
<1> SUFFICES ASSUME held.settled = Settled, vvt.timer, NEW i \in Outs, pulse.value[i] \in Mid
             PROVE  held.level[i] <= IF pulse.pin[i] THEN pulse.value[i]
                                     ELSE vvtMaxCount - pulse.value[i]
  BY DEF PulsesMatchDuties, Mid
<1>1. Regular(pulse, held.level)
  BY DEF VvtInv, Stages, Settled
<1>2. /\ vvtMaxCount \in Nat /\ held.level[i] \in Nat /\ pulse.compare \in Nat \ {0}
      /\ \A j \in Outs : pulse.value[j] \in Nat /\ pulse.value[j] <= vvtMaxCount
      /\ pulse.state[i] \in BOOLEAN /\ pulse.pin[i] \in BOOLEAN
  BY VvtAssumption DEF VvtInv, PulseState, Duty
<1>3. NextEdge(pulse) \in Nat /\ NextEdge(pulse) <= vvtMaxCount
  BY <1>2 DEF NextEdge, Outs
<1> QED BY <1>1, <1>2, <1>3 DEF Regular

\* The second channel is one of VVT or of WMI.  With both enabled the property
\* fails: vvtDrive settles the first channel alone, and the second keeps the
\* mark of a full duty it no longer has.
SecondChannelOnce ==
  \A c \in Tunes["valves"] : ~(c.vvtEnabled /\ c.vvt2Enabled /\ c.wmiEnabled)

ValvesInv == IF fitted = "valves" THEN VvtInv ELSE held.settled = 0

LEMMA ValvesInit ==
  ASSUME SecondChannelOnce, Init
  PROVE  ValvesInv
<1>1. CASE fitted # "valves"
  BY <1>1 DEF Init, VvtInit, ValvesInv
<1>2. CASE fitted = "valves"
  <2>1. vvtConfig \in Tunes["valves"] /\ VvtInit(Tunes["valves"])
    BY <1>2 DEF Init, tunes, VvtInit
  <2>2. vvtConfig \in VvtConfigs
    <3>1. Tunes[fitted] \subseteq Configs(fitted)
      BY ControlLoopAssumption DEF Init
    <3>2. Configs(fitted) = VvtConfigs
      BY <1>2 DEF Configs, CorrectionParts, SensorParts
    <3> QED BY <1>2, <2>1, <3>1, <3>2
  <2>3. ~(vvtConfig.vvtEnabled /\ vvtConfig.vvt2Enabled /\ vvtConfig.wmiEnabled)
    BY <2>1 DEF SecondChannelOnce
  <2>4. /\ vvt.duty = <<0, 0>> /\ DOMAIN vvt = VvtFields
        /\ vvt.timer = (vvtConfig.vvtEnabled \/ vvtConfig.wmiEnabled)
        /\ pulse.value = <<0, 0>> /\ pulse.cur = <<0, 0>> /\ pulse.state = <<FALSE, FALSE>>
        /\ pulse.max = <<FALSE, FALSE>> /\ pulse.pin = <<FALSE, FALSE>> /\ pulse.next = 0
        /\ pulse.compare = VvtModulus /\ DOMAIN pulse = PulseFields
        /\ held.level = <<0, 0>> /\ held.settled = 0 /\ DOMAIN held = {"level", "settled"}
    BY <2>1 DEF VvtInit, initialiseAuxPWM, VvtFields, PulseFields
  <2>5. 0 \in Duty /\ VvtModulus \in Nat \ {0} /\ Outs = 1..2
    BY VvtAssumption DEF Duty, Outs
  <2>6. VvtState(vvt)
    BY <2>4, <2>5 DEF VvtState
  <2>7. PulseState(pulse) /\ FullOnly(pulse)
    BY <2>4, <2>5 DEF PulseState, FullOnly
  <2>8. DOMAIN held.level = Outs /\ (\A i \in Outs : held.level[i] \in Nat) /\ Stages(pulse, held)
    BY <2>4, <2>5 DEF Stages
  <2> QED BY <1>2, <2>2, <2>3, <2>4, <2>6, <2>7, <2>8 DEF ValvesInv, VvtInv, Settled
<1> QED BY <1>1, <1>2

LEMMA ValvesNext ==
  ASSUME ValvesInv, [Next]_vars
  PROVE  ValvesInv'
<1>1. /\ UNCHANGED fitted
      /\ \/ UNCHANGED vvtVars
         \/ fitted = "valves" /\ (vvtControl \/ wmiControl \/ VvtTick \/ VvtStopped)
  BY Disturbs
<1>2. CASE UNCHANGED vvtVars
  BY <1>1, <1>2 DEF ValvesInv, vvtVars, VvtInv, VvtState, PulseState, FullOnly, Stages, Quiet, UnderWay,
       Ending, AllEnded, Regular, Ended, Live, noPulse, NextEdge
<1>3. CASE fitted = "valves" /\ (vvtControl \/ wmiControl \/ VvtTick \/ VvtStopped)
  BY <1>1, <1>3, ControlPreserves, WaterPreserves, TickPreserves, StoppedPreserves DEF ValvesInv
<1> QED BY <1>1, <1>2, <1>3

\* With a channel to each use, every pulse of the valves is as long as its duty
\* once the duties have been left alone for a period or two, whatever stalls,
\* pulses cut short and changes of the duties came before; and a homed stepper
\* motor is where it is counted to be.
THEOREM PulsesAlwaysKept == ASSUME SecondChannelOnce PROVE Spec => []PulsesKept
<1>1. Init => ValvesInv
  BY ValvesInit
<1>2. ValvesInv /\ [Next]_vars => ValvesInv'
  BY ValvesNext
<1>3. ValvesInv => PulsesMatchDuties
  BY RegularMatches DEF ValvesInv, PulsesMatchDuties, Settled
<1>4. PulsesMatchDuties /\ StepsCounted => PulsesKept
  BY DEF PulsesKept
<1> QED BY <1>1, <1>2, <1>3, <1>4, StepsAlwaysCounted, PTL DEF Spec


-----------------------------------------------------------------------------
(* What has to wait, and what has to end.                                  *)

\* The compressor: each of its delays is behind the calls it counts.
AirConFields ==
  {"waitedAfterCranking", "acAfterEngineStartDelay", "acStartDelay", "acTPSLockoutDelay",
   "acRPMLockoutDelay", "cltLockout", "tpsLockout", "rpmLockout", "turningOn", "compressor", "fan"}

StartWaits(a, n) ==
  /\ a.acAfterEngineStartDelay \in 0..1 /\ n \in 0..LongAgo
  /\ a.acAfterEngineStartDelay <= n
  /\ a.waitedAfterCranking => n = LongAgo
ThrottleWaits(a, n) ==
  /\ a.acTPSLockoutDelay \in 0..1 /\ n \in 0..LongAgo
  /\ IF a.tpsLockout THEN a.acTPSLockoutDelay <= n ELSE n = LongAgo
SpeedWaits(a, n) ==
  /\ a.acRPMLockoutDelay \in 0..1 /\ n \in 0..LongAgo
  /\ IF a.rpmLockout THEN a.acRPMLockoutDelay <= n ELSE n = LongAgo
IdleUpWaits(a, n) ==
  /\ a.acStartDelay \in 0..airConCompOnDelay /\ n \in 0..LongAgo
  /\ a.turningOn => a.acStartDelay <= n + 1
  /\ ~a.turningOn => a.acStartDelay = 0
CompressorMayRun(a, calls) ==
  a.compressor => /\ a.turningOn /\ a.waitedAfterCranking /\ ~a.tpsLockout /\ ~a.rpmLockout
                  /\ calls.idleUp = LongAgo

AirConInv ==
  /\ DOMAIN aircon = AirConFields
  /\ StartWaits(aircon, airconCalls.start)
  /\ ThrottleWaits(aircon, airconCalls.tps)
  /\ SpeedWaits(aircon, airconCalls.rpm)
  /\ IdleUpWaits(aircon, airconCalls.idleUp)
  /\ CompressorMayRun(aircon, airconCalls)

SameStart(a, b) ==
  a.waitedAfterCranking = b.waitedAfterCranking /\ a.acAfterEngineStartDelay = b.acAfterEngineStartDelay
SameThrottle(a, b) == a.tpsLockout = b.tpsLockout /\ a.acTPSLockoutDelay = b.acTPSLockoutDelay
SameSpeed(a, b) == a.rpmLockout = b.rpmLockout /\ a.acRPMLockoutDelay = b.acRPMLockoutDelay
SameIdleUp(a, b) ==
  a.turningOn = b.turningOn /\ a.acStartDelay = b.acStartDelay /\ a.compressor = b.compressor

LEMMA AirConPreserves ==
  ASSUME AirConInv, reading \in Sensors,
         UNCHANGED coolingVars \/ fanControl \/ fanInterrupt \/ fanOffWhenCranking \/ airConControl
  PROVE  AirConInv'
<1>1. CASE UNCHANGED <<aircon, airconCalls>>
  BY <1>1 DEF AirConInv, StartWaits, ThrottleWaits, SpeedWaits, IdleUpWaits, CompressorMayRun
<1>2. CASE airConControl
  <2> DEFINE a == checkAfterStart(aircon)
             b == checkAirConCoolantLockout(a)
             c == checkAirConTPSLockout(b)
             d == checkAirConRPMLockout(c)
             n == airconCalls'
  <2>1. aircon' = switchAirCon(d)
    BY <1>2 DEF airConControl
  <2>2. /\ n.start = Since(rotationStatus # "Running", airconCalls.start)
        /\ n.tps = Since(reading.tps = 1, airconCalls.tps)
        /\ n.rpm = Since(rpm \notin airConRPMs, airconCalls.rpm)
        /\ n.idleUp = Since(~aircon.turningOn, airconCalls.idleUp)
    BY <1>2 DEF airConControl
  <2> HIDE DEF n
  <2> USE DEF AirConInv, SameStart, SameThrottle, SameSpeed, SameIdleUp
  <2>3. /\ DOMAIN a = AirConFields /\ StartWaits(a, n.start)
        /\ SameThrottle(a, aircon) /\ SameSpeed(a, aircon) /\ SameIdleUp(a, aircon)
    BY <2>2 DEF StartWaits, AirConFields, checkAfterStart, airConAfterStartDelay, Since, LongAgo
  <2> HIDE DEF a
  <2>4. /\ DOMAIN b = AirConFields
        /\ SameStart(b, a) /\ SameThrottle(b, a) /\ SameSpeed(b, a) /\ SameIdleUp(b, a)
    <3> DEFINE lockout == \/ reading.coolant > airConClTempCut
                          \/ a.cltLockout /\ reading.coolant >= airConClTempCut - 1
    <3>1. b = [a EXCEPT !.cltLockout = lockout]
      BY DEF checkAirConCoolantLockout
    <3> HIDE DEF lockout, b
    <3> QED BY <2>3, <3>1 DEF AirConFields
  <2> HIDE DEF b
  <2>5. /\ DOMAIN c = AirConFields /\ ThrottleWaits(c, n.tps)
        /\ SameStart(c, b) /\ SameSpeed(c, b) /\ SameIdleUp(c, b)
    <3>1. ThrottleWaits(b, airconCalls.tps)
      BY <2>3, <2>4 DEF ThrottleWaits
    <3>2. reading.tps \in 0..1
      BY DEF Sensors
    <3>3. CASE reading.tps = 1
      <4>1. c = [b EXCEPT !.tpsLockout = TRUE, !.acTPSLockoutDelay = 0]
        BY <3>3 DEF checkAirConTPSLockout
      <4>2. /\ DOMAIN c = AirConFields /\ c.tpsLockout /\ c.acTPSLockoutDelay = 0
            /\ SameStart(c, b) /\ SameSpeed(c, b) /\ SameIdleUp(c, b)
        BY <2>4, <4>1 DEF AirConFields
      <4> QED BY <2>2, <3>1, <3>3, <4>2 DEF ThrottleWaits, Since, LongAgo
    <3>4. CASE reading.tps = 0 /\ ~b.tpsLockout
      BY <2>2, <2>4, <3>1, <3>4
         DEF ThrottleWaits, AirConFields, checkAirConTPSLockout, airConTPSCutTime, Since, LongAgo
    <3>5. CASE reading.tps = 0 /\ b.tpsLockout
      BY <2>2, <2>4, <3>1, <3>5
         DEF ThrottleWaits, AirConFields, checkAirConTPSLockout, airConTPSCutTime, Since, LongAgo
    <3> QED BY <3>2, <3>3, <3>4, <3>5
  <2> HIDE DEF c
  <2>6. /\ DOMAIN d = AirConFields /\ SpeedWaits(d, n.rpm)
        /\ SameStart(d, c) /\ SameThrottle(d, c) /\ SameIdleUp(d, c)
    <3>1. SpeedWaits(c, airconCalls.rpm)
      BY <2>3, <2>4, <2>5 DEF SpeedWaits
    <3> QED BY <2>2, <2>5, <3>1
            DEF SpeedWaits, AirConFields, checkAirConRPMLockout, airConRPMCutTime, Since, LongAgo
  <2> HIDE DEF d
  <2>7. SameIdleUp(d, aircon)
    BY <2>3, <2>4, <2>5, <2>6
  <2>8. StartWaits(d, n.start) /\ ThrottleWaits(d, n.tps)
    BY <2>3, <2>4, <2>5, <2>6 DEF StartWaits, ThrottleWaits
  <2>9. /\ DOMAIN aircon' = AirConFields
        /\ SameStart(aircon', d) /\ SameThrottle(aircon', d) /\ SameSpeed(aircon', d)
        /\ IdleUpWaits(aircon', n.idleUp) /\ CompressorMayRun(aircon', n)
    <3> DEFINE fanOn == coolingConfig.acStandAloneFan
               wanted == /\ reading.request = 1
                         /\ d.waitedAfterCranking /\ ~d.tpsLockout /\ ~d.rpmLockout /\ ~d.cltLockout
    <3>1. CASE wanted /\ d.acStartDelay >= airConCompOnDelay
      <4>1. aircon' = [d EXCEPT !.turningOn = TRUE, !.fan = fanOn, !.compressor = TRUE]
        BY <2>1, <3>1 DEF switchAirCon
      <4>2. /\ DOMAIN aircon' = AirConFields
            /\ SameStart(aircon', d) /\ SameThrottle(aircon', d) /\ SameSpeed(aircon', d)
            /\ aircon'.turningOn /\ aircon'.compressor /\ aircon'.acStartDelay = d.acStartDelay
        BY <2>6, <4>1 DEF AirConFields
      <4> QED BY <2>2, <2>6, <2>7, <3>1, <4>2 DEF IdleUpWaits, CompressorMayRun, airConCompOnDelay, Since, LongAgo
    <3>2. CASE wanted /\ ~(d.acStartDelay >= airConCompOnDelay)
      <4>1. aircon' = [d EXCEPT !.turningOn = TRUE, !.fan = fanOn, !.acStartDelay = @ + 1]
        BY <2>1, <3>2 DEF switchAirCon
      <4>2. /\ DOMAIN aircon' = AirConFields
            /\ SameStart(aircon', d) /\ SameThrottle(aircon', d) /\ SameSpeed(aircon', d)
            /\ aircon'.turningOn /\ aircon'.compressor = d.compressor
            /\ aircon'.acStartDelay = d.acStartDelay + 1
        BY <2>6, <4>1 DEF AirConFields
      <4> QED BY <2>2, <2>6, <2>7, <3>2, <4>2 DEF IdleUpWaits, CompressorMayRun, airConCompOnDelay, Since, LongAgo
    <3>3. CASE ~wanted
      <4>1. aircon' = [d EXCEPT !.turningOn = FALSE, !.fan = FALSE, !.compressor = FALSE, !.acStartDelay = 0]
        BY <2>1, <3>3 DEF switchAirCon, turnOff
      <4>2. /\ DOMAIN aircon' = AirConFields
            /\ SameStart(aircon', d) /\ SameThrottle(aircon', d) /\ SameSpeed(aircon', d)
            /\ ~aircon'.turningOn /\ ~aircon'.compressor /\ aircon'.acStartDelay = 0
        BY <2>6, <4>1 DEF AirConFields
      <4> QED BY <2>2, <2>6, <2>7, <3>3, <4>2 DEF IdleUpWaits, CompressorMayRun, airConCompOnDelay, Since, LongAgo
    <3> QED BY <3>1, <3>2, <3>3
  <2>10. StartWaits(aircon', n.start) /\ ThrottleWaits(aircon', n.tps) /\ SpeedWaits(aircon', n.rpm)
    BY <2>6, <2>8, <2>9 DEF StartWaits, ThrottleWaits, SpeedWaits
  <2> QED BY <2>9, <2>10 DEF n
<1> QED BY <1>1, <1>2 DEF coolingVars, fanControl, fanInterrupt, fanOffWhenCranking

\* The pulses of an output test: they are counted from their beginning at the
\* latest.
TestFields == {"on", "pulsed", "count"}
TestOf(t, n, k, testing) ==
  /\ DOMAIN t = TestFields /\ t.count \in 0..hwTestDuration[k] /\ n \in Nat
  /\ IF pulsing(t) THEN n <= t.count ELSE n = 0
  /\ ~testing => t.on = {}

TestInv ==
  /\ test = [k \in Kinds |-> test[k]] /\ onFor = [k \in Kinds |-> onFor[k]]
  /\ \A k \in Kinds : TestOf(test[k], onFor[k], k, testMode)

LEMMA TestPreserves ==
  ASSUME TestInv,
         \/ UNCHANGED testVars \/ TestCommand \/ VssCommand
         \/ \E thirtyHz, oneKHz \in BOOLEAN : pulsedCommandController(thirtyHz, oneKHz)
  PROVE  TestInv'
<1> SUFFICES ASSUME NEW k \in Kinds
             PROVE  /\ test' = [j \in Kinds |-> test'[j]] /\ onFor' = [j \in Kinds |-> onFor'[j]]
                    /\ TestOf(test'[k], onFor'[k], k, testMode')
  BY DEF TestInv, Kinds
<1> DEFINE Goal == /\ test' = [j \in Kinds |-> test'[j]] /\ onFor' = [j \in Kinds |-> onFor'[j]]
                   /\ TestOf(test'[k], onFor'[k], k, testMode')
<1> USE DEF TestInv, TestOf, TestFields, pulsing
<1>0. hwTestDuration[k] \in 1..2
  BY DEF hwTestDuration, Kinds
<1>1. CASE UNCHANGED testVars \/ VssCommand
  <2>1. UNCHANGED <<test, onFor, testMode>>
    BY <1>1 DEF testVars, VssCommand
  <2> QED BY <2>1
<1>2. CASE TestCommand
  <2>1. onFor' = [j \in Kinds |-> IF pulsing(test'[j]) THEN onFor[j] ELSE 0]
    BY <1>2 DEF TestCommand
  <2>2. CASE testMode' = TRUE /\ UNCHANGED test
    BY <2>1, <2>2
  <2>3. CASE testMode' = FALSE /\ test' = [j \in Kinds |-> [allOff(test[j]) EXCEPT !.pulsed = {}]]
    BY <1>0, <2>1, <2>3 DEF allOff
  <2>4. ASSUME UNCHANGED testMode, NEW c \in OutputCommands,
               test' = [test EXCEPT ![c.kind] = outputCommand(@, c)]
        PROVE  test' = [j \in Kinds |-> test'[j]] /\ TestOf(test'[k], onFor'[k], k, testMode')
    <3>1. DOMAIN outputCommand(test[k], c) = TestFields /\ outputCommand(test[k], c).count = test[k].count
          /\ (~testMode => outputCommand(test[k], c).on = {})
      BY DEF outputCommand
    <3>2. test'[k] \in {test[k], outputCommand(test[k], c)} /\ test' = [j \in Kinds |-> test'[j]]
      BY <2>4 DEF OutputCommands
    <3> HIDE DEF pulsing
    <3> QED BY <1>0, <2>1, <2>4, <3>1, <3>2
  <2> QED BY <1>2, <2>1, <2>2, <2>3, <2>4 DEF TestCommand
<1>3. ASSUME NEW thirtyHz \in BOOLEAN, NEW oneKHz \in BOOLEAN, pulsedCommandController(thirtyHz, oneKHz)
      PROVE  Goal
  <2> DEFINE begins == thirtyHz /\ rpm = 0
             b == IF begins THEN beginPulses(test[k]) ELSE test[k]
             e == IF oneKHz THEN endPulses(b, hwTestDuration[k]) ELSE b
  <2>1. /\ testMode /\ testMode' = testMode /\ test'[k] = e
        /\ test' = [j \in Kinds |-> test'[j]] /\ onFor' = [j \in Kinds |-> onFor'[j]]
        /\ onFor'[k] = IF ~pulsing(test'[k]) \/ begins THEN 0
                       ELSE IF oneKHz /\ onFor[k] < LongPulse THEN onFor[k] + 1 ELSE onFor[k]
    BY <1>3 DEF pulsedCommandController
  <2>2. /\ DOMAIN b = TestFields /\ b.count \in 0..hwTestDuration[k] /\ b.pulsed = test[k].pulsed
        /\ begins => b.count = 0
        /\ ~begins => b = test[k]
    BY <1>0 DEF beginPulses
  <2> HIDE DEF b, begins
  <2>3. /\ DOMAIN e = TestFields /\ e.count \in 0..hwTestDuration[k]
        /\ pulsing(e) => pulsing(b) /\ e.count = IF oneKHz THEN b.count + 1 ELSE b.count
    <3>1. CASE ~oneKHz \/ b.pulsed = {}
      BY <2>2, <3>1 DEF endPulses
    <3>2. CASE oneKHz /\ b.pulsed # {}
      <4> DEFINE n == nextPulseCount(b.count, hwTestDuration[k])
      <4>1. n \in 0..hwTestDuration[k] /\ (n # 0 => n = b.count + 1)
        BY <1>0, <2>2 DEF nextPulseCount
      <4>2. e = [(IF n = 0 THEN [b EXCEPT !.on = {}] ELSE b) EXCEPT !.count = n]
        BY <3>2 DEF endPulses, allOff
      <4> HIDE DEF n, e
      <4> QED BY <2>2, <3>2, <4>1, <4>2
    <3> QED BY <3>1, <3>2
  <2> HIDE DEF e
  <2> QED BY <1>0, <2>1, <2>2, <2>3 DEF LongPulse
<1> QED BY <1>1, <1>2, <1>3

\* The tachometer: a pulse that is under way ends when the byte of the clock
\* has come as far as the pulse is to last.
TachoFields == {"flag", "low", "endTime", "alt", "sweep", "lowFor"}
Times == 0..MsModulus - 1
Ahead(ms, n) == IF ms + n < MsModulus THEN ms + n ELSE ms + n - MsModulus

TachoInv ==
  /\ DOMAIN tacho = TachoFields /\ tacho.flag \in {"READY", "ACTIVE", "INACTIVE"}
  /\ tacho.lowFor \in Nat
  /\ DOMAIN clock = {"ms", "counter", "mask"} /\ clock.ms \in Times
  /\ ~timerConfig.halfSpeed /\ tacho.flag = "INACTIVE" => ~tacho.low
  /\ ~timerConfig.halfSpeed /\ tacho.flag = "ACTIVE" =>
       /\ tacho.low /\ tacho.lowFor < tachoDuration
       /\ tacho.endTime = Ahead(clock.ms, tachoDuration - tacho.lowFor)

LEMMA TimesAhead ==
  ASSUME NEW ms \in Times, NEW n \in 0..MsModulus - 1, MsModulus \in Nat
  PROVE  (ms + n) % MsModulus = Ahead(ms, n)
<1>1. CASE ms + n < MsModulus
  <2>1. ms + n = MsModulus * 0 + (ms + n) /\ ms + n \in 0..MsModulus - 1
    BY <1>1 DEF Times
  <2> QED BY <1>1, <2>1 DEF Ahead, Times
<1>2. CASE ~(ms + n < MsModulus)
  <2>1. ms + n = MsModulus * 1 + (ms + n - MsModulus) /\ ms + n - MsModulus \in 0..MsModulus - 1
    BY <1>2 DEF Times
  <2> QED BY <1>2, <2>1 DEF Ahead, Times
<1> QED BY <1>1, <1>2

LEMMA TachoPreserves ==
  ASSUME TachoInv, MsModulus \in Nat,
         UNCHANGED timerVars \/ oneMSInterval \/ TakeTimers \/ tachoOutputOn
  PROVE  TachoInv'
<1> USE DEF TachoInv, TachoFields
<1>1. CASE UNCHANGED timerVars \/ TakeTimers \/ tachoOutputOn
  BY <1>1 DEF timerVars, TakeTimers, tachoOutputOn, Ahead
<1>2. CASE oneMSInterval
  <2> DEFINE ms == (clock.ms + 1) % MsModulus
             timed(t) == [t EXCEPT !.lowFor = IF t.low /\ @ <= tachoDuration THEN @ + 1 ELSE @]
  <2>1. PICK t \in tachoSweep(tacho) : tacho' = tachoOutput(timed(t), ms)
    BY <1>2 DEF oneMSInterval
  <2>2. clock'.ms = ms /\ DOMAIN clock' = {"ms", "counter", "mask"} /\ UNCHANGED timerConfig
    BY <1>2 DEF oneMSInterval
  <2>3. ms \in Times /\ ms = Ahead(clock.ms, 1)
    <3>1. 1 \in 0..MsModulus - 1
      BY TimerAssumption
    <3>2. (clock.ms + 1) % MsModulus = Ahead(clock.ms, 1)
      BY <3>1, TimesAhead
    <3>3. Ahead(clock.ms, 1) \in Times
      BY <3>1 DEF Ahead, Times
    <3> QED BY <3>2, <3>3
  <2> HIDE DEF ms
  <2>4. /\ DOMAIN t = TachoFields /\ t.flag \in {tacho.flag, "READY"} /\ t.low = tacho.low
        /\ t.lowFor = tacho.lowFor /\ t.endTime = tacho.endTime
    BY <2>1 DEF tachoSweep
  <2> DEFINE u == timed(t)
  <2>5. /\ DOMAIN u = TachoFields /\ u.flag = t.flag /\ u.low = t.low /\ u.endTime = t.endTime
        /\ u.lowFor \in Nat /\ (t.low /\ t.lowFor < tachoDuration => u.lowFor = t.lowFor + 1)
    BY <2>4, TimerAssumption
  <2> HIDE DEF u
  <2>6. CASE u.flag = "READY"
    <3>1. tacho' = startOfPulse(u, ms)
      BY <2>1, <2>6 DEF tachoOutput, u
    <3>2. CASE timerConfig.halfSpeed /\ ~u.alt
      <4>1. tacho' = [u EXCEPT !.flag = "INACTIVE", !.alt = TRUE]
        BY <3>1, <3>2 DEF startOfPulse
      <4> QED BY <2>2, <2>3, <2>5, <3>2, <4>1
    <3>3. CASE ~(timerConfig.halfSpeed /\ ~u.alt)
      <4>1. tacho' = [u EXCEPT !.low = TRUE, !.endTime = (ms + tachoDuration) % MsModulus,
                               !.flag = "ACTIVE", !.alt = ~@, !.lowFor = 0]
        BY <3>1, <3>3 DEF startOfPulse
      <4>2. (ms + tachoDuration) % MsModulus = Ahead(ms, tachoDuration)
        BY <2>3, TimesAhead, TimerAssumption DEF Times
      <4>3. /\ DOMAIN tacho' = TachoFields /\ tacho'.flag = "ACTIVE" /\ tacho'.low
            /\ tacho'.lowFor = 0 /\ tacho'.endTime = Ahead(ms, tachoDuration)
        BY <2>5, <4>1, <4>2
      <4> QED BY <2>2, <2>3, <4>3, TimerAssumption
    <3> QED BY <3>2, <3>3
  <2>7. CASE u.flag = "ACTIVE" /\ ms = u.endTime
    <3>1. tacho' = [u EXCEPT !.low = FALSE, !.flag = "INACTIVE", !.lowFor = 0]
      BY <2>1, <2>7 DEF tachoOutput, u
    <3> QED BY <2>2, <2>3, <2>5, <3>1
  <2>8. CASE u.flag = "ACTIVE" /\ ms # u.endTime
    <3>1. tacho' = u
      BY <2>1, <2>8 DEF tachoOutput, u
    <3>2. tacho.flag = "ACTIVE"
      BY <2>4, <2>5, <2>8
    <3>3. ~timerConfig.halfSpeed =>
            u.lowFor < tachoDuration /\ u.endTime = Ahead(ms, tachoDuration - u.lowFor)
      <4> SUFFICES ASSUME ~timerConfig.halfSpeed
                   PROVE  u.lowFor < tachoDuration /\ u.endTime = Ahead(ms, tachoDuration - u.lowFor)
        OBVIOUS
      <4>1. /\ u.endTime = Ahead(clock.ms, tachoDuration - tacho.lowFor) /\ u.lowFor = tacho.lowFor + 1
            /\ tacho.lowFor < tachoDuration
        BY <2>4, <2>5, <3>2
      <4> QED BY <2>3, <2>8, <4>1, TimerAssumption DEF Ahead, Times
    <3> QED BY <2>2, <2>3, <2>4, <2>5, <2>8, <3>1, <3>2, <3>3
  <2>9. CASE u.flag = "INACTIVE"
    <3>1. tacho' = u
      BY <2>1, <2>9 DEF tachoOutput, u
    <3> QED BY <2>2, <2>3, <2>4, <2>5, <2>9, <3>1
  <2> QED BY <2>4, <2>5, <2>6, <2>7, <2>8, <2>9
<1> QED BY <1>1, <1>2

\* The enrichment after a start.
EnrichInv ==
  /\ DOMAIN enrich = {"wueIsActive", "wueCorrection", "aseIsActive", "aseTaper", "ASEValue", "crankingEnrichTaper"}
  /\ enrich.aseTaper \in Nat
  /\ AseEnds

LEMMA EnrichPreserves ==
  ASSUME EnrichInv, corrConfig \in CorrConfigs,
         \/ UNCHANGED enrich
         \/ fuelCorrectionsReset
         \/ \E timers \in PassTimes : correctionsFuel(timers)
  PROVE  EnrichInv'
<1> USE DEF EnrichInv, AseEnds, ASE_COMPLETE, NO_FUEL_CORRECTION
<1>1. CASE UNCHANGED enrich
  BY <1>1
<1>2. CASE fuelCorrectionsReset
  BY <1>2 DEF fuelCorrectionsReset
<1>3. ASSUME NEW timers \in PassTimes, correctionsFuel(timers)
      PROVE  EnrichInv'
  <2> DEFINE Good(e) == /\ DOMAIN e = DOMAIN enrich /\ e.aseTaper \in Nat
                        /\ e.aseTaper = ASE_COMPLETE => ~e.aseIsActive /\ e.ASEValue = NO_FUEL_CORRECTION
             warm == correctionWUE(enrich, timers)
             started == correctionASE(warm, timers)
  <2>1. Good(warm)
    BY DEF correctionWUE
  <2> HIDE DEF warm
  <2>2. Good(afterStart(warm))
    BY <2>1 DEF afterStart, CorrConfigs
  <2>3. Good(started)
    <3>1. CASE rotationStatus = "Cranking"
      BY <2>1, <3>1 DEF correctionASE
    <3>2. CASE rotationStatus # "Cranking" /\ warm.aseTaper = ASE_COMPLETE
      BY <2>1, <3>2 DEF correctionASE
    <3>3. CASE rotationStatus # "Cranking" /\ warm.aseTaper # ASE_COMPLETE
      BY <2>1, <2>2, <3>3 DEF correctionASE
    <3> QED BY <3>1, <3>2, <3>3
  <2> HIDE DEF started
  <2>4. Good(correctionCranking(started, timers))
    BY <2>3 DEF correctionCranking
  <2> QED BY <1>3, <2>4 DEF correctionsFuel, started, warm
<1> QED BY <1>1, <1>2, <1>3

\* The closed loop: until it has waited the count of events is short of the
\* next cycle by what is left to wait.
EgoInv ==
  /\ DOMAIN ego = {"correction", "AFRnextCycle", "ignitionCount", "since", "waited"}
  /\ ego.ignitionCount \in 0..IgnitionModulus - 1 /\ ego.AFRnextCycle \in 0..IgnitionModulus - 1
  /\ ego.since \in 0..egoCount
  /\ ego.since < egoCount =>
       (ego.ignitionCount - ego.AFRnextCycle) % IgnitionModulus = IgnitionModulus - egoCount + ego.since
  /\ ego.waited \in Nat /\ EgoWaits

LEMMA EgoPreserves ==
  ASSUME EgoInv,
         \/ UNCHANGED ego
         \/ fuelCorrectionsReset \/ IgnitionEvent
         \/ \E timers \in PassTimes : correctionsFuel(timers)
  PROVE  EgoInv'
<1> USE DEF EgoInv, EgoWaits, Authority, egoCount, egoLimit, NO_FUEL_CORRECTION, IgnitionModulus
<1>1. CASE UNCHANGED ego
  BY <1>1
<1>2. CASE fuelCorrectionsReset
  BY <1>2 DEF fuelCorrectionsReset
<1>3. CASE IgnitionEvent
  <2>1. ego' = [ego EXCEPT !.ignitionCount = (@ + 1) % IgnitionModulus, !.since = Least(@ + 1, egoCount)]
    BY <1>3 DEF IgnitionEvent
  <2>2. /\ DOMAIN ego' = DOMAIN ego /\ ego'.correction = ego.correction /\ ego'.waited = ego.waited
        /\ ego'.AFRnextCycle = ego.AFRnextCycle /\ ego'.ignitionCount = (ego.ignitionCount + 1) % 8
        /\ ego'.since = Least(ego.since + 1, 2)
    BY <2>1
  <2> QED BY <2>2 DEF Least
<1>4. ASSUME NEW timers \in PassTimes, correctionsFuel(timers)
      PROVE  EgoInv'
  <2>1. ego' \in correctionAFRClosedLoop
    BY <1>4 DEF correctionsFuel
  <2>2. CASE ~isAfrCorrectionEnabled
    BY <2>1, <2>2 DEF correctionAFRClosedLoop
  <2>3. CASE isAfrCorrectionEnabled /\ ~nextAfrCycleHasStarted(ego)
    BY <2>1, <2>3 DEF correctionAFRClosedLoop
  <2>4. CASE isAfrCorrectionEnabled /\ nextAfrCycleHasStarted(ego)
    <3>1. PICK c \in IF isAfrClosedLoopOperational THEN computeAFRCorrection(ego.correction)
                     ELSE {NO_FUEL_CORRECTION} :
            ego' = [ego EXCEPT !.AFRnextCycle = (ego.ignitionCount + egoCount) % IgnitionModulus,
                               !.correction = c, !.waited = ego.since, !.since = 0]
      BY <2>1, <2>4 DEF correctionAFRClosedLoop
    <3>2. c \in Authority
      BY DEF computeAFRCorrection, Least
    <3>3. ego.since = 2
      BY <2>4 DEF nextAfrCycleHasStarted
    <3>4. /\ DOMAIN ego' = DOMAIN ego /\ ego'.correction = c /\ ego'.waited = 2 /\ ego'.since = 0
          /\ ego'.AFRnextCycle = (ego.ignitionCount + 2) % 8 /\ ego'.ignitionCount = ego.ignitionCount
      BY <3>1, <3>3
    <3> QED BY <3>2, <3>4
  <2> QED BY <2>2, <2>3, <2>4
<1> QED BY <1>1, <1>2, <1>3, <1>4

\* The cut on the overrun: the delay is behind the time the overrun has
\* lasted, and the taper and the time of the cut make up a whole taper.
DfcoFields == {"isDFCOActive", "dfcoDelay", "dfcoTaper", "cut", "heldFor", "activeFor"}
DfcoState(d) ==
  /\ DOMAIN d = DfcoFields
  /\ d.dfcoDelay \in 0..dfcoDelay /\ d.dfcoTaper \in 0..dfcoTaperTime
  /\ d.heldFor \in 0..Ever /\ d.activeFor \in 0..Ever

DfcoInv ==
  /\ DfcoState(dfco)
  /\ ~corrConfig.dfcoEnabled => ~dfco.isDFCOActive /\ dfco.dfcoDelay = 0
  /\ IF dfco.isDFCOActive THEN dfco.heldFor >= dfcoDelay ELSE dfco.dfcoDelay <= dfco.heldFor
  /\ corrConfig.dfcoTaperEnable =>
       /\ IF dfco.isDFCOActive THEN dfco.activeFor + dfco.dfcoTaper >= dfcoTaperTime
          ELSE dfco.dfcoTaper = dfcoTaperTime \/ dfco.dfcoDelay = 0
       /\ dfco.cut => dfco.isDFCOActive /\ dfco.dfcoTaper = 0

LEMMA DfcoPreserves ==
  ASSUME DfcoInv, UNCHANGED corrConfig,
         \/ UNCHANGED dfco
         \/ dfco' = correctionDFCOignition(dfco)
         \/ \E timers \in PassTimes : correctionsFuel(timers)
  PROVE  DfcoInv'
<1> USE DEF DfcoInv, DfcoState, DfcoFields, Ever, dfcoDelay, dfcoTaperTime
<1>1. CASE UNCHANGED dfco
  BY <1>1
<1>2. CASE dfco' = correctionDFCOignition(dfco)
  BY <1>2 DEF correctionDFCOignition
<1>3. ASSUME NEW timers \in PassTimes, correctionsFuel(timers)
      PROVE  DfcoInv'
  <2> DEFINE tenth == "10HZ" \in timers
  <2>1. PICK ase : dfco' = overrunHistory(dfco,
                     correctionDFCOfuel(correctionDFCO(dfco, ase, timers), timers), ase, timers)
    BY <1>3 DEF correctionsFuel
  <2> DEFINE c == correctionDFCO(dfco, ase, timers)
             f == correctionDFCOfuel(c, timers)
  \* Deciding: one that begins has had its delay, and one that ends forgets it.
  <2>2. /\ DOMAIN c = DfcoFields /\ c.dfcoDelay \in 0..1
        /\ c.heldFor = dfco.heldFor /\ c.activeFor = dfco.activeFor
        /\ c.dfcoTaper = dfco.dfcoTaper /\ c.cut = dfco.cut
        /\ ~corrConfig.dfcoEnabled => ~c.isDFCOActive /\ c.dfcoDelay = 0
        /\ c.isDFCOActive /\ ~dfco.isDFCOActive => dfco.dfcoDelay = 1 /\ overrun(ase)
        /\ ~c.isDFCOActive => \/ c.dfcoDelay = 0
                              \/ /\ ~dfco.isDFCOActive /\ overrun(ase)
                                 /\ c.dfcoDelay = 1 /\ dfco.dfcoDelay = 0 /\ tenth
    <3>1. CASE ~corrConfig.dfcoEnabled
      BY <3>1 DEF correctionDFCO
    <3>2. CASE corrConfig.dfcoEnabled /\ dfco.isDFCOActive
      <4> DEFINE stays == rpm > dfcoRPM /\ reading.tps = 0
      <4>1. c = [dfco EXCEPT !.isDFCOActive = stays, !.dfcoDelay = IF stays THEN @ ELSE 0]
        BY <3>2 DEF correctionDFCO
      <4>2. stays \in BOOLEAN
        OBVIOUS
      <4> HIDE DEF stays, c
      <4> QED BY <3>2, <4>1, <4>2
    <3>3. CASE corrConfig.dfcoEnabled /\ ~dfco.isDFCOActive
      <4>1. c = IF ~overrun(ase) THEN [dfco EXCEPT !.dfcoDelay = 0]
                ELSE IF dfco.dfcoDelay < dfcoDelay THEN [dfco EXCEPT !.dfcoDelay = NextTenth(@, timers)]
                ELSE [dfco EXCEPT !.isDFCOActive = TRUE]
        BY <3>3 DEF correctionDFCO
      <4> HIDE DEF c
      <4> QED BY <3>3, <4>1 DEF NextTenth
    <3> QED BY <3>1, <3>2, <3>3
  <2> HIDE DEF c
  \* Cutting, after the taper.
  <2>3. /\ DOMAIN f = DfcoFields /\ f.isDFCOActive = c.isDFCOActive /\ f.dfcoDelay = c.dfcoDelay
        /\ f.heldFor = c.heldFor /\ f.activeFor = c.activeFor
        /\ f.dfcoTaper \in 0..2
        /\ ~c.isDFCOActive => f.dfcoTaper = 2 /\ ~f.cut
        /\ c.isDFCOActive => f.dfcoTaper >= c.dfcoTaper - (IF tenth THEN 1 ELSE 0)
        /\ corrConfig.dfcoTaperEnable /\ f.cut => c.isDFCOActive /\ f.dfcoTaper = 0
    BY <2>2 DEF correctionDFCOfuel
  <2> HIDE DEF f
  <2>4. /\ DOMAIN dfco' = DfcoFields /\ dfco'.isDFCOActive = f.isDFCOActive
        /\ dfco'.dfcoDelay = f.dfcoDelay /\ dfco'.dfcoTaper = f.dfcoTaper /\ dfco'.cut = f.cut
        /\ dfco'.heldFor = IF dfco.isDFCOActive /\ f.isDFCOActive THEN f.heldFor
                           ELSE Longer(f.heldFor, overrun(ase) /\ ~dfco.isDFCOActive, tenth)
        /\ dfco'.activeFor = Longer(f.activeFor, f.isDFCOActive, tenth)
    BY <2>1, <2>3 DEF overrunHistory, c, f
  <2>5. DfcoState(dfco)'
    BY <2>2, <2>3, <2>4 DEF Longer, Least
  <2>6. /\ ~corrConfig.dfcoEnabled => ~dfco'.isDFCOActive /\ dfco'.dfcoDelay = 0
        /\ IF dfco'.isDFCOActive THEN dfco'.heldFor >= 1 ELSE dfco'.dfcoDelay <= dfco'.heldFor
    BY <2>2, <2>3, <2>4 DEF Longer, Least
  <2>7. corrConfig.dfcoTaperEnable =>
          /\ IF dfco'.isDFCOActive THEN dfco'.activeFor + dfco'.dfcoTaper >= 2
             ELSE dfco'.dfcoTaper = 2 \/ dfco'.dfcoDelay = 0
          /\ dfco'.cut => dfco'.isDFCOActive /\ dfco'.dfcoTaper = 0
    BY <2>2, <2>3, <2>4 DEF Longer, Least
  <2> QED BY <2>5, <2>6, <2>7
<1> QED BY <1>1, <1>2, <1>3

\* Knock control with a digital sensor.
KnockFields == {"count", "active", "pulse", "retard", "age", "lastStep", "answered", "seen"}
Steps(n) == IF n < knock_duration THEN 0 ELSE n - knock_duration

\* After a pass (seen = age) or between passes.
KnockState(k) ==
  /\ DOMAIN k = KnockFields
  /\ k.count \in Nat /\ k.age \in 0..KnockTime
  /\ k.active => /\ k.count >= knock_count /\ k.seen \in 0..k.age
                 /\ k.answered \in Int
                 /\ k.lastStep = Steps(k.seen) /\ k.retard = k.answered - k.lastStep

KnockInv == corrConfig.knock_mode = "DIGITAL" => KnockState(knock)

LEMMA Answered ==
  ASSUME NEW k, DOMAIN k = KnockFields, k.count \in Nat, k.count >= knock_count, NEW retard \in Int
  PROVE  /\ DOMAIN answer(k, retard) = KnockFields /\ answer(k, retard).count = k.count
         /\ answer(k, retard).active /\ answer(k, retard).age = 0 /\ answer(k, retard).lastStep = 0
         /\ answer(k, retard).retard = retard /\ answer(k, retard).answered = retard
BY DEF answer, KnockFields

LEMMA RetardIsInt == ASSUME NEW n \in Nat PROVE retardFor(n) \in Int
BY DEF retardFor, Least, knock_firstStep, knock_count, knock_stepSize, knock_maxRetard

\* A pass leaves a retard that belongs to the age it has seen.
LEMMA KnockPass ==
  ASSUME NEW k, KnockState(k), NEW timers, corrConfig.knock_mode = "DIGITAL",
         NEW x \in correctionKnockTiming(k, timers)
  PROVE  KnockState(x)
<1> USE DEF KnockState, knock_duration, knock_count, KnockTime
<1> DEFINE further == furtherKnock(k)
           recovered == calculateKnockRecovery(further, further.retard)
           after == CASE k.count < knock_count -> [k EXCEPT !.retard = 0]
                      [] k.count >= knock_count /\ ~k.active -> answer(k, retardFor(k.count))
                      [] OTHER -> recovered
           Done(a) == /\ DOMAIN a = KnockFields /\ a.count \in Nat /\ a.age \in 0..KnockTime
                      /\ a.active => /\ a.count >= knock_count /\ a.answered \in Int
                                     /\ a.lastStep = Steps(a.age) /\ a.retard = a.answered - a.lastStep
           Recovering(a) == /\ DOMAIN a = KnockFields /\ a.active
                            /\ a.count \in Nat /\ a.count >= knock_count /\ a.age \in 0..KnockTime
                            /\ a.lastStep \in 0..Steps(a.age)
                            /\ a.answered \in Int /\ a.retard = a.answered - a.lastStep
<1>1. Done([k EXCEPT !.retard = 0]) \/ k.count >= knock_count
  BY DEF KnockFields
<1>2. k.count >= knock_count => Done(answer(k, retardFor(k.count)))
  <2> SUFFICES ASSUME k.count >= knock_count PROVE Done(answer(k, retardFor(k.count)))
    OBVIOUS
  <2>1. retardFor(k.count) \in Int
    BY RetardIsInt
  <2> DEFINE retard == retardFor(k.count)
             a == answer(k, retard)
  <2>2. /\ DOMAIN a = KnockFields /\ a.count = k.count /\ a.active /\ a.age = 0 /\ a.lastStep = 0
        /\ a.retard = retard /\ a.answered = retard
    BY <2>1, Answered
  <2> HIDE DEF retard, a
  <2>3. Done(a)
    BY <2>1, <2>2 DEF Steps, retard
  <2> QED BY <2>3 DEF a, retard
<1>3. ASSUME k.active PROVE Done(recovered)
  <2>1. Recovering(further)
    <3>1. CASE ~k.pulse \/ k.age < knock_stepTime \/ k.count >= MaxKnocks
      BY <1>3, <3>1 DEF furtherKnock, Steps
    <3>2. CASE ~(~k.pulse \/ k.age < knock_stepTime \/ k.count >= MaxKnocks)
      <4> DEFINE j == [k EXCEPT !.count = @ + 1]
      <4>1. further = answer(j, retardFor(k.count + 1))
        BY <3>2 DEF furtherKnock
      <4>2. DOMAIN j = KnockFields /\ j.count = k.count + 1 /\ j.seen = k.seen
        BY DEF KnockFields
      <4> HIDE DEF j
      <4>3. retardFor(k.count + 1) \in Int
        BY RetardIsInt
      <4> DEFINE retard == retardFor(k.count + 1)
      <4>4. j.count \in Nat /\ j.count >= knock_count /\ DOMAIN j = KnockFields /\ retard \in Int
        BY <1>3, <4>2, <4>3
      <4> HIDE DEF retard
      <4>5. /\ DOMAIN answer(j, retard) = KnockFields /\ answer(j, retard).count = j.count
            /\ answer(j, retard).active /\ answer(j, retard).age = 0 /\ answer(j, retard).lastStep = 0
            /\ answer(j, retard).retard = retard /\ answer(j, retard).answered = retard
        BY <4>4, Answered
      <4>6. further = answer(j, retard)
        BY <4>1 DEF retard
      <4> HIDE DEF further
      <4> QED BY <1>3, <4>2, <4>4, <4>5, <4>6 DEF Steps
    <3> QED BY <3>1, <3>2
  <2> HIDE DEF further
  <2>2. Done(recovered)
    <3> DEFINE steps == (further.age - knock_duration) \div knock_recoveryStepTime
               back == IF steps > further.lastStep THEN (steps - further.lastStep) * knock_recoveryStep ELSE 0
               last == IF steps > further.lastStep THEN steps ELSE further.lastStep
    <3>1. CASE further.age < knock_duration
      <4>1. recovered = [further EXCEPT !.retard = further.retard]
        BY <3>1 DEF calculateKnockRecovery
      <4> QED BY <2>1, <3>1, <4>1 DEF KnockFields, Steps
    <3>2. CASE ~(further.age < knock_duration) /\ back < further.retard
      <4>1. recovered = [further EXCEPT !.retard = @ - back, !.lastStep = last]
        BY <3>2 DEF calculateKnockRecovery
      <4>2. steps = Steps(further.age)
        BY <2>1, <3>2 DEF Steps, knock_recoveryStepTime
      <4> HIDE DEF steps
      <4>3. last = steps /\ back = steps - further.lastStep
        BY <2>1, <4>2 DEF Steps, knock_recoveryStep
      <4> HIDE DEF back, last
      <4>4. /\ DOMAIN recovered = KnockFields /\ recovered.count = further.count
            /\ recovered.age = further.age /\ recovered.answered = further.answered
            /\ recovered.lastStep = last /\ recovered.retard = further.retard - back
        BY <2>1, <4>1 DEF KnockFields
      <4> QED BY <2>1, <4>2, <4>3, <4>4 DEF Steps
    <3>3. CASE ~(further.age < knock_duration) /\ ~(back < further.retard)
      <4>1. recovered = [initialKnock EXCEPT !.count = 0, !.pulse = further.pulse]
        BY <3>3 DEF calculateKnockRecovery
      <4>2. DOMAIN initialKnock = KnockFields /\ ~initialKnock.active /\ initialKnock.age = 0
        BY DEF initialKnock, KnockFields
      <4>3. /\ DOMAIN recovered = KnockFields /\ recovered.count = 0 /\ ~recovered.active
            /\ recovered.age = 0
        BY <4>1, <4>2 DEF KnockFields
      <4> HIDE DEF recovered
      <4> QED BY <4>3
    <3> QED BY <3>1, <3>2, <3>3
  <2> QED BY <2>2
<1>4. Done(after)
  <2> HIDE DEF recovered, Done
  <2>1. CASE k.count < knock_count
    <3>1. after = [k EXCEPT !.retard = 0]
      BY <2>1
    <3> HIDE DEF after
    <3> QED BY <1>1, <2>1, <3>1
  <2>2. CASE k.count >= knock_count /\ ~k.active
    <3>1. after = answer(k, retardFor(k.count))
      BY <2>2
    <3> HIDE DEF after
    <3> QED BY <1>2, <2>2, <3>1
  <2>3. CASE k.count >= knock_count /\ k.active
    <3>1. after = recovered
      BY <2>3
    <3> HIDE DEF after
    <3> QED BY <1>3, <2>3, <3>1
  <2> QED BY <2>1, <2>2, <2>3
<1>5. x = [[after EXCEPT !.pulse = FALSE] EXCEPT !.seen = after.age]
  <2>1. digitalKnock(k) = [after EXCEPT !.pulse = FALSE]
    BY DEF digitalKnock
  <2>2. x = [digitalKnock(k) EXCEPT !.seen = digitalKnock(k).age]
    BY DEF correctionKnockTiming
  <2> HIDE DEF after
  <2> QED BY <1>4, <2>1, <2>2 DEF KnockFields
<1> HIDE DEF after
<1> QED BY <1>4, <1>5 DEF KnockFields, Steps

LEMMA KnockPreserves ==
  ASSUME KnockInv, UNCHANGED corrConfig,
         \/ UNCHANGED knock
         \/ knockPulse \/ CorrectionTime
         \/ CorrectionsStopped
         \/ \E timers \in PassTimes : knock' \in knockAfter(timers)
  PROVE  KnockInv'
<1> SUFFICES ASSUME corrConfig.knock_mode = "DIGITAL", KnockState(knock) PROVE KnockState(knock')
  BY DEF KnockInv
<1>1. CASE UNCHANGED knock
  BY <1>1
<1>2. CASE knockPulse
  BY <1>2 DEF knockPulse, KnockState, KnockFields, knock_count
<1>3. CASE CorrectionTime
  BY <1>3 DEF CorrectionTime, KnockState, KnockFields, Least, KnockTime
<1>4. CASE CorrectionsStopped
  <2> DEFINE k == [knock EXCEPT !.active = FALSE, !.pulse = FALSE, !.count = 1, !.lastStep = 0,
                                !.age = KnockTime]
  <2>1. KnockState(k)
    BY DEF KnockState, KnockFields, KnockTime
  <2>2. knock' \in correctionKnockTiming(k, {})
    BY <1>4 DEF CorrectionsStopped
  <2> HIDE DEF k
  <2> QED BY <2>1, <2>2, KnockPass
<1>5. ASSUME NEW timers \in PassTimes, knock' \in knockAfter(timers)
      PROVE  KnockState(knock')
  <2>1. \/ knock' \in correctionKnockTiming(knock, timers)
        \/ \E k \in correctionKnockTiming(knock, timers) : knock' \in correctionKnockTiming(k, timers)
    BY <1>5 DEF knockAfter
  <2> QED BY <2>1, KnockPass
<1> QED BY <1>1, <1>2, <1>3, <1>4, <1>5

-----------------------------------------------------------------------------
(* The programmable outputs.                                               *)

\* What checkRules chooses exists: the rules before a rule give its statuses.
LEMMA RulesInOrder ==
  ASSUME rules \in Seq(RuleSettings), NEW before
  PROVE  checkRules(before) =
           [y \in DOMAIN rules |-> checkRule(rules[y], before[y], statusesFor(y, before, checkRules(before)))]
<1> DEFINE step(f) == [y \in DOMAIN rules |-> checkRule(rules[y], before[y], statusesFor(y, before, f))]
           upTo(n) == \E f : /\ f = [y \in DOMAIN rules |-> f[y]]
                             /\ \A y \in DOMAIN rules : y <= n => f[y] = step(f)[y]
           N == Len(rules)
           Bad == {n \in 0..N : ~upTo(n)}
<1>1. N \in Nat /\ DOMAIN rules = 1..N
  OBVIOUS
<1>2. upTo(0)
  <2> DEFINE f == [y \in DOMAIN rules |-> 0]
  <2>1. f = [y \in DOMAIN rules |-> f[y]] /\ \A y \in DOMAIN rules : y <= 0 => f[y] = step(f)[y]
    BY <1>1
  <2> QED BY <2>1
<1>3. ASSUME NEW n \in 1..N, upTo(n - 1)
      PROVE  upTo(n)
  <2>1. PICK f : /\ f = [y \in DOMAIN rules |-> f[y]]
                 /\ \A y \in DOMAIN rules : y <= n - 1 => f[y] = step(f)[y]
    BY <1>3
  <2> DEFINE g == [y \in DOMAIN rules |-> IF y = n THEN step(f)[y] ELSE f[y]]
  <2>2. \A y \in DOMAIN rules : y <= n => statusesFor(y, before, g) = statusesFor(y, before, f)
    BY <1>1 DEF statusesFor
  <2>3. \A y \in DOMAIN rules : y <= n => step(g)[y] = step(f)[y]
    BY <2>2
  <2>4. \A y \in DOMAIN rules : y <= n => g[y] = step(f)[y]
    <3> HIDE DEF step
    <3> QED BY <1>1, <2>1
  <2>5. g = [y \in DOMAIN rules |-> g[y]]
    <3> HIDE DEF step
    <3> QED OBVIOUS
  <2> HIDE DEF g, step
  <2> QED BY <2>3, <2>4, <2>5
<1> HIDE DEF upTo
<1>4. upTo(N)
  <2> SUFFICES ASSUME ~upTo(N) PROVE FALSE
    OBVIOUS
  <2>1. Bad # {} /\ Bad \subseteq Nat
    BY <1>1
  <2>2. PICK n \in Bad : \A m \in Bad : n <= m
    <3> HIDE DEF Bad
    <3>1. PICK k \in Bad : \A m \in Bad : <<m, k>> \notin OpToRel(<, Nat)
      BY <2>1, WFMin, NatLessThanWellFounded, Zenon
    <3>2. ASSUME NEW m \in Bad PROVE k <= m
      <4>1. m \in Nat /\ k \in Nat
        BY <2>1, <3>1
      <4> DEFINE p == <<m, k>>
      <4>2. p \in Nat \X Nat /\ p[1] = m /\ p[2] = k
        BY <4>1
      <4>3. p \in Nat \X Nat /\ p[1] < p[2] => p \in OpToRel(<, Nat)
        BY Zenon DEF OpToRel
      <4>4. ~(m < k)
        BY <3>1, <3>2, <4>2, <4>3
      <4> QED BY <4>1, <4>4
    <3> QED BY <3>2
  <2>3. n \in 1..N
    BY <1>1, <1>2, <2>2
  <2>4. upTo(n - 1)
    BY <1>1, <2>2, <2>3
  <2> QED BY <1>3, <2>2, <2>3, <2>4
<1>5. \E f : f = step(f)
  <2>1. PICK f : /\ f = [y \in DOMAIN rules |-> f[y]]
                 /\ \A y \in DOMAIN rules : y <= N => f[y] = step(f)[y]
    BY <1>4 DEF upTo
  <2>2. \A y \in DOMAIN rules : f[y] = step(f)[y]
    BY <1>1, <2>1
  <2>3. f = step(f)
    BY <2>1, <2>2
  <2> QED BY <2>3
<1>6. checkRules(before) = CHOOSE f : f = step(f)
  BY DEF checkRules
<1> HIDE DEF step
<1>7. checkRules(before) = step(checkRules(before))
  BY <1>5, <1>6
<1> QED BY <1>7 DEF step

\* What is kept of a rule: its output is on for less than its limit, and it was
\* switched on with its condition held for longer than its delay.
RuleInv(r, o, n) ==
  /\ DOMAIN o = {"valid", "ioDelay", "ioOutDelay", "status", "used", "pin"}
  /\ DOMAIN n = {"held", "active"}
  /\ o.ioDelay \in 0..r.outputDelay /\ o.ioOutDelay \in Nat /\ o.status \in BOOLEAN
  /\ n.held \in 0..(r.outputDelay + 1) /\ n.active \in 0..(r.outputTimeLimit + 2)
  /\ o.valid /\ ~r.outputInverted =>
       /\ o.ioDelay <= n.held
       /\ n.active = 0 <=> ~o.status
       /\ n.active = 1 => n.held > r.outputDelay
       /\ r.kindOfLimiting /\ r.outputTimeLimit > 0 /\ o.status =>
            o.ioDelay = r.outputDelay /\ n.active <= o.ioOutDelay + 1 /\ o.ioOutDelay <= r.outputTimeLimit

LEMMA SettingTypes ==
  ASSUME NEW r \in RuleSettings
  PROVE  /\ r.kindOfLimiting \in BOOLEAN /\ r.outputInverted \in BOOLEAN
         /\ r.outputTimeLimit \in Nat /\ r.outputDelay \in Nat
BY DEF RuleSettings, Bytes

\* The limit is never what switches an output on, and it ends one whose time is
\* over.
LEMMA LimitEnds ==
  ASSUME NEW r \in RuleSettings, NEW n, NEW o, RuleInv(r, o, n), NEW check
  PROVE  LET l == limit(r, o, check) IN
         /\ DOMAIN l.o = DOMAIN o /\ l.o.ioOutDelay \in Nat
         /\ l.o.valid = o.valid /\ l.o.ioDelay = o.ioDelay /\ l.o.status = o.status
         /\ l.check => check /\ l.o.ioOutDelay = o.ioOutDelay
         /\ r.kindOfLimiting /\ r.outputTimeLimit > 0 =>
              /\ l.check => l.o.ioOutDelay < r.outputTimeLimit
              /\ o.status /\ ~l.check => ~(l.o.ioOutDelay < r.outputTimeLimit)
<1> USE DEF RuleInv
<1> DEFINE l == limit(r, o, check)
<1>1. r.kindOfLimiting \in BOOLEAN /\ r.outputTimeLimit \in Nat
  BY SettingTypes
<1>2. CASE ~r.kindOfLimiting
  <2>1. l = [check |-> check, o |-> o]
    BY <1>1, <1>2 DEF limit
  <2> HIDE DEF l
  <2>2. (l.check <=> check) /\ l.o = o
    BY <2>1
  <2> QED BY <1>2, <2>2 DEF l
<1>3. CASE r.kindOfLimiting /\ check
  <2>1. l = [check |-> r.outputTimeLimit = 0 \/ o.ioOutDelay < r.outputTimeLimit, o |-> o]
    BY <1>1, <1>3 DEF limit
  <2> HIDE DEF l
  <2>2. (l.check <=> r.outputTimeLimit = 0 \/ o.ioOutDelay < r.outputTimeLimit) /\ l.o = o
    BY <2>1
  <2>3. l.check => check
    BY <1>3
  <2>4. r.outputTimeLimit > 0 => (l.check <=> l.o.ioOutDelay < r.outputTimeLimit)
    BY <1>1, <2>2
  <2> QED BY <1>3, <2>2, <2>3, <2>4 DEF l
<1>4. CASE r.kindOfLimiting /\ ~check
  <2> DEFINE x == IF o.status THEN r.outputTimeLimit ELSE 0
  <2>1. l = [check |-> FALSE, o |-> [o EXCEPT !.ioOutDelay = x]]
    BY <1>1, <1>4 DEF limit
  <2>2. l.check = FALSE /\ l.o = [o EXCEPT !.ioOutDelay = x]
    BY <2>1
  <2>3. x \in Nat /\ (o.status => x = r.outputTimeLimit)
    BY <1>1
  <2> HIDE DEF x, l
  <2> QED BY <1>1, <1>4, <2>2, <2>3 DEF l
<1> QED BY <1>1, <1>2, <1>3, <1>4

\* A call keeps what is kept of a rule.
LEMMA RulePasses ==
  ASSUME NEW r \in RuleSettings, NEW o, NEW n, RuleInv(r, o, n), NEW used
  PROVE  RuleInv(r, checkRule(r, o, used),
                 [held |-> Count(holds(r, used), n.held, r.outputDelay + 1),
                  active |-> Count(active(r, checkRule(r, o, used)), n.active, r.outputTimeLimit + 2)])
<1> DEFINE l == limit(r, o, holds(r, used))
           p == checkRule(r, o, used)
           m == [held |-> Count(holds(r, used), n.held, r.outputDelay + 1),
                 active |-> Count(active(r, p), n.active, r.outputTimeLimit + 2)]
           Shape(q) == DOMAIN q = {"valid", "ioDelay", "ioOutDelay", "status", "used", "pin"}
<1>1. /\ r.kindOfLimiting \in BOOLEAN /\ r.outputInverted \in BOOLEAN
      /\ r.outputTimeLimit \in Nat /\ r.outputDelay \in Nat
  BY SettingTypes
<1>2. /\ DOMAIN m = {"held", "active"}
      /\ m.held \in 0..(r.outputDelay + 1) /\ m.active \in 0..(r.outputTimeLimit + 2)
      /\ holds(r, used) => m.held = n.held + 1 \/ m.held = r.outputDelay + 1
      /\ m.active = 0 <=> ~active(r, p)
      /\ m.active = 1 => n.active = 0
      /\ m.active <= n.active + 1
  BY <1>1 DEF RuleInv, Count
<1>3. ~r.outputInverted /\ p.status \in BOOLEAN => (active(r, p) <=> p.status)
  BY <1>1 DEF active
<1>4. ASSUME ~o.valid
      PROVE  RuleInv(r, p, m)
  <2>1. p = o
    BY <1>4 DEF checkRule
  <2> HIDE DEF p, m
  <2>2. RuleInv(r, p, m)
    BY <1>2, <1>4, <1>3, <2>1 DEF RuleInv
  <2> QED BY <2>2
<1>5. /\ Shape(l.o) /\ l.o.ioOutDelay \in Nat
      /\ l.o.valid = o.valid /\ l.o.ioDelay = o.ioDelay /\ l.o.status = o.status
      /\ l.check => holds(r, used) /\ l.o.ioOutDelay = o.ioOutDelay
      /\ r.kindOfLimiting /\ r.outputTimeLimit > 0 =>
           /\ l.check => l.o.ioOutDelay < r.outputTimeLimit
           /\ o.status /\ ~l.check => ~(l.o.ioOutDelay < r.outputTimeLimit)
  BY LimitEnds DEF RuleInv
<1> HIDE DEF l, m
<1>6. ASSUME o.valid, l.check, l.o.ioDelay < r.outputDelay
      PROVE  RuleInv(r, p, m)
  <2>1. p = [l.o EXCEPT !.ioDelay = l.o.ioDelay + 1]
    BY <1>6 DEF checkRule, activate, l
  <2>2. /\ Shape(p) /\ p.ioDelay = o.ioDelay + 1 /\ p.ioOutDelay = o.ioOutDelay
        /\ p.status = o.status /\ p.valid = o.valid
    BY <1>5, <1>6, <2>1
  <2> HIDE DEF p
  <2> QED BY <1>1, <1>2, <1>5, <1>6, <1>3, <2>2 DEF RuleInv
<1>7. ASSUME o.valid, l.check, ~(l.o.ioDelay < r.outputDelay)
      PROVE  RuleInv(r, p, m)
  <2> DEFINE counted == l.o.status /\ l.o.ioOutDelay < r.outputTimeLimit
             x == IF counted THEN l.o.ioOutDelay + 1 ELSE l.o.ioOutDelay
             w == [l.o EXCEPT !.ioOutDelay = x]
  <2>1. p = write(r, w, TRUE)
    BY <1>7 DEF checkRule, activate, l
  <2>2. x \in Nat /\ (counted => x = o.ioOutDelay + 1) /\ (~counted => x = o.ioOutDelay)
    BY <1>5, <1>7
  <2>3. Shape(w) /\ w.ioOutDelay = x /\ w.ioDelay = o.ioDelay /\ w.valid = o.valid
    BY <1>5
  <2> HIDE DEF p, w, x
  <2>4. Shape(p) /\ p.ioOutDelay = x /\ p.ioDelay = o.ioDelay /\ p.valid = o.valid
    BY <2>1, <2>3 DEF write
  <2>5. p.status \in BOOLEAN /\ (~r.outputInverted => p.status)
    <3>1. p.status = (TRUE # r.outputInverted)
      BY <2>1, <2>3 DEF write
    <3> QED BY <1>1, <3>1
  <2>6. ~r.outputInverted /\ r.kindOfLimiting /\ r.outputTimeLimit > 0 =>
          m.active <= x + 1 /\ x <= r.outputTimeLimit
    BY <1>1, <1>2, <1>5, <1>7, <1>3, <2>2, <2>4, <2>5 DEF RuleInv
  <2> QED BY <1>1, <1>2, <1>5, <1>7, <1>3, <2>2, <2>4, <2>5, <2>6 DEF RuleInv
<1>8. ASSUME o.valid, ~l.check
      PROVE  RuleInv(r, p, m)
  <2> DEFINE over == ~(l.o.ioOutDelay < r.outputTimeLimit)
  <2>1. p = release(r, l.o)
    BY <1>8 DEF checkRule, l
  <2>2. CASE over
    <3>1. Shape(p) /\ p.ioDelay = 0 /\ p.ioOutDelay \in Nat /\ p.valid = o.valid
      BY <1>1, <1>5, <2>1, <2>2 DEF release, write
    <3>2. p.status \in BOOLEAN /\ (~r.outputInverted => ~p.status)
      <4>1. p.status = (FALSE # r.outputInverted)
        BY <1>1, <1>5, <2>1, <2>2 DEF release, write
      <4> HIDE DEF p
      <4> QED BY <1>1, <4>1
    <3> HIDE DEF p
    <3> QED BY <1>1, <1>2, <1>5, <1>8, <2>2, <1>3, <3>1, <3>2 DEF RuleInv
  <2>3. CASE ~over
    <3>1. /\ Shape(p) /\ p.ioDelay = 0 /\ p.ioOutDelay = l.o.ioOutDelay + 1 /\ p.valid = o.valid
          /\ p.status = o.status
      BY <1>1, <1>5, <2>1, <2>3 DEF release
    <3> HIDE DEF p
    <3> QED BY <1>1, <1>2, <1>5, <1>8, <1>3, <2>3, <3>1 DEF RuleInv
  <2> QED BY <2>2, <2>3
<1> HIDE DEF p
<1>9. RuleInv(r, p, m)
  BY <1>4, <1>6, <1>7, <1>8
<1> QED BY <1>9 DEF p, m

RulesInv ==
  /\ rules \in Seq(RuleSettings)
  /\ \A y \in DOMAIN rules : RuleInv(rules[y], outputs[y], outputFor[y])

LEMMA RulesPreserves ==
  ASSUME RulesInv, UNCHANGED ruleVars \/ checkProgrammableIO
  PROVE  RulesInv'
<1>1. CASE UNCHANGED ruleVars
  BY <1>1 DEF RulesInv, ruleVars
<1>2. CASE checkProgrammableIO
  <2>1. UNCHANGED rules /\ rules \in Seq(RuleSettings)
    BY <1>2 DEF checkProgrammableIO, RulesInv
  <2> SUFFICES ASSUME NEW y \in DOMAIN rules
               PROVE  RuleInv(rules[y], outputs'[y], outputFor'[y])
    BY <2>1 DEF RulesInv
  <2> DEFINE used == statusesFor(y, outputs, outputs')
  <2>2. outputs'[y] = checkRule(rules[y], outputs[y], used)
    <3>1. outputs' = checkRules(outputs)
      BY <1>2 DEF checkProgrammableIO
    <3>2. checkRules(outputs) =
            [z \in DOMAIN rules |->
               checkRule(rules[z], outputs[z], statusesFor(z, outputs, checkRules(outputs)))]
      BY <2>1, RulesInOrder
    <3> QED BY <3>1, <3>2
  <2>3. outputFor'[y] =
          [held |-> Count(holds(rules[y], used), outputFor[y].held, rules[y].outputDelay + 1),
           active |-> Count(active(rules[y], outputs'[y]), outputFor[y].active,
                            rules[y].outputTimeLimit + 2)]
    BY <1>2 DEF checkProgrammableIO
  <2>4. rules[y] \in RuleSettings /\ RuleInv(rules[y], outputs[y], outputFor[y])
    BY <2>1 DEF RulesInv
  <2> HIDE DEF used
  <2> QED BY <2>2, <2>3, <2>4, RulePasses
<1> QED BY <1>1, <1>2

LEMMA RulesStart ==
  ASSUME NEW programs \in SUBSET Seq(RuleSettings), RulesInit(programs)
  PROVE  RulesInv
<1>1. rules \in Seq(RuleSettings)
  BY DEF RulesInit
<1> SUFFICES ASSUME NEW y \in DOMAIN rules
             PROVE  RuleInv(rules[y], outputs[y], outputFor[y])
  BY <1>1 DEF RulesInv
<1> DEFINE r == rules[y]  o == outputs[y]  n == outputFor[y]
<1>2. r.outputInverted \in BOOLEAN /\ r.outputTimeLimit \in Nat /\ r.outputDelay \in Nat
  <2>1. r \in RuleSettings
    BY <1>1
  <2> QED BY <2>1, SettingTypes
<1>3. o = [valid |-> r.outputPin \in {"pin", "rule"}, ioDelay |-> 0, ioOutDelay |-> 0,
           status |-> r.outputPin # "none" /\ r.outputInverted, used |-> FALSE,
           pin |-> r.outputPin = "pin" /\ r.outputInverted]
  BY DEF RulesInit, initialiseProgrammableIO
<1>4. n = [held |-> 0, active |-> 0]
  BY DEF RulesInit
<1> HIDE DEF r, o, n
<1>5. /\ DOMAIN o = {"valid", "ioDelay", "ioOutDelay", "status", "used", "pin"}
      /\ o.ioDelay = 0 /\ o.ioOutDelay = 0 /\ o.status \in BOOLEAN /\ (~r.outputInverted => ~o.status)
  BY <1>3
<1>6. DOMAIN n = {"held", "active"} /\ n.held = 0 /\ n.active = 0
  BY <1>4
<1>7. RuleInv(r, o, n)
  BY <1>2, <1>5, <1>6 DEF RuleInv
<1> QED BY <1>7 DEF r, o, n

LEMMA RulesKept ==
  ASSUME RulesInv
  PROVE  RulesTimed
<1> SUFFICES ASSUME NEW y \in DOMAIN rules, outputs[y].valid, ~rules[y].outputInverted
             PROVE  /\ outputFor[y].active = 1 => outputFor[y].held > rules[y].outputDelay
                    /\ rules[y].kindOfLimiting /\ rules[y].outputTimeLimit > 0 =>
                         outputFor[y].active <= rules[y].outputTimeLimit + 1
  BY DEF RulesTimed
<1> DEFINE r == rules[y]  o == outputs[y]  n == outputFor[y]
<1>1. RuleInv(r, o, n) /\ r.outputTimeLimit \in Nat
  <2>1. r \in RuleSettings /\ RuleInv(r, o, n)
    BY DEF RulesInv
  <2> QED BY <2>1, SettingTypes
<1> HIDE DEF r, o, n
<1>2. o.valid /\ ~r.outputInverted
  BY DEF r, o
<1>3. /\ n.active = 1 => n.held > r.outputDelay
      /\ r.kindOfLimiting /\ r.outputTimeLimit > 0 => n.active <= r.outputTimeLimit + 1
  BY <1>1, <1>2 DEF RuleInv
<1> QED BY <1>3 DEF r, n

-----------------------------------------------------------------------------
(* The limits of the engine.                                               *)

\* What a timer has left and what the checks have seen of it make its whole.
Timed(left, seenFor, whole) ==
  \/ left = NotSet /\ seenFor = NotSet
  \/ left \in Nat /\ seenFor \in Nat /\ left + seenFor = whole

SeenFields == {"lowFor", "leanFor", "zone", "at", "limited", "onLimit"}

\* A flag that waits is up only when its timer is down.
LimitsInv ==
  /\ rpm \in Speeds
  /\ DOMAIN launch = {"clutchTrigger", "previousClutchTrigger", "clutchEngagedRPM", "launchingHard", "flatShiftingHard"}
  /\ launch.clutchEngagedRPM \in Speeds
  /\ limitConfig \in LimitConfigs
  /\ DOMAIN seen = SeenFields
  /\ Timed(oilLeft, seen.lowFor, limitConfig.oilPressureProtTime)
  /\ Timed(afrLeft, seen.leanFor, limitConfig.afrProtectCutTime)
  /\ engineProtect.oil => oilLeft = 0
  /\ engineProtect.afr \/ afrActive => afrLeft = 0
  /\ LimitsTimed

\* The four numbers of a pass and of the clock.
LEMMA TimerStarted ==
  ASSUME NEW left, NEW seenFor, NEW whole \in Nat, Timed(left, seenFor, whole)
  PROVE  /\ Timed(NotSet, NotSet, whole)
         /\ Timed(IF left = NotSet THEN whole ELSE left, IF seenFor = NotSet THEN 0 ELSE seenFor, whole)
<1>1. CASE left = NotSet /\ seenFor = NotSet
  BY <1>1 DEF Timed, NotSet
<1>2. CASE left \in Nat /\ seenFor \in Nat /\ left + seenFor = whole
  BY <1>2 DEF Timed, NotSet
<1> QED BY <1>1, <1>2 DEF Timed

LEMMA TimerCounted ==
  ASSUME NEW left, NEW seenFor, NEW whole \in Nat, Timed(left, seenFor, whole)
  PROVE  /\ Timed(IF left > 0 THEN left - 1 ELSE left,
                  IF seenFor # NotSet /\ seenFor < whole THEN seenFor + 1 ELSE seenFor, whole)
         /\ left = 0 => (IF left > 0 THEN left - 1 ELSE left) = 0
BY DEF Timed, NotSet

LEMMA TimerDown ==
  ASSUME NEW left, NEW seenFor, NEW whole \in Nat, Timed(left, seenFor, whole), left = 0
  PROVE  seenFor >= whole
BY DEF Timed, NotSet

LEMMA LimitTypes ==
  ASSUME NEW c \in LimitConfigs
  PROVE  /\ DOMAIN c = {"protect", "oilPressure", "boostCutEnabled", "wideband", "afrProtectEnabled", "hardRevMode",
                        "afrProtectReactivationTPS", "oilPressureProtTime", "afrProtectCutTime"}
         /\ c.protect \in BOOLEAN /\ c.oilPressureProtTime \in Nat /\ c.afrProtectCutTime \in Nat
         /\ c.hardRevMode \in {"OFF", "FIXED", "COOLANT"}
BY DEF LimitConfigs

\* A flag that lowers the greatest speed lowers it to that of the protection,
\* and only a flag, a launch or a shift lowers it below the unlimited one.
LEMMA GreatestSpeed ==
  ASSUME LimitsInv, NEW flags
  PROVE  /\ reduces(flags) => getMaxRpm(flags) <= engineProtectMaxRPM
         /\ ~reduces(flags) /\ ~launch.launchingHard /\ ~launch.flatShiftingHard =>
              getMaxRpm(flags) = getHardRevLimit
<1>1. getHardRevLimit \in Int
  BY DEF getHardRevLimit, HardRevLim, coolantProtRPM, UnlimitedRPM
<1>2. launch.clutchEngagedRPM \in Int
  BY DEF LimitsInv, Speeds
<1> QED BY <1>1, <1>2 DEF getMaxRpm, applyEngineProtectionRevLimit, applyHardLaunchRevLimit,
                          applyFlatShiftRevLimit, Least, lnchHardLim, engineProtectMaxRPM

LEMMA PassKeepsLimits ==
  ASSUME LimitsInv, ProtectionPass, UNCHANGED <<rpm, launch>>
  PROVE  LimitsInv'
<1>1. PICK oilPressure \in 0..1, afrTarget \in 0..1, lateSoft \in BOOLEAN, starting \in BOOLEAN :
        LET low == oilPressure < oilPressureProtMins
            lean == isAfrLimitConditionActive(afrTarget)
            flags == checkEngineProtection(low, lean, lateSoft)
            zone == zoneOf(flags, starting)
        IN /\ oilLeft' = oilTimer(low)
           /\ afrLeft' = afrTimer(lean)
           /\ afrActive' = IF limitConfig.protect THEN flags.afr ELSE afrActive
           /\ cutStatus' \in cutsIn(zone)
           /\ engineProtect' = IF cutStatus' = "None" THEN NoFlags ELSE flags
           /\ seen' = [lowFor |-> CASE ~checksOil -> seen.lowFor
                                    [] checksOil /\ ~low -> NotSet
                                    [] OTHER -> IF seen.lowFor = NotSet THEN 0 ELSE seen.lowFor,
                       leanFor |-> CASE canApplyAfrLimit /\ reactivated -> NotSet
                                     [] canApplyAfrLimit /\ ~reactivated /\ lean /\ seen.leanFor = NotSet -> 0
                                     [] OTHER -> seen.leanFor,
                       zone |-> zone, at |-> rpm,
                       limited |-> launch.launchingHard \/ launch.flatShiftingHard,
                       onLimit |-> limitConfig.hardRevMode = "COOLANT" /\ rpm = coolantProtRPM]
  BY DEF ProtectionPass
<1> DEFINE low == oilPressure < oilPressureProtMins
           lean == isAfrLimitConditionActive(afrTarget)
           flags == checkEngineProtection(low, lean, lateSoft)
           zone == zoneOf(flags, starting)
           oilTime == limitConfig.oilPressureProtTime
           afrTime == limitConfig.afrProtectCutTime
<1>2. /\ limitConfig' = limitConfig /\ limitConfig \in LimitConfigs
      /\ oilTime \in Nat /\ afrTime \in Nat /\ limitConfig.protect \in BOOLEAN
  BY LimitTypes DEF ProtectionPass, LimitsInv
<1>3. /\ DOMAIN seen' = SeenFields /\ seen'.zone = zone /\ seen'.at = rpm
      /\ seen'.limited = (launch.launchingHard \/ launch.flatShiftingHard)
      /\ seen'.onLimit = (limitConfig.hardRevMode = "COOLANT" /\ rpm = coolantProtRPM)
  BY <1>1 DEF SeenFields
<1>4. Timed(oilLeft', seen'.lowFor, oilTime)
  <2>1. CASE ~checksOil
    BY <1>1, <2>1 DEF oilTimer, LimitsInv
  <2>2. CASE checksOil /\ ~low
    BY <1>1, <1>2, <2>2, TimerStarted DEF oilTimer, LimitsInv
  <2>3. CASE checksOil /\ low
    BY <1>1, <1>2, <2>3, TimerStarted DEF oilTimer, LimitsInv
  <2> QED BY <2>1, <2>2, <2>3
<1>5. Timed(afrLeft', seen'.leanFor, afrTime)
  <2>1. CASE canApplyAfrLimit /\ reactivated
    BY <1>1, <1>2, <2>1, TimerStarted DEF afrTimer, LimitsInv
  <2>2. CASE canApplyAfrLimit /\ ~reactivated /\ lean
    <3>1. afrLeft' = IF afrLeft = NotSet THEN afrTime ELSE afrLeft
      BY <1>1, <2>2 DEF afrTimer
    <3>2. seen'.leanFor = IF seen.leanFor = NotSet THEN 0 ELSE seen.leanFor
      BY <1>1, <2>2
    <3> QED BY <1>2, <3>1, <3>2, TimerStarted DEF LimitsInv
  <2>3. CASE ~(canApplyAfrLimit /\ reactivated) /\ ~(canApplyAfrLimit /\ ~reactivated /\ lean)
    BY <1>1, <2>3 DEF afrTimer, LimitsInv
  <2> QED BY <2>1, <2>2, <2>3
<1>6. /\ flags.oil => checkOilPressureLimit(low)
      /\ flags.afr => checkAFRLimit(lean)
      /\ limitConfig.protect =>
           /\ flags.rpm = (checkCoolantLimit \/ checkRpmLimit(lateSoft))
           /\ flags.afr = checkAFRLimit(lean)
      /\ ~limitConfig.protect => ~reduces(flags)
  BY DEF checkEngineProtection, NoFlags, reduces
<1>7. /\ engineProtect'.oil => checkOilPressureLimit(low)
      /\ engineProtect'.afr => checkAFRLimit(lean)
      /\ reduces(engineProtect') => engineProtect' = flags /\ cutStatus' # "None"
  BY <1>1, <1>6 DEF NoFlags, reduces
<1>8. engineProtect'.oil => oilLeft' = 0
  <2>1. checkOilPressureLimit(low) => oilTimer(low) = 0
    BY DEF checkOilPressureLimit, oilTimer, LimitsInv, NotSet
  <2> QED BY <1>1, <1>7, <2>1
<1>9. checkAFRLimit(lean) => afrLeft' = 0
  BY <1>1 DEF checkAFRLimit, afrTimer, LimitsInv, NotSet
<1>10. afrActive' => afrLeft' = 0
  <2>1. CASE limitConfig.protect
    BY <1>1, <1>6, <1>9, <2>1
  <2>2. CASE ~limitConfig.protect
    BY <1>1, <2>2 DEF LimitsInv, afrTimer, canApplyAfrLimit
  <2> QED BY <2>1, <2>2
<1> HIDE DEF low, lean, flags, zone
<1>11. LimitsTimed'
  <2>1. engineProtect'.oil => seen'.lowFor >= oilTime
    BY <1>2, <1>4, <1>8, TimerDown
  <2>2. engineProtect'.afr => seen'.leanFor >= afrTime
    BY <1>2, <1>5, <1>7, <1>9, TimerDown
  <2>3. reduces(engineProtect') /\ rpm >= engineProtectMaxRPM => zone \in {"starting", "above"}
    <3>1. SUFFICES ASSUME reduces(engineProtect'), rpm >= engineProtectMaxRPM, ~starting
                   PROVE  zone = "above"
      BY DEF zone, zoneOf
    <3>2. reduces(flags) /\ limitConfig.protect
      BY <1>2, <1>6, <1>7, <3>1
    <3>3. getMaxRpm(flags) <= engineProtectMaxRPM /\ rpm \in Int
      BY <3>2, GreatestSpeed DEF LimitsInv, Speeds
    <3>4. getMaxRpm(flags) \in Int
      <4>1. getHardRevLimit \in Int
        BY DEF getHardRevLimit, HardRevLim, coolantProtRPM, UnlimitedRPM
      <4> QED BY <4>1 DEF LimitsInv, Speeds, getMaxRpm, applyEngineProtectionRevLimit, applyHardLaunchRevLimit,
                          applyFlatShiftRevLimit, Least, lnchHardLim, engineProtectMaxRPM
    <3>5. rpm >= getMaxRpm(flags)
      BY <3>1, <3>3, <3>4 DEF engineProtectMaxRPM
    <3> QED BY <3>1, <3>2, <3>3, <3>4, <3>5 DEF zone, zoneOf
  <2>4. zone = "above" => engineProtect'.rpm \/ reduces(engineProtect') \/ seen'.limited \/ seen'.onLimit
    <3>1. SUFFICES ASSUME zone = "above" PROVE engineProtect'.rpm \/ reduces(engineProtect') \/ seen'.limited \/ seen'.onLimit
      OBVIOUS
    <3>2. limitConfig.protect /\ rpm >= getMaxRpm(flags)
      BY <3>1 DEF zone, zoneOf
    <3>3. engineProtect' = flags
      <4>1. cutsIn(zone) = {"Full"}
        BY <3>1 DEF cutsIn
      <4> QED BY <1>1, <4>1 DEF zone, flags, low, lean
    <3>4. CASE reduces(flags) \/ launch.launchingHard \/ launch.flatShiftingHard
      BY <1>3, <3>3, <3>4
    <3>5. CASE ~(reduces(flags) \/ launch.launchingHard \/ launch.flatShiftingHard)
      <4>1. rpm >= getHardRevLimit
        BY <3>2, <3>5, GreatestSpeed
      <4>2. rpm \in Int /\ rpm < 7
        BY DEF LimitsInv, Speeds
      <4>3. limitConfig.hardRevMode \in {"OFF", "FIXED", "COOLANT"}
        BY <1>2, LimitTypes
      <4>4. CASE limitConfig.hardRevMode = "FIXED"
        BY <1>6, <3>2, <3>3, <4>1, <4>4 DEF getHardRevLimit, checkRpmLimit
      <4>5. CASE limitConfig.hardRevMode = "COOLANT"
        <5>1. rpm >= coolantProtRPM /\ coolantProtRPM \in Int
          BY <4>1, <4>5 DEF getHardRevLimit, coolantProtRPM
        <5>2. rpm = coolantProtRPM \/ checkCoolantLimit
          BY <4>2, <4>5, <5>1 DEF checkCoolantLimit
        <5> QED BY <1>3, <1>6, <3>2, <3>3, <4>5, <5>2
      <4>6. CASE limitConfig.hardRevMode = "OFF"
        BY <4>1, <4>2, <4>6 DEF getHardRevLimit, UnlimitedRPM
      <4> QED BY <4>3, <4>4, <4>5, <4>6
    <3> QED BY <3>4, <3>5
  <2> QED BY <1>2, <1>3, <2>1, <2>2, <2>3, <2>4 DEF LimitsTimed, engineProtectMaxRPM
<1> QED BY <1>2, <1>3, <1>4, <1>5, <1>7, <1>8, <1>9, <1>10, <1>11 DEF LimitsInv

LEMMA LimitsPreserves ==
  ASSUME LimitsInv, UNCHANGED rpm \/ rpm' \in Speeds,
         UNCHANGED nitrousLaunchVars \/ nitrousControl \/ checkLaunchAndFlatShift,
         \/ UNCHANGED limitVars \/ LimitTime \/ ProtectionSwitched
         \/ ProtectionPass /\ UNCHANGED <<rpm, launch>>
  PROVE  LimitsInv'
<1>1. rpm' \in Speeds
  BY DEF LimitsInv
<1>2. /\ DOMAIN launch' = {"clutchTrigger", "previousClutchTrigger", "clutchEngagedRPM", "launchingHard", "flatShiftingHard"}
      /\ launch'.clutchEngagedRPM \in Speeds
  <2>1. CASE launch' = launch
    BY <2>1 DEF LimitsInv
  <2>2. CASE checkLaunchAndFlatShift
    BY <2>2 DEF checkLaunchAndFlatShift, LimitsInv
  <2> QED BY <2>1, <2>2 DEF nitrousLaunchVars, nitrousControl
<1>3. CASE UNCHANGED limitVars
  BY <1>1, <1>2, <1>3 DEF limitVars, LimitsInv, LimitsTimed
<1>4. CASE LimitTime
  <2> DEFINE oilTime == limitConfig.oilPressureProtTime
             afrTime == limitConfig.afrProtectCutTime
  <2>1. oilTime \in Nat /\ afrTime \in Nat /\ UNCHANGED <<limitConfig, afrActive, engineProtect, cutStatus>>
    BY <1>4, LimitTypes DEF LimitsInv, LimitTime
  <2>2. /\ DOMAIN seen' = SeenFields
        /\ seen'.lowFor = IF seen.lowFor # NotSet /\ seen.lowFor < oilTime THEN seen.lowFor + 1 ELSE seen.lowFor
        /\ seen'.leanFor = IF seen.leanFor # NotSet /\ seen.leanFor < afrTime THEN seen.leanFor + 1 ELSE seen.leanFor
        /\ seen'.zone = seen.zone /\ seen'.at = seen.at /\ seen'.limited = seen.limited
        /\ seen'.onLimit = seen.onLimit
    BY <1>4 DEF LimitTime, LimitsInv, SeenFields
  <2>3. Timed(oilLeft', seen'.lowFor, oilTime) /\ (oilLeft = 0 => oilLeft' = 0)
    BY <1>4, <2>1, <2>2, TimerCounted DEF LimitTime, LimitsInv
  <2>4. Timed(afrLeft', seen'.leanFor, afrTime) /\ (afrLeft = 0 => afrLeft' = 0)
    BY <1>4, <2>1, <2>2, TimerCounted DEF LimitTime, LimitsInv
  <2>5. LimitsTimed'
    <3>1. engineProtect.oil => seen'.lowFor >= oilTime
      BY <2>1, <2>3, TimerDown DEF LimitsInv
    <3>2. engineProtect.afr => seen'.leanFor >= afrTime
      BY <2>1, <2>4, TimerDown DEF LimitsInv
    <3> QED BY <2>1, <2>2, <3>1, <3>2 DEF LimitsTimed, LimitsInv
  <2> QED BY <1>1, <1>2, <2>1, <2>2, <2>3, <2>4, <2>5 DEF LimitsInv
<1>5. CASE ProtectionSwitched
  <2>1. limitConfig \in LimitConfigs
    BY DEF LimitsInv
  <2>2. limitConfig' \in LimitConfigs
    BY <1>5, <2>1 DEF ProtectionSwitched, LimitConfigs
  <2>3. /\ limitConfig'.oilPressureProtTime = limitConfig.oilPressureProtTime
        /\ limitConfig'.afrProtectCutTime = limitConfig.afrProtectCutTime
    BY <1>5, <2>1, LimitTypes DEF ProtectionSwitched
  <2> QED BY <1>1, <1>2, <1>5, <2>2, <2>3 DEF ProtectionSwitched, LimitsInv, LimitsTimed
<1>6. CASE ProtectionPass /\ UNCHANGED <<rpm, launch>>
  BY <1>6, PassKeepsLimits
<1> QED BY <1>3, <1>4, <1>5, <1>6

-----------------------------------------------------------------------------
(* All the times together.                                                 *)

TimesInv ==
  /\ corrConfig \in CorrConfigs
  /\ AirConInv /\ RulesInv /\ TestInv /\ TachoInv
  /\ EnrichInv /\ EgoInv /\ DfcoInv /\ KnockInv /\ LimitsInv

LEMMA TimesInit == Init => TimesInv
<1> SUFFICES ASSUME Init PROVE TimesInv
  OBVIOUS
<1>1. fitted \in DOMAIN Tunes /\ Tunes[fitted] \subseteq Configs(fitted)
  BY ControlLoopAssumption DEF Init
<1>2. corrConfig \in CorrConfigs
  <2>1. [aseTaperTime |-> 0, aeMode |-> "NONE", dfcoEnabled |-> TRUE, dfcoTaperEnable |-> TRUE,
         egoAlgorithm |-> "NONE", knock_mode |-> "OFF", softLimit |-> TRUE, idleAdv |-> TRUE,
         spark2Switched |-> TRUE] \in CorrConfigs
    BY DEF CorrConfigs
  <2>2. (CHOOSE c \in CorrConfigs : TRUE) \in CorrConfigs
    BY <2>1
  <2>3. fitted \in CorrectionParts => Configs(fitted) = CorrConfigs
    BY DEF Configs, CorrectionParts, SensorParts
  <2> QED BY <1>1, <2>2, <2>3 DEF Init, CorrectionsInit, FuelCorrectionsInit
<1>3. AirConInv
  BY DEF Init, CoolingInit, initialiseAirCon, AirConInv, AirConFields, StartWaits, ThrottleWaits,
         SpeedWaits, IdleUpWaits, CompressorMayRun, LongAgo, airConCompOnDelay
<1>4. RulesInv
  <2>1. tunes("rules", {<<>>}) \in SUBSET Seq(RuleSettings)
    <3>1. fitted = "rules" => Configs(fitted) = Seq(RuleSettings)
      BY DEF Configs, CorrectionParts, SensorParts
    <3>2. (CHOOSE c \in {<<>>} : TRUE) = <<>> /\ <<>> \in Seq(RuleSettings)
      OBVIOUS
    <3> QED BY <1>1, <3>1, <3>2 DEF tunes
  <2>2. RulesInit(tunes("rules", {<<>>}))
    BY DEF Init
  <2> QED BY <2>1, <2>2, RulesStart
<1>5. TestInv
  BY DEF Init, TestInit, TestInv, TestOf, TestFields, pulsing, hwTestDuration, Kinds
<1>6. TachoInv
  BY TimerAssumption DEF Init, TimerInit, TachoInv, TachoFields, Times
<1>7. EnrichInv /\ EgoInv /\ DfcoInv
  BY DEF Init, CorrectionsInit, FuelCorrectionsInit, EnrichInv, AseEnds, ASE_COMPLETE, EgoInv, EgoWaits,
         egoCount, egoLimit, Authority, NO_FUEL_CORRECTION, IgnitionModulus, DfcoInv, DfcoState,
         DfcoFields, dfcoDelay, dfcoTaperTime, Ever
<1>8. KnockInv
  BY DEF Init, CorrectionsInit, initialKnock, KnockInv, KnockState, KnockFields, KnockTime
<1>9. LimitsInv
  <2>1. tunes("limits", {NoLimits}) \in SUBSET LimitConfigs
    <3>1. fitted = "limits" => Configs(fitted) = LimitConfigs
      BY DEF Configs, CorrectionParts, SensorParts
    <3>2. (CHOOSE c \in {NoLimits} : TRUE) = NoLimits /\ NoLimits \in LimitConfigs
      BY DEF NoLimits, LimitConfigs
    <3> QED BY <1>1, <3>1, <3>2 DEF tunes
  <2>2. limitConfig \in LimitConfigs
    BY <2>1 DEF Init, LimitsInit
  <2>3. rpm \in Speeds /\ launch = initialiseLaunch
    BY DEF Init, EngineInit, Speeds, NitrousLaunchInit
  <2>4. /\ oilLeft = NotSet /\ afrLeft = NotSet /\ afrActive = FALSE /\ engineProtect = NoFlags
        /\ seen = [lowFor |-> NotSet, leanFor |-> NotSet, zone |-> "below", at |-> 0,
                   limited |-> FALSE, onLimit |-> FALSE]
    BY DEF Init, LimitsInit
  <2> QED BY <2>2, <2>3, <2>4 DEF LimitsInv, LimitsTimed, Timed, NoFlags, reduces, SeenFields,
                                  initialiseLaunch, Speeds
<1> QED BY <1>2, <1>3, <1>4, <1>5, <1>6, <1>7, <1>8, <1>9 DEF TimesInv

LEMMA TimesNext == LoopInv /\ TimesInv /\ [Next]_vars => TimesInv'
<1> SUFFICES ASSUME LoopInv, TimesInv, [Next]_vars PROVE TimesInv'
  OBVIOUS
<1> USE DEF TimesInv
<1>1. \/ UNCHANGED correctionVars \/ CorrectionsStopped \/ knockPulse \/ CorrectionTime
      \/ IgnitionEvent /\ UNCHANGED <<limits, knock>>
      \/ \E timers \in PassTimes : CorrectionsPass(timers) \/ CorrectionsUnsynced(timers)
  BY Disturbs
<1> USE DEF correctionVars, fuelCorrVars
<1>2. UNCHANGED corrConfig
  BY <1>1 DEF CorrectionsStopped, knockPulse, CorrectionTime, IgnitionEvent, CorrectionsPass,
              CorrectionsUnsynced
<1>3. AirConInv'
  BY Disturbs, AirConPreserves DEF LoopInv
<1>4. RulesInv'
  BY Disturbs, RulesPreserves
<1>5. TestInv'
  BY Disturbs, TestPreserves
<1>6. TachoInv'
  BY Disturbs, TachoPreserves, TimerAssumption
<1>7. EnrichInv'
  <2>1. \/ UNCHANGED enrich \/ fuelCorrectionsReset
        \/ \E timers \in PassTimes : correctionsFuel(timers)
    BY <1>1 DEF CorrectionsStopped, knockPulse, CorrectionTime, IgnitionEvent, CorrectionsPass,
                CorrectionsUnsynced
  <2> QED BY <2>1, EnrichPreserves
<1>8. EgoInv'
  <2>1. \/ UNCHANGED ego \/ fuelCorrectionsReset \/ IgnitionEvent
        \/ \E timers \in PassTimes : correctionsFuel(timers)
    BY <1>1 DEF CorrectionsStopped, knockPulse, CorrectionTime, CorrectionsPass, CorrectionsUnsynced
  <2> QED BY <2>1, EgoPreserves
<1>9. DfcoInv'
  <2>1. \/ UNCHANGED dfco \/ dfco' = correctionDFCOignition(dfco)
        \/ \E timers \in PassTimes : correctionsFuel(timers)
    BY <1>1 DEF CorrectionsStopped, knockPulse, CorrectionTime, IgnitionEvent, CorrectionsPass,
                CorrectionsUnsynced
  <2> QED BY <1>2, <2>1, DfcoPreserves
<1>10. KnockInv'
  <2>1. \/ UNCHANGED knock \/ knockPulse \/ CorrectionTime \/ CorrectionsStopped
        \/ \E timers \in PassTimes : knock' \in knockAfter(timers)
    BY <1>1 DEF CorrectionsPass, CorrectionsUnsynced, correctionsIgn
  <2> QED BY <1>2, <2>1, KnockPreserves
<1>11. LimitsInv'
  <2>1. SpeedsRead[fitted] \subseteq Speeds /\ 0 \in Speeds
    BY ControlLoopAssumption DEF LoopInv, Speeds
  <2> QED BY <2>1, Disturbs, LimitsPreserves
<1> QED BY <1>2, <1>3, <1>4, <1>5, <1>6, <1>7, <1>8, <1>9, <1>10, <1>11

\* The compressor and the outputs of the rules have waited for their delays, and
\* tests, tachometer pulses, time-limited outputs, the fuel cut's taper, the
\* closed loop's steps, the enrichment after a start and the knock retard end
\* when they should; the flags for oil pressure and mixture have waited for their
\* times, and where the engine is above its greatest speed it is cut, whatever is
\* tuned and read and however the main loop's passes, the stalls and the
\* interrupts interleave.
THEOREM TimesAlwaysKept == Spec => []TimesKept
<1>1. TimesInv => TimesKept
  <2> SUFFICES ASSUME TimesInv PROVE TimesKept
    OBVIOUS
  <2>1. CompressorWaits
    BY DEF TimesInv, AirConInv, StartWaits, ThrottleWaits, SpeedWaits, IdleUpWaits, CompressorMayRun,
           CompressorWaits, LongAgo, airConAfterStartDelay, airConTPSCutTime, airConRPMCutTime,
           airConCompOnDelay
  <2>2. RulesTimed
    BY RulesKept DEF TimesInv
  <2>3. TestsEnd
    BY DEF TimesInv, TestInv, TestOf, TestsEnd, hwTestDuration, Kinds
  <2>4. TachoEnds
    BY DEF TimesInv, TachoInv, TachoEnds
  <2>5. OverrunTimed
    BY DEF TimesInv, DfcoInv, DfcoState, OverrunTimed, dfcoTaperTime, Ever
  <2>6. EgoWaits /\ AseEnds
    BY DEF TimesInv, EgoInv, EnrichInv
  <2>7. KnockRecovers
    BY DEF TimesInv, KnockInv, KnockState, Steps, KnockRecovers, knock_recoveryStepTime,
           knock_recoveryStep, knock_duration, KnockTime
  <2>8. LimitsTimed
    BY DEF TimesInv, LimitsInv
  <2> QED BY <2>1, <2>2, <2>3, <2>4, <2>5, <2>6, <2>7, <2>8 DEF TimesKept
<1> QED BY <1>1, TimesInit, TimesNext, LoopInvariant, PTL DEF Spec

-----------------------------------------------------------------------------
(* What goes out on a line.                                                *)

\* A row that is not empty is what a message goes out with.
LEMMA Filled ==
  ASSUME NEW m, DOMAIN m = {"id", "extended", "len", "buf"}, NEW id, NEW row
  PROVE  LET f == filled(m, id, row)
         IN /\ DOMAIN f = DOMAIN m
            /\ f.id = id /\ f.extended = m.extended
            /\ Len(row) = 8 /\ row # <<>> => f.len = 8 /\ \A i \in 1..8 : f.buf[i] = row[i]
<1> DEFINE f == filled(m, id, row)
<1>1. /\ DOMAIN f = DOMAIN m
      /\ f.id = id /\ f.extended = m.extended
      /\ f.len = IF row = <<>> THEN m.len ELSE Len(row)
      /\ f.buf = [i \in 1..8 |-> IF i <= Len(row) THEN row[i] ELSE m.buf[i]]
  BY DEF filled
<1> HIDE DEF f
<1>2. Len(row) = 8 /\ row # <<>> => f.len = 8 /\ \A i \in 1..8 : f.buf[i] = row[i]
  BY <1>1
<1> QED BY <1>1, <1>2 DEF f

\* The two lists of numbers agree: what is announced has an answer.
Known == {5, 10, 11, 12, 13, 14, 15, 17, 19, 28, 32, 36, 37, 51, 64, 66, 70, 82, 92}

LEMMA AnnouncedKnown ==
  ASSUME NEW s
  PROVE  Announced(s) \subseteq Known
<1>1. ASSUME NEW n \in 1..32, announces(<<6, 65, 0, 8, 126, 160, 17, 0>>, n)
      PROVE  n \in {5, 10, 11, 12, 13, 14, 15, 17, 19, 28, 32}
  BY <1>1 DEF announces, Weight
<1>2. ASSUME NEW n \in 1..32, announces(<<6, 65, 32, 24, 0, 32, 1, 0>>, n)
      PROVE  n \in {4, 5, 19, 32}
  BY <1>2 DEF announces, Weight
<1>3. ASSUME NEW n \in 1..32, announces(<<6, 65, 64, 68, 0, 64, 16, 0>>, n)
      PROVE  n \in {2, 6, 18, 28}
  BY <1>3 DEF announces, Weight
<1>4. /\ obdData(0, s) = <<6, 65, 0, 8, 126, 160, 17, 0>>
      /\ obdData(32, s) = <<6, 65, 32, 24, 0, 32, 1, 0>>
      /\ obdData(64, s) = <<6, 65, 64, 68, 0, 64, 16, 0>>
  BY DEF obdData, firstData, laterData
<1>5. ASSUME NEW pid \in Announced(s)
      PROVE  pid \in Known
  <2>1. PICK base \in {0, 32, 64}, n \in 1..32 : pid = base + n /\ announces(obdData(base, s), n)
    BY <1>5 DEF Announced
  <2> QED BY <2>1, <1>1, <1>2, <1>3, <1>4 DEF Known
<1> QED BY <1>5

\* What a row of each kind has where it is looked at.
LEMMA OneRow ==
  ASSUME NEW pid, NEW v
  PROVE  LET row == one(pid, v)
         IN Len(row) = 8 /\ row # <<>> /\ row[2] = 65 /\ row[3] = pid /\ row[4] = lowByte(v)
BY DEF one

LEMMA TwoRow ==
  ASSUME NEW pid, NEW v
  PROVE  LET row == two(pid, v)
         IN /\ Len(row) = 8 /\ row # <<>> /\ row[2] = 65 /\ row[3] = pid
            /\ row[4] = highByte(v) /\ row[5] = lowByte(v)
BY DEF two

LEMMA FourRow ==
  ASSUME NEW pid, NEW v, NEW w
  PROVE  LET row == four(pid, v, w)
         IN Len(row) = 8 /\ row # <<>> /\ row[2] = 65 /\ row[3] = pid
BY DEF four

\* Quotients and bytes of a number that is not negative.
LEMMA Quotient10 ==
  ASSUME NEW n \in Nat
  PROVE  n \div 10 \in Nat /\ 10 * (n \div 10) <= n /\ n < 10 * (n \div 10) + 10
OBVIOUS

LEMMA Quotient256 ==
  ASSUME NEW n \in Nat
  PROVE  n \div 256 \in Nat /\ 256 * (n \div 256) <= n /\ n < 256 * (n \div 256) + 256
OBVIOUS

LEMMA TwoBytes ==
  ASSUME NEW n \in Nat, n < 65536
  PROVE  256 * highByte(n) + lowByte(n) = n
<1>1. n = 256 * (n \div 256) + (n % 256)
  OBVIOUS
<1> DEFINE q == n \div 256
           r == n % 256
<1>2. highByte(n) = q % 256 /\ lowByte(n) = r
  BY DEF highByte, lowByte
<1>3. q \in Nat /\ 256 * q <= n
  BY Quotient256
<1> HIDE DEF q, r
<1>4. q < 256
  BY <1>3
<1>5. q % 256 = q
  BY <1>3, <1>4
<1> QED BY <1>1, <1>2, <1>5 DEF q, r

\* Each of those answers repeats its number and is read back as it was meant.
LEMMA AnswerRow ==
  ASSUME NEW s, IsReport(s), NEW pid \in Known
  PROVE  LET row == obdData(pid, s)
         IN /\ Len(row) = 8 /\ row # <<>>
            /\ row[2] = 65 /\ row[3] = pid
            /\ ReadsBack(pid, row[4], row[5], s)
<1> DEFINE row == obdData(pid, s)
           shaped == Len(row) = 8 /\ row # <<>> /\ row[2] = 65 /\ row[3] = pid
<1>1. ASSUME NEW v, row = one(pid, v)
      PROVE  shaped /\ row[4] = lowByte(v)
  BY <1>1, OneRow
<1>2. ASSUME NEW v, row = two(pid, v)
      PROVE  shaped /\ row[4] = highByte(v) /\ row[5] = lowByte(v)
  BY <1>2, TwoRow
<1>3. ASSUME NEW v, NEW w, row = four(pid, v, w)
      PROVE  shaped
  BY <1>3, FourRow
<1>4. CASE pid = 5
  <2>0. within(s.coolant, -40, 215)
    BY DEF IsReport
  <2> DEFINE v == temperatureAddOffset(s.coolant)
  <2>1. row = one(pid, v)
    BY <1>4 DEF obdData, firstData
  <2> HIDE DEF row
  <2>2. shaped /\ row[4] = lowByte(v)
    BY <1>1, <2>1
  <2>3. row[4] - 40 = s.coolant
    BY <2>0, <2>2 DEF within, lowByte, temperatureAddOffset
  <2>4. ReadsBack(pid, row[4], row[5], s)
    BY <1>4, <2>3 DEF ReadsBack
  <2> QED BY <2>2, <2>4 DEF row
<1>5. CASE pid = 10
  <2>0. within(s.fuelPressure, 0, 255)
    BY DEF IsReport
  <2> DEFINE v == (23 * s.fuelPressure) \div 10
  <2>1. row = one(pid, v)
    BY <1>5 DEF obdData, firstData
  <2> HIDE DEF row
  <2>2. shaped /\ row[4] = lowByte(v)
    BY <1>1, <2>1
  <2>3. 10 * v <= 23 * s.fuelPressure /\ 23 * s.fuelPressure < 10 * v + 10 /\ v \in Nat
    <3>1. 23 * s.fuelPressure \in Nat
      BY <2>0 DEF within
    <3> QED BY <3>1, Quotient10
  <2> HIDE DEF v
  <2>4. s.fuelPressure <= 110 => lowByte(v) = v
    BY <2>0, <2>3 DEF within, lowByte
  <2>5. s.fuelPressure <= 110 => near(3000 * row[4], 6895 * s.fuelPressure, 3000)
    <3>1. s.fuelPressure <= 110 => row[4] = v
      BY <2>2, <2>4
    <3> QED BY <2>0, <2>3, <3>1 DEF within, near
  <2>6. ReadsBack(pid, row[4], row[5], s)
    BY <1>5, <2>5 DEF ReadsBack
  <2> QED BY <2>2, <2>6 DEF row
<1>6. CASE pid = 11
  <2>0. within(s.MAP, 0, 511)
    BY DEF IsReport
  <2> DEFINE v == s.MAP
  <2>1. row = one(pid, v)
    BY <1>6 DEF obdData, firstData
  <2> HIDE DEF row
  <2>2. shaped /\ row[4] = lowByte(v)
    BY <1>1, <2>1
  <2>3. s.MAP <= 255 => row[4] = s.MAP
    BY <2>0, <2>2 DEF within, lowByte
  <2>4. ReadsBack(pid, row[4], row[5], s)
    BY <1>6, <2>3 DEF ReadsBack
  <2> QED BY <2>2, <2>4 DEF row
<1>7. CASE pid = 13
  <2>0. within(s.vss, 0, 65535)
    BY DEF IsReport
  <2> DEFINE v == s.vss
  <2>1. row = one(pid, v)
    BY <1>7 DEF obdData, firstData
  <2> HIDE DEF row
  <2>2. shaped /\ row[4] = lowByte(v)
    BY <1>1, <2>1
  <2>3. s.vss <= 255 => row[4] = s.vss
    BY <2>0, <2>2 DEF within, lowByte
  <2>4. ReadsBack(pid, row[4], row[5], s)
    BY <1>7, <2>3 DEF ReadsBack
  <2> QED BY <2>2, <2>4 DEF row
<1>8. CASE pid = 14
  <2>0. within(s.advance, -128, 127)
    BY DEF IsReport
  <2> DEFINE v == (s.advance + 64) * 2
  <2>1. row = one(pid, v)
    BY <1>8 DEF obdData, firstData
  <2> HIDE DEF row
  <2>2. shaped /\ row[4] = lowByte(v)
    BY <1>1, <2>1
  <2>3. within(s.advance, -64, 63) => row[4] = 2 * (s.advance + 64)
    BY <2>0, <2>2 DEF within, lowByte
  <2>4. ReadsBack(pid, row[4], row[5], s)
    BY <1>8, <2>3 DEF ReadsBack
  <2> QED BY <2>2, <2>4 DEF row
<1>9. CASE pid = 15
  <2>0. within(s.IAT, -40, 215)
    BY DEF IsReport
  <2> DEFINE v == temperatureAddOffset(s.IAT)
  <2>1. row = one(pid, v)
    BY <1>9 DEF obdData, firstData
  <2> HIDE DEF row
  <2>2. shaped /\ row[4] = lowByte(v)
    BY <1>1, <2>1
  <2>3. row[4] - 40 = s.IAT
    BY <2>0, <2>2 DEF within, lowByte, temperatureAddOffset
  <2>4. ReadsBack(pid, row[4], row[5], s)
    BY <1>9, <2>3 DEF ReadsBack
  <2> QED BY <2>2, <2>4 DEF row
<1>10. CASE pid = 17
  <2>0. within(s.TPS, 0, 200)
    BY DEF IsReport
  <2> DEFINE v == clipped((327 * s.TPS) \div 256, 255)
  <2>1. row = one(pid, v)
    BY <1>10 DEF obdData, firstData
  <2> HIDE DEF row
  <2>2. shaped /\ row[4] = lowByte(v)
    BY <1>1, <2>1
  <2> DEFINE q == (327 * s.TPS) \div 256
  <2>3. q \in Nat /\ 256 * q <= 327 * s.TPS /\ 327 * s.TPS < 256 * q + 256
    <3>1. 327 * s.TPS \in Nat
      BY <2>0 DEF within
    <3> QED BY <3>1, Quotient256
  <2>4. v = IF q > 255 THEN 255 ELSE q
    BY DEF clipped
  <2> HIDE DEF q, v
  <2>5. lowByte(v) = v /\ v \in Nat /\ v <= q /\ (v = q \/ v = 255)
    <3>1. v \in Nat /\ v <= 255 /\ v <= q /\ (v = q \/ v = 255)
      BY <2>3, <2>4
    <3> QED BY <3>1 DEF lowByte
  <2>6. near(200 * row[4], 255 * s.TPS, 255)
    <3>1. row[4] = v
      BY <2>2, <2>5
    <3> QED BY <2>0, <3>1, <2>3, <2>5 DEF within, near
  <2>7. ReadsBack(pid, row[4], row[5], s)
    BY <1>10, <2>6 DEF ReadsBack
  <2> QED BY <2>2, <2>7 DEF row, v
<1>11. CASE pid = 51
  <2>0. within(s.baro, 0, 255)
    BY DEF IsReport
  <2> DEFINE v == s.baro
  <2>1. row = one(pid, v)
    BY <1>11 DEF obdData, laterData
  <2> HIDE DEF row
  <2>2. shaped /\ row[4] = lowByte(v)
    BY <1>1, <2>1
  <2>3. row[4] = s.baro
    BY <2>0, <2>2 DEF within, lowByte
  <2>4. ReadsBack(pid, row[4], row[5], s)
    BY <1>11, <2>3 DEF ReadsBack
  <2> QED BY <2>2, <2>4 DEF row
<1>12. CASE pid = 82
  <2>0. within(s.ethanolPct, 0, 255)
    BY DEF IsReport
  <2> DEFINE v == clipped((655 * s.ethanolPct) \div 256, 255)
  <2>1. row = one(pid, v)
    BY <1>12 DEF obdData, laterData
  <2> HIDE DEF row
  <2>2. shaped /\ row[4] = lowByte(v)
    BY <1>1, <2>1
  <2> DEFINE q == (655 * s.ethanolPct) \div 256
  <2>3. q \in Nat /\ 256 * q <= 655 * s.ethanolPct /\ 655 * s.ethanolPct < 256 * q + 256
    <3>1. 655 * s.ethanolPct \in Nat
      BY <2>0 DEF within
    <3> QED BY <3>1, Quotient256
  <2>4. v = IF q > 255 THEN 255 ELSE q
    BY DEF clipped
  <2> HIDE DEF q, v
  <2>5. lowByte(v) = v /\ v \in Nat /\ v <= q /\ (v = q \/ v = 255)
    <3>1. v \in Nat /\ v <= 255 /\ v <= q /\ (v = q \/ v = 255)
      BY <2>3, <2>4
    <3> QED BY <3>1 DEF lowByte
  <2>6. s.ethanolPct <= 100 => near(100 * row[4], 255 * s.ethanolPct, 255)
    <3>1. row[4] = v
      BY <2>2, <2>5
    <3> QED BY <2>0, <3>1, <2>3, <2>5 DEF within, near
  <2>7. ReadsBack(pid, row[4], row[5], s)
    BY <1>12, <2>6 DEF ReadsBack
  <2> QED BY <2>2, <2>7 DEF row, v
<1>13. CASE pid = 12
  <2>0. within(s.RPM, 0, 65535)
    BY DEF IsReport
  <2> DEFINE v == s.RPM * 4
  <2>1. row = two(pid, v)
    BY <1>13 DEF obdData, firstData
  <2> HIDE DEF row
  <2>2. shaped /\ row[4] = highByte(v) /\ row[5] = lowByte(v)
    BY <1>2, <2>1
  <2>3. s.RPM < 16384 => 256 * row[4] + row[5] = 4 * s.RPM
    <3>1. v \in Nat /\ (s.RPM < 16384 => v < 65536) /\ v = 4 * s.RPM
      BY <2>0 DEF within
    <3> HIDE DEF v
    <3> QED BY <2>2, <3>1, TwoBytes
  <2>4. ReadsBack(pid, row[4], row[5], s)
    BY <1>13, <2>3 DEF ReadsBack
  <2> QED BY <2>2, <2>4 DEF row
<1>14. CASE pid = 66
  <2>0. within(s.battery10, 0, 255)
    BY DEF IsReport
  <2> DEFINE v == s.battery10 * 100
  <2>1. row = two(pid, v)
    BY <1>14 DEF obdData, laterData
  <2> HIDE DEF row
  <2>2. shaped /\ row[4] = highByte(v) /\ row[5] = lowByte(v)
    BY <1>2, <2>1
  <2>3. 256 * row[4] + row[5] = 100 * s.battery10
    <3>1. v \in Nat /\ v < 65536 /\ v = 100 * s.battery10
      BY <2>0 DEF within
    <3> HIDE DEF v
    <3> QED BY <2>2, <3>1, TwoBytes
  <2>4. ReadsBack(pid, row[4], row[5], s)
    BY <1>14, <2>3 DEF ReadsBack
  <2> QED BY <2>2, <2>4 DEF row
<1>15. CASE pid \in {19, 28, 32, 36, 37, 64, 70, 92}
  <2>1. ReadsBack(pid, row[4], row[5], s)
    BY <1>15 DEF ReadsBack
  <2>2. CASE pid \in {19, 28, 70, 92}
    <3>1. /\ pid = 19 => row = one(pid, 3)
          /\ pid = 28 => row = one(pid, 7)
          /\ pid = 70 => row = one(pid, temperatureAddOffset(11))
          /\ pid = 92 => row = one(pid, temperatureAddOffset(40))
      BY DEF obdData, firstData, laterData
    <3> HIDE DEF row
    <3>2. shaped
      BY <1>1, <2>2, <3>1
    <3> QED BY <2>1, <3>2 DEF row
  <2>3. CASE pid \in {36, 37}
    <3>1. \E v, w : row = four(pid, v, w)
      BY <2>3 DEF obdData, laterData, mixture
    <3> QED BY <1>3, <2>1, <3>1
  <2>4. CASE pid \in {32, 64}
    <3>1. \/ row = <<6, 65, 32, 24, 0, 32, 1, 0>> /\ pid = 32
          \/ row = <<6, 65, 64, 68, 0, 64, 16, 0>> /\ pid = 64
      BY <2>4 DEF obdData, firstData, laterData
    <3> HIDE DEF row
    <3>2. shaped
      BY <3>1
    <3> QED BY <2>1, <3>2 DEF row
  <2> QED BY <1>15, <2>2, <2>3, <2>4
<1> QED BY <1>4, <1>5, <1>6, <1>7, <1>8, <1>9, <1>10, <1>11, <1>12, <1>13, <1>14, <1>15 DEF Known

\* A message is as AnswersKept has it, whoever the bytes behind its row are of.
Kept(m, t) ==
  /\ m.id = "OBD" /\ t.asked \in Announced(t.report) =>
       /\ m.len = 8 /\ m.buf[2] = 65 /\ m.buf[3] = t.asked
       /\ ReadsBack(t.asked, m.buf[4], m.buf[5], t.report)
  /\ SpeedShown(m.id, m.buf, t.report)

BufferFields == {"id", "extended", "len", "buf"}

LEMMA DashKept ==
  ASSUME NEW m, DOMAIN m = BufferFields, NEW ids, NEW i, NEW s, IsReport(s),
         ids[i] # "OBD"
  PROVE  /\ DOMAIN filled(m, ids[i], DashMessage(ids[i], s)) = BufferFields
         /\ SpeedShown(ids[i], filled(m, ids[i], DashMessage(ids[i], s)).buf, s)
<1> DEFINE row == DashMessage(ids[i], s)
           f == filled(m, ids[i], row)
<1>0. within(s.RPM, 0, 65535)
  BY DEF IsReport
<1>1. /\ DOMAIN f = BufferFields
      /\ Len(row) = 8 /\ row # <<>> => \A k \in 1..8 : f.buf[k] = row[k]
  BY Filled DEF BufferFields
<1>2. CASE ids[i] = "DME1"
  <2> DEFINE speed == (s.RPM * 64) \div 10
  <2>1. row = <<5, 12, lowByte(speed), highByte(speed), 12, 21, 0, 53>>
    BY <1>2 DEF DashMessage, BmwMessage
  <2> HIDE DEF f, row
  <2>2. f.buf[3] = lowByte(speed) /\ f.buf[4] = highByte(speed)
    BY <1>1, <2>1
  <2>3. speed \in Nat /\ 10 * speed <= 64 * s.RPM /\ 64 * s.RPM < 10 * speed + 10
    <3>1. s.RPM * 64 \in Nat /\ s.RPM * 64 = 64 * s.RPM
      BY <1>0 DEF within
    <3> QED BY <3>1, Quotient10
  <2> HIDE DEF speed
  <2>4. s.RPM < 10240 => f.buf[3] + 256 * f.buf[4] = speed
    <3>1. s.RPM < 10240 => speed < 65536
      BY <1>0, <2>3 DEF within
    <3>2. lowByte(speed) \in Int /\ highByte(speed) \in Int
      BY <2>3 DEF lowByte, highByte
    <3> QED BY <2>2, <2>3, <3>1, <3>2, TwoBytes
  <2>5. s.RPM < 10240 => near(10 * (f.buf[3] + 256 * f.buf[4]), 64 * s.RPM, 10)
    BY <1>0, <2>3, <2>4 DEF within, near
  <2>6. SpeedShown(ids[i], f.buf, s)
    BY <1>2, <2>5 DEF SpeedShown
  <2> QED BY <1>1, <2>6 DEF f, row
<1>3. CASE ids[i] = "RPM"
  <2>1. row = <<73, 14, lowByte(s.RPM * 4), highByte(s.RPM * 4), 14, 0, 27, 14>>
    BY <1>3 DEF DashMessage, VagMessage
  <2> HIDE DEF f, row
  <2>2. f.buf[3] = lowByte(s.RPM * 4) /\ f.buf[4] = highByte(s.RPM * 4)
    BY <1>1, <2>1
  <2> DEFINE speed == s.RPM * 4
  <2>3. speed \in Nat /\ speed = 4 * s.RPM /\ (s.RPM < 16384 => speed < 65536)
    BY <1>0 DEF within
  <2>4. f.buf[3] = lowByte(speed) /\ f.buf[4] = highByte(speed)
    BY <2>2
  <2> HIDE DEF speed
  <2>5. s.RPM < 16384 => f.buf[3] + 256 * f.buf[4] = 4 * s.RPM
    <3>1. lowByte(speed) \in Int /\ highByte(speed) \in Int
      BY <2>3 DEF lowByte, highByte
    <3> QED BY <2>3, <2>4, <3>1, TwoBytes
  <2>6. SpeedShown(ids[i], f.buf, s)
    BY <1>3, <2>5 DEF SpeedShown
  <2> QED BY <1>1, <2>6 DEF f, row
<1>4. CASE ids[i] = "DATA1"
  <2>1. row = <<highByte(s.RPM), lowByte(s.RPM), highByte(s.MAP * 10), lowByte(s.MAP * 10), highByte(s.TPS * 5), lowByte(s.TPS * 5), 0, 0>>
    BY <1>4 DEF DashMessage, HaltechMessage
  <2> HIDE DEF f, row
  <2>2. f.buf[1] = highByte(s.RPM) /\ f.buf[2] = lowByte(s.RPM)
    BY <1>1, <2>1
  <2>3. s.RPM \in Nat /\ s.RPM < 65536
    BY <1>0 DEF within
  <2>4. SpeedShown(ids[i], f.buf, s)
    BY <1>4, <2>2, <2>3, TwoBytes DEF SpeedShown
  <2> QED BY <1>1, <2>4 DEF f, row
<1>5. CASE ids[i] \notin {"DME1", "RPM", "DATA1"}
  BY <1>1, <1>5 DEF SpeedShown
<1> QED BY <1>2, <1>3, <1>4, <1>5

\* The buffer's flag is down but for the heater's command.
BusInv ==
  /\ DOMAIN outMsg = BufferFields /\ ~outMsg.extended
  /\ DOMAIN told = {"asked", "report"} /\ told.report \in CanReports
  /\ HeaterAlone /\ AnswersKept

LEMMA BroadcastKept ==
  ASSUME BusInv, \A s \in CanReports : IsReport(s), NEW f \in {10, 15, 30, 50}, sendCANBroadcast(f)
  PROVE  BusInv'
<1> DEFINE ids == broadcasts(f)
<1>1. PICK s \in CanReports, i \in DOMAIN ids :
        /\ outMsg' = prepared(ids, Len(ids), s) /\ written' = prepared(ids, i, s)
        /\ told' = [asked |-> -1, report |-> s]
  BY DEF sendCANBroadcast
<1>2. \A j \in DOMAIN ids : ids[j] \notin {"OBD", "WBO"}
  BY DEF broadcasts
<1>3. DOMAIN marked = BufferFields /\ ~marked.extended
  BY DEF marked, BusInv, BufferFields
<1>4. ASSUME NEW j
      PROVE  LET p == prepared(ids, j, s) IN DOMAIN p = BufferFields /\ p.id = ids[j] /\ p.extended = marked.extended
  BY <1>3, Filled DEF prepared, BufferFields
<1>5. SpeedShown(ids[i], prepared(ids, i, s).buf, s)
  <2>1. CASE ids[i] \notin {"DME1", "RPM", "DATA1"}
    BY <2>1 DEF SpeedShown
  <2>2. CASE ids[i] \in {"DME1", "RPM", "DATA1"}
    <3>1. DashMessage(ids[i], s) # <<>>
      BY <2>2 DEF DashMessage, BmwMessage, VagMessage, HaltechMessage
    <3>2. prepared(ids, i, s) = filled(marked, ids[i], DashMessage(ids[i], s))
      BY <3>1 DEF prepared
    <3> QED BY <3>2, <1>2, <1>3, DashKept
  <2> QED BY <2>1, <2>2
<1>6. ~outMsg'.extended /\ DOMAIN outMsg' = BufferFields /\ written'.id = ids[i] /\ ~written'.extended
  BY <1>1, <1>3, <1>4
<1> QED
  BY <1>1, <1>2, <1>5, <1>6 DEF BusInv, HeaterAlone, AnswersKept

LEMMA AnswerKept ==
  ASSUME NEW b, DOMAIN b = BufferFields, ~b.extended, NEW m \in Messages, NEW s, IsReport(s)
  PROVE  LET a == can_Command(b, m, s)
         IN /\ DOMAIN a = BufferFields /\ ~a.extended
            /\ answered(m) => Kept(a, [asked |-> IF pidMode(m) = 1 THEN number(m) ELSE -1, report |-> s])
<1> DEFINE c == [b EXCEPT !.extended = FALSE, !.len = 8]
           row == IF pidMode(m) = 1 THEN obdData(number(m), s) ELSE customData(number(m), m.bytes[4], auxIn, s)
           a == filled(c, "OBD", row)
<1>1. CASE ~answered(m)
  BY <1>1 DEF can_Command
<1>2. CASE answered(m)
  <2>1. can_Command(b, m, s) = a
    BY <1>2 DEF can_Command, obd_response
  <2>2. DOMAIN c = BufferFields /\ ~c.extended
    BY DEF BufferFields
  <2> HIDE DEF c
  <2>3. /\ DOMAIN a = BufferFields /\ a.id = "OBD" /\ ~a.extended
        /\ Len(row) = 8 /\ row # <<>> => a.len = 8 /\ \A i \in 1..8 : a.buf[i] = row[i]
    BY <2>2, Filled DEF BufferFields
  <2> DEFINE asked == IF pidMode(m) = 1 THEN number(m) ELSE -1
  <2>4. ASSUME asked \in Announced(s)
        PROVE  a.len = 8 /\ a.buf[2] = 65 /\ a.buf[3] = asked /\ ReadsBack(asked, a.buf[4], a.buf[5], s)
    <3>1. asked \in Known
      BY <2>4, AnnouncedKnown
    <3>2. pidMode(m) = 1 /\ asked = number(m) /\ row = obdData(asked, s)
      BY <3>1 DEF Known
    <3>3. Len(row) = 8 /\ row # <<>> /\ row[2] = 65 /\ row[3] = asked /\ ReadsBack(asked, row[4], row[5], s)
      BY <3>1, <3>2, AnswerRow
    <3> HIDE DEF a, row
    <3>4. a.len = 8 /\ \A i \in 1..8 : a.buf[i] = row[i]
      BY <2>3, <3>3 DEF a
    <3>5. a.buf[2] = row[2] /\ a.buf[3] = row[3] /\ a.buf[4] = row[4] /\ a.buf[5] = row[5]
      BY <3>4
    <3> QED BY <3>3, <3>4, <3>5 DEF a
  <2>5. SpeedShown(a.id, a.buf, s)
    BY <2>3 DEF SpeedShown
  <2> QED BY <2>1, <2>3, <2>4, <2>5 DEF Kept
<1> QED BY <1>1, <1>2

LEMMA BusPreserves ==
  ASSUME BusInv, CanAssumption,
         \/ UNCHANGED canVars \/ (\E f \in {10, 15, 30, 50} : sendCANBroadcast(f)) \/ CanReceive
         \/ readAuxInputs
  PROVE  BusInv'
<1>0. (\A s \in CanReports : IsReport(s)) /\ Received \subseteq Messages
  BY DEF CanAssumption
<1>1. CASE UNCHANGED canVars
  BY <1>1 DEF canVars, BusInv, HeaterAlone, AnswersKept
<1>2. ASSUME NEW f \in {10, 15, 30, 50}, sendCANBroadcast(f)
      PROVE  BusInv'
  BY <1>0, <1>2, BroadcastKept
<1>3. CASE CanReceive
  <2> DEFINE asked(m) == IF pidMode(m) = 1 THEN number(m) ELSE -1
  <2>1. PICK m \in Received, s \in CanReports :
          LET a == can_Command(outMsg, m, s)
          IN /\ outMsg' = receiveCANwbo(a, s)
             /\ \/ /\ answered(m) /\ written' = a
                   /\ told' = [asked |-> asked(m), report |-> s]
                \/ /\ canConfig.wbo = "RUSEFI" /\ written' = heaterCommand(a, s)
                   /\ told' = [asked |-> -1, report |-> s]
                \/ ~answered(m) /\ canConfig.wbo # "RUSEFI" /\ UNCHANGED <<written, told>>
    BY <1>3 DEF CanReceive
  <2> DEFINE built == can_Command(outMsg, m, s)
  <2>2. /\ DOMAIN built = BufferFields /\ ~built.extended
        /\ answered(m) => Kept(built, [asked |-> asked(m), report |-> s])
    BY <1>0, AnswerKept DEF BusInv
  <2> HIDE DEF built
  <2>3. LET h == heaterCommand(built, s) IN DOMAIN h = BufferFields /\ h.id = "WBO"
    <3>1. DOMAIN [built EXCEPT !.extended = TRUE] = {"id", "extended", "len", "buf"}
      BY <2>2 DEF BufferFields
    <3> QED BY <3>1, Filled DEF heaterCommand, BufferFields
  <2>4. DOMAIN outMsg' = BufferFields /\ ~outMsg'.extended
    BY <2>1, <2>2, <2>3 DEF receiveCANwbo, built, BufferFields
  <2>5. CASE answered(m) /\ written' = built /\ told' = [asked |-> asked(m), report |-> s]
    BY <2>2, <2>4, <2>5 DEF BusInv, HeaterAlone, AnswersKept, Kept
  <2>6. CASE written' = heaterCommand(built, s) /\ told' = [asked |-> -1, report |-> s]
    BY <2>3, <2>4, <2>6 DEF BusInv, HeaterAlone, AnswersKept, SpeedShown
  <2>7. CASE UNCHANGED <<written, told>>
    BY <2>4, <2>7 DEF BusInv, HeaterAlone, AnswersKept
  <2> QED BY <2>1, <2>5, <2>6, <2>7 DEF built
<1>4. CASE readAuxInputs
  <2>1. CASE UNCHANGED <<outMsg, written, told>>
    BY <2>1 DEF BusInv, HeaterAlone, AnswersKept
  <2>2. ASSUME NEW i, NEW j, outMsg' = question(outMsg, i), written' = question(outMsg, j),
               told' = [told EXCEPT !.asked = -1]
        PROVE  BusInv'
    <3>1. ASSUME NEW k
          PROVE  LET q == question(outMsg, k)
                 IN DOMAIN q = BufferFields /\ q.id = "question" /\ ~q.extended
      BY Filled DEF question, BufferFields, BusInv
    <3>2. DOMAIN told' = {"asked", "report"} /\ told'.report \in CanReports
      BY <2>2 DEF BusInv
    <3> QED BY <2>2, <3>1, <3>2 DEF BusInv, HeaterAlone, AnswersKept, SpeedShown
  <2> QED BY <1>4, <2>1, <2>2 DEF readAuxInputs
<1> QED BY <1>1, <1>2, <1>3, <1>4

\* The item a transmission goes on from is the one after the last that was sent.
SerialFields == {"status", "port", "want", "got", "command", "late", "allowLegacy", "items"}
Sends(s, r) ==
  /\ DOMAIN s = SerialFields
  /\ s.status \in Transmissions => s.items = r.sent
LineInv ==
  /\ DOMAIN reply = {"sent", "inOrder"} /\ reply.inOrder
  /\ Sends(serial, reply)

LEMMA GivenBack ==
  ASSUME NEW s, DOMAIN s = SerialFields, NEW caller
  PROVE  /\ DOMAIN givenBack(s, caller) = SerialFields
         /\ givenBack(s, caller).status = s.status /\ givenBack(s, caller).items = s.items
BY DEF givenBack, atRest, SerialFields

LEMMA SettledLine ==
  ASSUME NEW s, NEW r, Sends(s, r), NEW late, NEW caller
  PROVE  Sends(settled(s, late, caller), r)
<1> DEFINE t == IF late THEN [s EXCEPT !.status = "INACTIVE", !.late = TRUE] ELSE s
<1>1. Sends(t, r)
  BY DEF Sends, SerialFields, Transmissions
<1> HIDE DEF t
<1>2. Sends(givenBack(t, caller), r)
  BY <1>1, GivenBack DEF Sends
<1> QED BY <1>2 DEF settled, t

LEMMA Sent ==
  ASSUME NEW s, DOMAIN s = SerialFields, NEW r, NEW kind, NEW upto, r.sent = upto % Parts
  PROVE  Sends(sentUpTo(s, kind, upto), r)
BY DEF sentUpTo, Sends, SerialFields

\* What is read of a command of one letter sends nothing, or a reply from its start.
LEMMA LegacyLine ==
  ASSUME LineInv, NEW s, DOMAIN s = SerialFields, s.status \notin Transmissions,
         NEW r, NEW caller, legacyCommand(s, r, caller)
  PROVE  LineInv'
<1> USE DEF LineInv
<1> DEFINE Plain(x) == becomes(x, caller) /\ (UNCHANGED reply \/ \E upto : answers(upto))
<1>1. ASSUME NEW x, DOMAIN x = SerialFields, x.status \notin Transmissions, Plain(x)
      PROVE  LineInv'
  <2>1. Sends(serial', reply')
    BY <1>1, GivenBack DEF becomes, Sends
  <2> QED BY <1>1, <2>1 DEF answers
<1>2. DOMAIN finished(s) = SerialFields /\ finished(s).status \notin Transmissions
  BY DEF finished, SerialFields, Transmissions
<1>3. DOMAIN inProgress(s) = SerialFields /\ inProgress(s).status \notin Transmissions
  BY DEF inProgress, SerialFields, Transmissions
<1>4. ASSUME Plain(finished(s)) \/ Plain(inProgress(s))
      PROVE  LineInv'
  BY <1>1, <1>2, <1>3, <1>4
<1>5. ASSUME NEW q, NEW c, replied(s, q, c, caller) \/ obeyed(s, q, c, caller)
      PROVE  LineInv'
  BY <1>4, <1>5 DEF replied, obeyed, ends
<1>6. ASSUME NEW q, stillWaits(s, q, caller)
      PROVE  LineInv'
  BY <1>4, <1>6 DEF stillWaits
<1>7. ASSUME NEW x, DOMAIN x = SerialFields, NEW q, NEW to, sendValues(x, q, caller, to)
      PROVE  LineInv'
  <2>1. PICK upto \in 1..Parts : becomes(sentUpTo(x, "TRANSMIT_LEGACY", upto), caller) /\ answers(upto)
    BY <1>7 DEF sendValues
  <2>2. DOMAIN reply' = {"sent", "inOrder"} /\ reply'.inOrder /\ reply'.sent = upto % Parts
    BY <2>1 DEF answers
  <2>3. Sends(sentUpTo(x, "TRANSMIT_LEGACY", upto), reply')
    BY <1>7, <2>2, Sent
  <2>4. DOMAIN sentUpTo(x, "TRANSMIT_LEGACY", upto) = SerialFields
    BY <2>3 DEF Sends
  <2>5. Sends(serial', reply')
    BY <2>1, <2>3, <2>4, GivenBack DEF becomes, Sends
  <2> QED BY <2>2, <2>5
<1>8. ASSUME NEW to, handled(s, r, caller, to)
      PROVE  LineInv'
  <2>1. PICK o \in legacySerialHandler(s.command, r, to) :
          /\ becomes(IF o.waits THEN inProgress(s) ELSE finished(s), caller)
          /\ answers(Parts) \/ UNCHANGED reply
    BY <1>8 DEF handled
  <2> QED BY <1>4, <2>1
<1>9. ASSUME NEW q, sendToothLog_legacy(s, q, caller)
      PROVE  LineInv'
  BY <1>4, <1>9 DEF sendToothLog_legacy
<1>10. ASSUME NEW q, sendCompositeLog_legacy(s, q, caller)
      PROVE  LineInv'
  <2>1. PICK upto \in 0..Parts : becomes([finished(s) EXCEPT !.items = upto % Parts], caller) /\ answers(upto)
    BY <1>10 DEF sendCompositeLog_legacy
  <2> DEFINE x == [finished(s) EXCEPT !.items = upto % Parts]
  <2>2. DOMAIN x = SerialFields /\ x.status \notin Transmissions
    BY <1>2 DEF SerialFields
  <2>3. Plain(x)
    BY <2>1
  <2> HIDE DEF x
  <2> QED BY <1>1, <2>2, <2>3
<1>11. ASSUME carriedOut(s, r, caller), s.command \in Waiting
      PROVE  LineInv'
  <2>1. CASE s.command \in {"a", "d", "16u2"}
    BY <1>5, <1>11, <2>1 DEF carriedOut
  <2>2. CASE s.command = "E"
    BY <1>5, <1>11, <2>2 DEF carriedOut, handleButton
  <2>3. CASE s.command = "g"
    BY <1>4, <1>5, <1>11, <2>3 DEF carriedOut, receiveStorage
  <2>4. CASE s.command \in {"P", "p", "W"}
    BY <1>5, <1>11, <2>4 DEF carriedOut, setPage, sendPageFrom, setOffset
  <2>5. CASE s.command = "r"
    BY <1>2, <1>5, <1>7, <1>11, <2>5 DEF carriedOut, sendChannelsOf
  <2>6. CASE s.command = "T"
    BY <1>5, <1>9, <1>10, <1>11, <2>6 DEF carriedOut, sendLog
  <2> QED BY <1>11, <2>1, <2>2, <2>3, <2>4, <2>5, <2>6 DEF Waiting
<1> USE DEF LoggerStarts, LoggerStops, Waiting
<1>12. CASE s.command = "A"
  BY <1>7, <1>12 DEF legacyCommand
<1>13. CASE s.command \in {"b", "B", "M", "Q", "S"}
  BY <1>8, <1>13 DEF legacyCommand
<1>14. CASE s.command \in LoggerStarts \union LoggerStops
  <2>1. switchLogger(s, r, caller)
    BY <1>14 DEF legacyCommand
  <2> QED BY <1>4, <2>1 DEF switchLogger
<1>15. CASE s.command = "t"
  <2>1. ignoreCalibration(s, r, caller)
    BY <1>15 DEF legacyCommand
  <2> QED BY <1>5, <1>6, <2>1 DEF ignoreCalibration
<1>16. CASE s.command = "w"
  <2>1. setHeader(s, r, caller)
    BY <1>16 DEF legacyCommand
  <2> QED BY <1>5, <2>1 DEF setHeader
<1>17. CASE s.command = "z"
  BY <1>9, <1>17 DEF legacyCommand
<1>18. CASE s.command \in Waiting
  <2>1. stillWaits(s, r, caller) \/ carriedOut(s, r, caller)
    BY <1>18 DEF legacyCommand
  <2> QED BY <1>6, <1>11, <1>18, <2>1
<1>19. CASE s.command \notin {"A", "b", "B", "M", "Q", "S", "t", "w", "z"} \union LoggerStarts
              \union LoggerStops \union Waiting
  <2>1. replied(s, r, chunk, caller) \/ obeyed(s, r, chunk, caller)
    BY <1>19 DEF legacyCommand
  <2> QED BY <1>5, <2>1
<1> QED BY <1>12, <1>13, <1>14, <1>15, <1>16, <1>17, <1>18, <1>19

LEMMA SerialLine ==
  ASSUME LineInv, NEW caller, serialReceive(caller)
  PROVE  LineInv'
<1> USE DEF LineInv
<1> DEFINE port == portOf(caller)
<1> HIDE DEF port
<1>1. ASSUME NEW t, Sends(t, reply), NEW late, serial' = settled(t, late, caller), reply' = reply
      PROVE  LineInv'
  BY <1>1, SettledLine
<1>2. ASSUME readDTR(caller, port)
      PROVE  LineInv'
  <2> DEFINE t == [serial EXCEPT !.port = port]
  <2>1. Sends(t, reply)
    BY DEF Sends, SerialFields
  <2> HIDE DEF t
  <2>2. Sends(givenBack(t, caller), reply)
    BY <2>1, GivenBack DEF Sends
  <2>3. serial' = givenBack(t, caller) /\ reply' = reply
    BY <1>2 DEF readDTR, noReply, t
  <2> QED BY <2>2, <2>3
<1>3. ASSUME readLength(caller, port)
      PROVE  LineInv'
  <2> DEFINE t == [serial EXCEPT !.status = "RECEIVE", !.port = port, !.late = FALSE, !.got = 0,
                     !.want = IF Head(rx[port]) = "len" THEN 1 ELSE 2]
  <2>1. Sends(t, reply)
    BY DEF Sends, SerialFields, Transmissions
  <2>2. PICK late \in BOOLEAN : serial' = settled(t, late, caller) /\ reply' = reply
    BY <1>3 DEF readLength, noReply
  <2> HIDE DEF t
  <2> QED BY <1>1, <2>1, <2>2
<1>4. ASSUME readPayload(port)
      PROVE  LineInv'
  <2>1. reply' = reply /\ serial' = [serial EXCEPT !.got = @ + 1, !.port = port, !.command = Head(rx[port])]
    BY <1>4 DEF readPayload, noReply
  <2>2. DOMAIN serial' = SerialFields /\ serial'.status = serial.status /\ serial'.items = serial.items
    BY <2>1 DEF Sends, SerialFields
  <2> QED BY <2>1, <2>2 DEF Sends
<1>5. ASSUME readNothing(caller, port)
      PROVE  LineInv'
  <2> DEFINE t == [serial EXCEPT !.port = port]
  <2>1. Sends(t, reply)
    BY DEF Sends, SerialFields
  <2>2. serial' = settled(t, TRUE, caller) /\ reply' = reply
    BY <1>5 DEF readNothing, noReply
  <2> HIDE DEF t
  <2> QED BY <1>1, <2>1, <2>2
<1>6. ASSUME readCrc(caller, port)
      PROVE  LineInv'
  <2> DEFINE right == Head(rx[port]) = "crc" /\ serial.want = 1 /\ ~serial.late
             done(what, upto) ==
               IF right THEN processSerialCommand(what, upto) ELSE [serial EXCEPT !.status = "INACTIVE"]
  <2>1. PICK late \in {serial.late, TRUE}, what \in answersWith(serial.command), upto \in 0..Parts :
          /\ serial' = settled([done(what, upto) EXCEPT !.port = port], late, caller)
          /\ IF right THEN answerOf(what, upto) ELSE noReply
    BY <1>6 DEF readCrc
  <2>2. DOMAIN reply' = {"sent", "inOrder"} /\ reply'.inOrder
    BY <2>1 DEF answerOf, answers, noReply
  <2>3. Sends(done(what, upto), reply')
    <3>1. CASE ~right
      BY <3>1 DEF Sends, SerialFields, Transmissions
    <3> DEFINE locked == [serial EXCEPT !.status = "INACTIVE", !.allowLegacy = FALSE]
    <3>2. DOMAIN locked = SerialFields /\ locked.status \notin Transmissions
      BY DEF Sends, SerialFields, Transmissions
    <3>3. CASE right /\ what \notin {"values", "log"}
      <4>1. done(what, upto) = locked
        BY <3>3 DEF processSerialCommand
      <4> QED BY <3>2, <4>1 DEF Sends
    <3>4. CASE right /\ what \in {"values", "log"}
      <4>1. PICK kind : done(what, upto) = sentUpTo(locked, kind, upto)
        BY <3>4 DEF processSerialCommand
      <4>2. answers(upto)
        BY <2>1, <3>4 DEF answerOf
      <4>3. reply'.sent = upto % Parts
        BY <4>2 DEF answers
      <4> HIDE DEF locked
      <4> QED BY <3>2, <4>1, <4>3, Sent
    <3> QED BY <3>1, <3>3, <3>4
  <2> HIDE DEF done
  <2>4. Sends([done(what, upto) EXCEPT !.port = port], reply')
    BY <2>3 DEF Sends, SerialFields
  <2> QED BY <2>1, <2>2, <2>4, SettledLine
<1>7. ASSUME legacySerialCommand(caller, port), serial.status \notin Transmissions
      PROVE  LineInv'
  <2> DEFINE begun == [serial EXCEPT !.port = port, !.late = FALSE]
             first == [begun EXCEPT !.command = Head(rx[port])]
  <2>1. CASE legacyCommand(first, taken(port), caller)
    <3>1. DOMAIN first = SerialFields /\ first.status \notin Transmissions
      BY <1>7, <2>1 DEF Sends, SerialFields
    <3> HIDE DEF first
    <3> QED BY <2>1, <3>1, LegacyLine
  <2>2. CASE legacyCommand(begun, rx, caller)
    <3>1. DOMAIN begun = SerialFields /\ begun.status \notin Transmissions
      BY <1>7, <2>2 DEF Sends, SerialFields
    <3> HIDE DEF begun
    <3> QED BY <2>2, <3>1, LegacyLine
  <2> QED BY <1>7, <2>1, <2>2 DEF legacySerialCommand
<1> QED BY <1>2, <1>3, <1>4, <1>5, <1>6, <1>7 DEF serialReceive, port, Transmissions

LEMMA LinePreserves ==
  ASSUME LineInv,
         \/ UNCHANGED commsVars \/ (\E port \in Ports : HostSends(port)) \/ TimeoutPasses
         \/ serialTransmit \/ (\E caller \in Ports : serialReceive(caller)) \/ secondserial_Command
  PROVE  LineInv'
<1>1. CASE UNCHANGED <<serial, reply>>
  BY <1>1 DEF LineInv, Sends
<1>2. CASE TimeoutPasses
  BY <1>2 DEF LineInv, Sends, SerialFields, TimeoutPasses
<1>3. CASE serialTransmit
  <2>1. PICK upto \in serial.items..Parts :
          /\ continues(upto) /\ serial.status \in Transmissions
          /\ serial' = [resumed(serial, upto) EXCEPT !.status = IF upto = Parts THEN "INACTIVE" ELSE @]
    BY <1>3 DEF serialTransmit
  <2>2. reply' = [sent |-> upto % Parts, inOrder |-> TRUE]
    BY <2>1 DEF continues, LineInv, Sends
  <2>3. DOMAIN serial' = SerialFields /\ serial'.items = upto % Parts
    BY <2>1 DEF resumed, LineInv, Sends, SerialFields
  <2> QED BY <2>2, <2>3 DEF LineInv, Sends
<1>4. CASE \E caller \in Ports : serialReceive(caller)
  BY <1>4, SerialLine
<1>5. CASE \/ UNCHANGED commsVars \/ (\E port \in Ports : HostSends(port)) \/ secondserial_Command
  BY <1>1, <1>5 DEF commsVars, HostSends, secondserial_Command
<1> QED BY <1>2, <1>3, <1>4, <1>5

MessagesInv == BusInv /\ LineInv

LEMMA MessagesInit == Init => MessagesInv
<1> SUFFICES ASSUME Init PROVE MessagesInv
  OBVIOUS
<1>1. BusInv
  <2>1. /\ outMsg = [id |-> "none", extended |-> FALSE, len |-> 8, buf |-> [i \in 1..8 |-> 0]]
        /\ written = outMsg /\ told = [asked |-> -1, report |-> CHOOSE s \in CanReports : TRUE]
    BY DEF Init, CanInit
  <2>2. told.report \in CanReports
    BY <2>1, CanAssumption DEF CanAssumption
  <2> QED BY <2>1, <2>2 DEF BusInv, BufferFields, HeaterAlone, AnswersKept, SpeedShown
<1>2. serial = [status |-> "INACTIVE", port |-> "Serial", want |-> 1, got |-> 0, command |-> "len",
               late |-> FALSE, allowLegacy |-> TRUE, items |-> 0]
  BY DEF Init, CommsInit
<1>3. reply = [sent |-> 0, inOrder |-> TRUE]
  BY DEF Init, CommsInit
<1>4. Sends(serial, reply)
  BY <1>2 DEF Sends, SerialFields, Transmissions
<1> QED BY <1>1, <1>3, <1>4 DEF MessagesInv, LineInv

LEMMA MessagesNext == MessagesInv /\ [Next]_vars => MessagesInv'
<1> SUFFICES ASSUME MessagesInv, [Next]_vars PROVE MessagesInv'
  OBVIOUS
<1>1. LineInv'
  BY Disturbs, LinePreserves DEF MessagesInv
<1>2. BusInv'
  BY Disturbs, BusPreserves, CanAssumption DEF MessagesInv
<1> QED BY <1>1, <1>2 DEF MessagesInv

\* What is sent of a reply is its parts in order, through whatever port, call or
\* trigger comes in between; no plain message goes out as an extended one; and
\* whatever is announced is answered, and read back as the engine's.
THEOREM MessagesAlwaysKept == Spec => []MessagesKept
<1>1. MessagesInv => MessagesKept
  BY DEF MessagesInv, BusInv, LineInv, Sends, MessagesKept, SentInOrder
<1> QED BY <1>1, MessagesInit, MessagesNext, PTL DEF Spec

-----------------------------------------------------------------------------
(* The manifold pressure's samples and the road speed's pulses.           *)

ManifoldFields ==
  {"adc", "MAP", "lastMAP", "start", "total", "count", "low", "valid", "from", "to", "spans"}

\* What a cycle has gathered: its least reading and its mean lie in the span.
Gathered(m, low, high) ==
  /\ m.count \in Int /\ m.total \in Int /\ m.low \in Int
  /\ m.count >= 1 /\ m.count * low <= m.total /\ m.total <= m.count * high
  /\ low <= m.low /\ m.low <= high

ManifoldInv ==
  /\ DOMAIN manifold = ManifoldFields
  /\ manifold.adc \in Int /\ manifold.from \in Int /\ manifold.to \in Int
  /\ manifold.from <= manifold.to /\ manifold.spans
  /\ sensorConfig \in SensorConfigs
  /\ sensorConfig.mapSample # "Instantaneous" => Gathered(manifold, manifold.from, manifold.to)

\* The ring is in order: the last place is as old as the clock says, and every
\* gap between pulses that came is one that was there.
VssFields ==
  {"times", "index", "now", "age", "pulses", "read", "total", "gapsReal", "speed", "gear"}

VssInv ==
  /\ DOMAIN vss = VssFields
  /\ vss.times \in [0..3 -> 0..7] /\ vss.index \in 0..3 /\ vss.now \in 0..7
  /\ vss.age \in 0..2 /\ vss.pulses \in 0..4 /\ vss.read \in 0..3 /\ vss.gapsReal
  /\ vss.pulses > 0 => (vss.now - vss.times[vss.index]) % ClockModulus = vss.age
  /\ \A h \in 0..2 : h + 1 < vss.pulses => vssGetPulseGap(h) \in 1..MaxGap

LEMMA SensorSteps ==
  ASSUME [Next]_vars
  PROVE  /\ UNCHANGED <<sensorConfig, manifold>> \/ readMAP \/ SensorsStopped
         /\ UNCHANGED <<sensorConfig, vss>> \/ vssPulse \/ VssTime \/ readGap \/ readSpeedAndGear
<1>1. \/ UNCHANGED sensorVars \/ readMAP \/ Revolution \/ IgnitionCounted \/ readTPS \/ readFiltered
      \/ readBaro \/ HalfSecond \/ flexPulse \/ flexSecond \/ SensorsStopped
      \/ vssPulse \/ VssTime \/ readGap \/ readSpeedAndGear
  BY DEF vars, Next, Only, CorrectionParts, SensorParts, SpeedParts, TakeSpeed, Stall, TellRotation, SensorsChange,
      EngineSecond, Fan, FanTimer, AirCon, Second, PowerSwitch, Connect, Boost, BoostTune, BoostTimer,
      Valves, WaterInjection, ValveTimer, IdleControl, IdlePower, IdleTimer, StepTime, IdleTune, Rules,
      Nitrous, LaunchAndShift, Protect, LimitClock, ProtectTune, Button, Calibrate, Pulses, Millisecond,
      Pass, CoilCharges, Correct,
      CorrectUnsynced, Knock, Spark, TimePasses, Sample, Turn, Throttle, Analog, Baro, SpeedSensor,
      FlexSensor, Send, Silence, Transmit, Receive, SecondPort, Trigger, LogCleared, Broadcast,
      ReadBus, AskChannel
<1> QED BY <1>1 DEF sensorVars, readMAP, Revolution, IgnitionCounted, readTPS, readFiltered, readBaro,
      HalfSecond, flexPulse, flexSecond, SensorsStopped, vssPulse, VssTime, readGap, readSpeedAndGear

\* More of a reading is no less of a pressure.
LEMMA PressureInOrder ==
  ASSUME NEW a \in Int, NEW b \in Int, a <= b
  PROVE  mapADCToMAP(a) \in Int /\ mapADCToMAP(b) \in Int /\ mapADCToMAP(a) <= mapADCToMAP(b)
BY DEF mapADCToMAP, fastMap10Bit, mapMin, mapMax, Larger

\* The mean of readings is between the least and the greatest.
LEMMA MeanBetween ==
  ASSUME NEW total \in Int, NEW count \in Int, NEW low \in Int, NEW high \in Int,
         count >= 1, count * low <= total, total <= count * high
  PROVE  total \div count \in Int /\ low <= total \div count /\ total \div count <= high
<1> DEFINE q == total \div count
           r == total % count
<1>1. q \in Int /\ r \in Int /\ 0 <= r /\ r < count /\ total = (count * q) + r
  BY SMT
<1> HIDE DEF q, r
<1>2. low <= q
  <2> SUFFICES ASSUME q + 1 <= low PROVE FALSE
    BY <1>1
  <2>1. count * (q + 1) <= count * low
    BY <1>1, SMT
  <2>2. count * (q + 1) = (count * q) + count
    BY <1>1, SMT
  <2> QED BY <1>1, <2>1, <2>2
<1>3. q <= high
  <2> SUFFICES ASSUME high + 1 <= q PROVE FALSE
    BY <1>1
  <2>1. count * (high + 1) <= count * q
    BY <1>1, SMT
  <2>2. count * (high + 1) = (count * high) + count
    BY SMT
  <2> QED BY <1>1, <2>1, <2>2
<1> QED BY <1>1, <1>2, <1>3 DEF q

InSpan(x, low, high) == low <= x /\ x <= high

\* What a sampler leaves: in a cycle its readings, at its end a value between them.
Samples(after, m, low, high) ==
  /\ DOMAIN after = ManifoldFields /\ after.spans = m.spans
  /\ after.adc \in Int /\ after.valid \in BOOLEAN
  /\ after.valid => InSpan(after.adc, low, high)
  /\ ~after.valid => Gathered(after, low, high)
  /\ after.valid /\ sensorConfig.mapSample # "Instantaneous" => Gathered(after, m.adc, m.adc)

\* The next cycle begins with the last reading, whatever value ends this one.
LEMMA CycleEnds ==
  ASSUME NEW m, DOMAIN m = ManifoldFields, m.adc \in Int,
         NEW adc \in Int, NEW low, NEW high, InSpan(adc, low, high)
  PROVE  Samples(endCycle(m, adc), m, low, high)
<1> DEFINE start == startIndex
<1>1. endCycle(m, adc) =
        [[[m EXCEPT !.adc = adc] EXCEPT !.start = start, !.total = m.adc, !.count = 1, !.low = m.adc]
           EXCEPT !.valid = TRUE]
  BY DEF endCycle, asItIs, restart
<1> HIDE DEF start
<1>2. LET e == endCycle(m, adc)
      IN /\ DOMAIN e = ManifoldFields /\ e.spans = m.spans /\ e.adc = adc /\ e.valid
         /\ e.count = 1 /\ e.total = m.adc /\ e.low = m.adc
  BY <1>1 DEF ManifoldFields
<1> QED BY <1>2 DEF Samples, Gathered

LEMMA SamplesGathered ==
  ASSUME NEW m, DOMAIN m = ManifoldFields, m.adc \in Int, NEW usable \in BOOLEAN,
         NEW low \in Int, NEW high \in Int, InSpan(m.adc, low, high),
         sensorConfig \in SensorConfigs,
         sensorConfig.mapSample # "Instantaneous" => Gathered(m, low, high)
  PROVE  Samples(applyMapAlgorithm(m, usable), m, low, high)
<1>1. CASE sensorConfig.mapSample = "Instantaneous"
  <2>1. applyMapAlgorithm(m, usable) = [m EXCEPT !.valid = TRUE]
    BY <1>1 DEF applyMapAlgorithm, asItIs
  <2> QED BY <1>1, <2>1 DEF Samples, ManifoldFields
<1>2. ASSUME Gathered(m, low, high)
      PROVE  Samples(accumulate(m), m, low, high)
  <2>1. accumulate(m) = [[m EXCEPT !.total = @ + m.adc, !.count = @ + 1] EXCEPT !.valid = FALSE]
    BY DEF accumulate, notYet
  <2>2. LET e == accumulate(m)
        IN /\ DOMAIN e = ManifoldFields /\ e.spans = m.spans /\ e.adc = m.adc /\ e.valid = FALSE
           /\ e.count = m.count + 1 /\ e.total = m.total + m.adc /\ e.low = m.low
    BY <2>1 DEF ManifoldFields
  <2>3. (m.count + 1) * low = (m.count * low) + low /\ (m.count + 1) * high = (m.count * high) + high
    BY <1>2 DEF Gathered
  <2> HIDE DEF accumulate
  <2>4. Gathered(accumulate(m), low, high)
    BY <1>2, <2>2, <2>3 DEF Gathered, InSpan
  <2> QED BY <2>2, <2>4 DEF Samples
<1>3. Samples(endCycle(m, m.adc), m, low, high)
  BY CycleEnds
<1>4. ASSUME Gathered(m, low, high)
      PROVE  Samples(endCycle(m, m.total \div m.count), m, low, high)
  <2>1. m.total \div m.count \in Int /\ InSpan(m.total \div m.count, low, high)
    BY <1>4, MeanBetween DEF Gathered, InSpan
  <2> QED BY <2>1, CycleEnds
<1>5. CASE sensorConfig.mapSample = "CycleAverage"
  <2>1. applyMapAlgorithm(m, usable) = cycleAverageMAPReading(m, usable)
    BY <1>5 DEF applyMapAlgorithm
  <2> QED BY <1>2, <1>3, <1>4, <1>5, <2>1 DEF cycleAverageMAPReading
<1>6. CASE sensorConfig.mapSample = "IgnitionEventAverage"
  <2>1. applyMapAlgorithm(m, usable) = eventAverageMAPReading(m, usable)
    BY <1>6 DEF applyMapAlgorithm
  <2> QED BY <1>2, <1>3, <1>4, <1>6, <2>1 DEF eventAverageMAPReading
<1>7. CASE sensorConfig.mapSample = "CycleMinimum"
  <2>1. applyMapAlgorithm(m, usable) = cycleMinimumMAPReading(m)
    BY <1>7 DEF applyMapAlgorithm
  <2>2. Samples(endCycle(m, m.low), m, low, high)
    BY <1>7, CycleEnds DEF Gathered, InSpan
  <2> DEFINE least == [[m EXCEPT !.low = Smaller(@, m.adc)] EXCEPT !.valid = FALSE]
  <2>3. Samples(least, m, low, high)
    <3>1. /\ DOMAIN least = ManifoldFields /\ least.spans = m.spans /\ least.adc = m.adc
          /\ least.valid = FALSE /\ least.count = m.count /\ least.total = m.total
          /\ least.low = Smaller(m.low, m.adc)
      BY DEF ManifoldFields
    <3>2. Smaller(m.low, m.adc) \in Int /\ InSpan(Smaller(m.low, m.adc), low, high)
      BY <1>7 DEF Smaller, Gathered, InSpan
    <3> HIDE DEF least
    <3> QED BY <1>7, <3>1, <3>2 DEF Samples, Gathered, InSpan
  <2> QED BY <1>3, <2>1, <2>2, <2>3 DEF cycleMinimumMAPReading, notYet
<1> QED BY <1>1, <1>5, <1>6, <1>7 DEF SensorConfigs

\* What is gathered over is between the readings since the last update, and so is
\* what the result cycle has gathered.
LEMMA SpanKept ==
  ASSUME NEW m, DOMAIN m = ManifoldFields,
         m.from \in Int, m.to \in Int, m.spans, NEW adc \in Int,
         NEW low, low = Smaller(m.from, adc), NEW high, high = Larger(m.to, adc), m.from <= m.to,
         NEW after, NEW n, n.adc = adc, n.spans = m.spans, Samples(after, n, low, high),
         NEW gathered, gathered = IF after.valid THEN setMAPValuesFromReadings(after) ELSE after,
         NEW result, result = spanned(m, adc, gathered)
  PROVE  /\ DOMAIN result = ManifoldFields
         /\ result.adc \in Int /\ result.from \in Int /\ result.to \in Int
         /\ result.from <= result.to /\ result.spans
         /\ sensorConfig.mapSample # "Instantaneous" => Gathered(result, result.from, result.to)
<1>1. low \in Int /\ high \in Int /\ low <= adc /\ adc <= high
  BY DEF Smaller, Larger
<1>2. CASE ~after.valid
  <2>1. result = [after EXCEPT !.from = low, !.to = high]
    BY <1>2 DEF spanned
  <2>2. /\ DOMAIN result = ManifoldFields /\ result.adc = after.adc /\ result.spans = after.spans
        /\ result.from = low /\ result.to = high
        /\ result.count = after.count /\ result.total = after.total /\ result.low = after.low
    BY <2>1 DEF Samples, ManifoldFields
  <2>3. Gathered(after, low, high) /\ after.adc \in Int /\ after.spans
    BY <1>2 DEF Samples
  <2>4. Gathered(result, result.from, result.to)
    BY <2>2, <2>3 DEF Gathered
  <2>5. result.spans
    BY <2>2, <2>3, Zenon
  <2>6. result.from \in Int /\ result.to \in Int /\ result.from <= result.to
    BY <1>1, <2>2
  <2> QED BY <2>2, <2>3, <2>4, <2>5, <2>6, Zenon
<1>3. CASE after.valid
  <2>1. gathered = [after EXCEPT !.lastMAP = after.MAP, !.MAP = mapADCToMAP(after.adc)]
    BY <1>3 DEF setMAPValuesFromReadings
  <2>2. /\ DOMAIN gathered = ManifoldFields /\ gathered.adc = after.adc /\ gathered.valid = after.valid
        /\ gathered.MAP = mapADCToMAP(after.adc)
        /\ gathered.count = after.count /\ gathered.total = after.total /\ gathered.low = after.low
    BY <2>1 DEF Samples, ManifoldFields
  <2> DEFINE between == gathered.MAP \in mapADCToMAP(low)..mapADCToMAP(high)
  <2>3. between
    BY <1>1, <1>3, <2>2, PressureInOrder DEF Samples, InSpan
  <2>4. result = [gathered EXCEPT !.from = adc, !.to = adc, !.spans = between]
    BY <1>3, <2>2 DEF spanned
  <2> HIDE DEF between
  <2>5. /\ DOMAIN result = ManifoldFields /\ result.adc = gathered.adc /\ result.spans = between
        /\ result.from = adc /\ result.to = adc
        /\ result.count = gathered.count /\ result.total = gathered.total /\ result.low = gathered.low
    BY <2>2, <2>4 DEF ManifoldFields
  <2>6. /\ after.adc \in Int
        /\ sensorConfig.mapSample # "Instantaneous" => Gathered(after, adc, adc)
    BY <1>3 DEF Samples
  <2>7. sensorConfig.mapSample # "Instantaneous" => Gathered(result, result.from, result.to)
    BY <2>2, <2>5, <2>6 DEF Gathered
  <2>8. result.spans
    BY <2>3, <2>5, Zenon
  <2>9. result.from \in Int /\ result.to \in Int /\ result.from <= result.to
    BY <2>5
  <2> QED BY <2>2, <2>5, <2>6, <2>7, <2>8, <2>9, Zenon
<1> QED BY <1>2, <1>3

LEMMA ManifoldPreserves ==
  ASSUME ManifoldInv, UNCHANGED <<sensorConfig, manifold>> \/ readMAP \/ SensorsStopped
  PROVE  ManifoldInv'
<1> USE DEF ManifoldInv
<1>1. CASE UNCHANGED <<sensorConfig, manifold>>
  BY <1>1 DEF Gathered
<1>2. CASE readMAP
  <2>1. PICK raw \in Readings, usable \in BOOLEAN : manifold' = readMAPOf(manifold, raw, usable)
    BY <1>2 DEF readMAP
  <2>2. UNCHANGED sensorConfig
    BY <1>2 DEF readMAP
  <2> DEFINE adc == validateFilterMapSensorReading(raw, manifold.adc)
             n == [manifold EXCEPT !.adc = adc]
             low == Smaller(manifold.from, adc)
             high == Larger(manifold.to, adc)
             after == applyMapAlgorithm(n, usable)
             gathered == IF after.valid THEN setMAPValuesFromReadings(after) ELSE after
  <2>3. adc \in Int
    BY DEF validateFilterMapSensorReading, LOW_PASS_FILTER, Readings, ValidReadings, SensorConfigs
  <2>4. manifold' = spanned(manifold, adc, gathered)
    BY <2>1 DEF readMAPOf
  <2> HIDE DEF adc
  <2>5. /\ DOMAIN n = ManifoldFields /\ n.adc = adc /\ n.spans = manifold.spans
        /\ n.count = manifold.count /\ n.total = manifold.total /\ n.low = manifold.low
    BY DEF ManifoldFields
  <2>6. low \in Int /\ high \in Int /\ InSpan(n.adc, low, high)
        /\ low <= manifold.from /\ manifold.to <= high
    BY <2>3, <2>5 DEF Smaller, Larger, InSpan
  <2> HIDE DEF n, low, high
  <2>7. ASSUME sensorConfig.mapSample # "Instantaneous"
        PROVE  Gathered(n, low, high)
    <3>1. Gathered(manifold, manifold.from, manifold.to)
      BY <2>7
    <3>2. n.count * low <= n.count * manifold.from /\ n.count * manifold.to <= n.count * high
      BY <2>5, <2>6, <3>1, SMT DEF Gathered
    <3>3. n.count * low \in Int /\ n.count * manifold.from \in Int
          /\ n.count * high \in Int /\ n.count * manifold.to \in Int
      BY <2>5, <2>6, <3>1 DEF Gathered
    <3> QED BY <2>5, <2>6, <3>1, <3>2, <3>3 DEF Gathered
  <2>8. Samples(after, n, low, high)
    BY <2>3, <2>5, <2>6, <2>7, SamplesGathered
  <2> HIDE DEF after
  <2>9. /\ low = Smaller(manifold.from, adc) /\ high = Larger(manifold.to, adc)
        /\ gathered = IF after.valid THEN setMAPValuesFromReadings(after) ELSE after
    BY DEF low, high
  <2> HIDE DEF gathered
  <2>10. /\ DOMAIN manifold' = ManifoldFields
         /\ manifold'.adc \in Int /\ manifold'.from \in Int /\ manifold'.to \in Int
         /\ manifold'.from <= manifold'.to /\ manifold'.spans
         /\ sensorConfig.mapSample # "Instantaneous" => Gathered(manifold', manifold'.from, manifold'.to)
    BY <2>3, <2>4, <2>5, <2>8, <2>9, SpanKept
  <2> QED BY <2>2, <2>10 DEF Gathered
<1>3. CASE SensorsStopped
  <2> DEFINE after == asItIs(stopped(manifold))
             low == Smaller(manifold.from, manifold.adc)
             high == Larger(manifold.to, manifold.adc)
             gathered == setMAPValuesFromReadings(after)
  <2>1. manifold' = spanned(manifold, manifold.adc, gathered) /\ UNCHANGED sensorConfig
    BY <1>3 DEF SensorsStopped
  <2>2. after = [[manifold EXCEPT !.start = 0, !.total = manifold.adc, !.count = 1, !.low = manifold.adc]
                   EXCEPT !.valid = TRUE]
    BY DEF asItIs, stopped
  <2>3. /\ DOMAIN after = ManifoldFields /\ after.spans = manifold.spans /\ after.adc = manifold.adc
        /\ after.valid /\ after.valid \in BOOLEAN
        /\ after.count = 1 /\ after.total = manifold.adc /\ after.low = manifold.adc
    BY <2>2 DEF ManifoldFields
  <2> HIDE DEF after
  <2>4. InSpan(after.adc, low, high)
    BY <2>3 DEF Smaller, Larger, InSpan
  <2>5. Samples(after, manifold, low, high)
    BY <2>3, <2>4 DEF Samples, Gathered
  <2>6. /\ low = Smaller(manifold.from, manifold.adc) /\ high = Larger(manifold.to, manifold.adc)
        /\ gathered = IF after.valid THEN setMAPValuesFromReadings(after) ELSE after
    BY <2>3
  <2> HIDE DEF gathered, low, high
  <2>7. /\ DOMAIN manifold' = ManifoldFields
        /\ manifold'.adc \in Int /\ manifold'.from \in Int /\ manifold'.to \in Int
        /\ manifold'.from <= manifold'.to /\ manifold'.spans
        /\ sensorConfig.mapSample # "Instantaneous" => Gathered(manifold', manifold'.from, manifold'.to)
    BY <2>1, <2>5, <2>6, SpanKept
  <2> QED BY <2>1, <2>7 DEF Gathered
<1> QED BY <1>1, <1>2, <1>3

\* A pulse pushes every gap one place back; time only adds to the last.
LEMMA RingTurns ==
  ASSUME VssInv, vssPulse
  PROVE  VssInv'
<1> DEFINE slot == (vss.index + 1) % VSS_SAMPLES
<1>1. /\ vss.age > 0 /\ slot \in 0..3
      /\ vss' = [vss EXCEPT !.index = slot, !.times[slot] = vss.now,
                            !.pulses = Smaller(@ + 1, VSS_SAMPLES), !.age = 0]
  BY DEF VssInv, vssPulse, VSS_SAMPLES
<1>2. /\ slot = IF vss.index = 3 THEN 0 ELSE vss.index + 1
      /\ vss.pulses \in 0..4
  BY DEF VssInv, VSS_SAMPLES
<1> HIDE DEF slot
<1>3. /\ DOMAIN vss' = VssFields /\ vss'.index = slot /\ vss'.age = 0
      /\ vss'.now = vss.now /\ vss'.read = vss.read /\ vss'.gapsReal = vss.gapsReal
      /\ vss'.pulses = Smaller(vss.pulses + 1, VSS_SAMPLES)
      /\ vss'.times = [vss.times EXCEPT ![slot] = vss.now]
  BY <1>1 DEF VssInv, VssFields
<1>4. /\ vss'.times \in [0..3 -> 0..7] /\ vss'.times[slot] = vss.now
      /\ \A i \in 0..3 : i # slot => vss'.times[i] = vss.times[i]
  BY <1>1, <1>3 DEF VssInv
<1>5. vss'.pulses \in 0..4 /\ (vss.pulses < 4 => vss'.pulses = vss.pulses + 1)
      /\ (vss.pulses = 4 => vss'.pulses = 4)
  BY <1>2, <1>3 DEF Smaller, VSS_SAMPLES
<1>6. (vss'.now - vss'.times[vss'.index]) % ClockModulus = 0
  BY <1>3, <1>4 DEF VssInv, ClockModulus
<1>7. vss.pulses > 0 => vssGetPulseGap(0)' = vss.age
  BY <1>1, <1>2, <1>3, <1>4 DEF VssInv, vssGetPulseGap, VSS_SAMPLES
<1>8. \A h \in 0..1 : vssGetPulseGap(h + 1)' = vssGetPulseGap(h)
  BY <1>1, <1>2, <1>3, <1>4 DEF VssInv, vssGetPulseGap, VSS_SAMPLES
<1>9. ASSUME NEW h \in 0..2, h + 1 < vss'.pulses
      PROVE  vssGetPulseGap(h)' \in 1..MaxGap
  <2>1. CASE h = 0
    BY <1>1, <1>2, <1>5, <1>7, <1>9, <2>1 DEF VssInv, MaxGap
  <2>2. CASE h # 0
    <3>1. h - 1 \in 0..1 /\ (h - 1) + 1 = h /\ (h - 1) + 1 < vss.pulses
      BY <1>2, <1>5, <1>9, <2>2
    <3> DEFINE g == h - 1
    <3>2. vssGetPulseGap(g + 1)' = vssGetPulseGap(g) /\ g + 1 = h
      BY <1>8, <3>1
    <3>3. vssGetPulseGap(g) \in 1..MaxGap
      BY <3>1 DEF VssInv
    <3> QED BY <3>2, <3>3
  <2> QED BY <2>1, <2>2
<1> QED BY <1>1, <1>3, <1>4, <1>5, <1>6, <1>9 DEF VssInv

LEMMA VssPreserves ==
  ASSUME VssInv, UNCHANGED <<sensorConfig, vss>> \/ vssPulse \/ VssTime \/ readGap \/ readSpeedAndGear
  PROVE  VssInv'
<1>1. CASE UNCHANGED <<sensorConfig, vss>>
  BY <1>1 DEF VssInv, vssGetPulseGap
<1>2. CASE VssTime
  <2>1. vss.age < 2 /\ vss' = [vss EXCEPT !.now = (@ + 1) % ClockModulus, !.age = @ + 1]
    BY <1>2 DEF VssTime, MaxGap
  <2>2. /\ DOMAIN vss' = VssFields /\ vss'.now = (vss.now + 1) % ClockModulus /\ vss'.age = vss.age + 1
        /\ vss'.times = vss.times /\ vss'.index = vss.index /\ vss'.pulses = vss.pulses
        /\ vss'.read = vss.read /\ vss'.gapsReal = vss.gapsReal
    BY <2>1 DEF VssInv, VssFields
  <2>3. vss.pulses > 0 => (vss'.now - vss'.times[vss'.index]) % ClockModulus = vss'.age
    <3>1. vss.times[vss.index] \in 0..7
      BY DEF VssInv
    <3> QED BY <2>1, <2>2, <3>1 DEF VssInv, ClockModulus
  <2>4. \A h \in 0..2 : vssGetPulseGap(h)' = vssGetPulseGap(h)
    BY <2>2 DEF vssGetPulseGap
  <2>5. vss'.now \in 0..7 /\ vss'.age \in 0..2
    BY <2>1, <2>2 DEF VssInv, ClockModulus
  <2> QED BY <2>2, <2>3, <2>4, <2>5 DEF VssInv
<1>3. CASE vssPulse
  BY <1>3, RingTurns
<1>4. CASE readGap
  <2> DEFINE gap == vssGetPulseGap(vss.read)
             real == vss.pulses < VSS_SAMPLES \/ (vss.gapsReal /\ gap \in 1..MaxGap)
  <2>1. vss.read < 3 /\ vss' = [vss EXCEPT !.read = @ + 1, !.total = @ + gap, !.gapsReal = real]
    BY <1>4 DEF readGap, VSS_SAMPLES
  <2>2. real
    BY <2>1 DEF VssInv, VSS_SAMPLES
  <2> HIDE DEF gap, real
  <2>3. /\ DOMAIN vss' = VssFields /\ vss'.now = vss.now /\ vss'.age = vss.age
        /\ vss'.times = vss.times /\ vss'.index = vss.index /\ vss'.pulses = vss.pulses
        /\ vss'.read = vss.read + 1 /\ vss'.gapsReal = real
    BY <2>1 DEF VssInv, VssFields
  <2> QED BY <2>1, <2>2, <2>3 DEF VssInv, vssGetPulseGap
<1>5. CASE readSpeedAndGear
  <2>1. PICK speed \in getSpeed : \E gear \in getGear(speed) :
          vss' = [vss EXCEPT !.speed = speed, !.gear = gear, !.read = 0, !.total = 0]
    BY <1>5 DEF readSpeedAndGear
  <2>2. /\ DOMAIN vss' = VssFields /\ vss'.now = vss.now /\ vss'.age = vss.age
        /\ vss'.times = vss.times /\ vss'.index = vss.index /\ vss'.pulses = vss.pulses
        /\ vss'.read = 0 /\ vss'.gapsReal = vss.gapsReal
    BY <2>1 DEF VssInv, VssFields
  <2> QED BY <2>2 DEF VssInv, vssGetPulseGap
<1> QED BY <1>1, <1>2, <1>3, <1>4, <1>5

ReadingsInv == ManifoldInv /\ VssInv

LEMMA ReadingsInit == Init => ReadingsInv
<1> SUFFICES ASSUME Init PROVE ReadingsInv
  OBVIOUS
<1>1. sensorConfig \in SensorConfigs
  <2>1. fitted \in DOMAIN Tunes /\ sensorConfig \in
          (IF fitted \in SensorParts THEN Tunes[fitted] ELSE {CHOOSE c \in SensorConfigs : TRUE})
    BY DEF Init, SensorsInit
  <2>2. CASE fitted \in SensorParts
    <3>1. Configs(fitted) = SensorConfigs
      BY <2>2 DEF Configs, SensorParts, CorrectionParts
    <3> QED BY <2>1, <2>2, <3>1, ControlLoopAssumption DEF ControlLoopAssumption
  <2>3. CASE fitted \notin SensorParts
    <3>1. \E c \in SensorConfigs : TRUE
      <4>1. [mapSample |-> "CycleAverage", ADCFILTER |-> 0, tpsReversed |-> FALSE, useExtBaro |-> FALSE,
             vssMode |-> "OFF", flexEnabled |-> FALSE, egoType |-> FALSE] \in SensorConfigs
        BY DEF SensorConfigs
      <4> QED BY <4>1
    <3> QED BY <2>1, <2>3, <3>1
  <2> QED BY <2>2, <2>3
<1>2. manifold = [adc |-> 2, MAP |-> mapADCToMAP(2), lastMAP |-> 0, start |-> 0, total |-> 2,
                  count |-> 1, low |-> 2, valid |-> TRUE, from |-> 2, to |-> 2, spans |-> TRUE]
  BY DEF Init, SensorsInit
<1>3. ManifoldInv
  BY <1>1, <1>2 DEF ManifoldInv, ManifoldFields, Gathered
<1>4. vss = [times |-> [i \in 0..VSS_SAMPLES - 1 |-> 0], index |-> 0, now |-> 0, age |-> 1,
             pulses |-> 0, read |-> 0, total |-> 0, gapsReal |-> TRUE, speed |-> 0, gear |-> 0]
  BY DEF Init, SensorsInit
<1>5. VssInv
  BY <1>4 DEF VssInv, VssFields, VSS_SAMPLES
<1> QED BY <1>3, <1>5 DEF ReadingsInv

LEMMA ReadingsNext == ReadingsInv /\ [Next]_vars => ReadingsInv'
BY SensorSteps, ManifoldPreserves, VssPreserves DEF ReadingsInv

\* Whatever the way of sampling, the counters that wrap and the pulses that
\* come while gaps are read: the manifold pressure is between the readings
\* since the last update, and every gap added up is between two pulses.
THEOREM ReadingsAlwaysSampled == Spec => []ReadingsAreSampled
<1>1. ReadingsInv => ReadingsAreSampled
  BY DEF ReadingsInv, ManifoldInv, VssInv, ReadingsAreSampled
<1> QED BY <1>1, ReadingsInit, ReadingsNext, PTL DEF Spec
=============================================================================
