------------------------------- MODULE ControlLoop -------------------------------
(***************************************************************************)
(* speeduino.ino, loop(): the main loop around the parts that are not the  *)
(* schedules' or the decoder's, the interrupts that come between its       *)
(* steps, and the stall, which puts all of them back in one branch.        *)
(*                                                                         *)
(* The parts share what EngineStatus holds, and write none of it but for   *)
(* the timer.  So a property of one part holds beside the others if it     *)
(* holds with the others at rest: a behaviour follows one part, fitted,    *)
(* and the others keep their first state.  The steps of a pass come in any *)
(* order, each in its interrupt-free stretch.                              *)
(***************************************************************************)
EXTENDS Cooling, FuelPump, BoostControl, VariableValves, IdleValve,
        ProgrammableOutputs, ProtectionLimits, OutputTest, MillisecondTimer,
        IgnitionCorrections, Sensors, SerialComms, CanBus

CONSTANTS
  Tunes,         \* by part: the configurations a run looks at
  FirstReading,  \* by part: what the sensors say at first
  SpeedsRead,    \* by part: the speeds the decoder may report
  Watched,       \* by part: the sensors that change, each with its values
  PassTimes,     \* the timer flags of a pass that corrections look at
  LaunchTunes,   \* the launch and shift that the limits are followed with
  Algorithms     \* the idle algorithms the tuning program chooses from

Followed ==
  {"cooling", "pump", "boost", "valves", "idle", "rules", "nitrous", "limits", "test", "calibration",
   "timer", "corrections", "ego", "knock", "manifold", "throttle", "analog", "baro", "speed",
   "flex", "comms", "can"}

\* The sensors share a module and no state: each kind is followed by itself.
CorrectionParts == {"corrections", "ego", "knock"}
SpeedParts == {"nitrous", "limits"}  \* a launch lowers the limits
SensorParts == {"manifold", "throttle", "analog", "baro", "speed", "flex"}

\* What the tuning program can store for a part.
Configs(part) ==
  CASE part = "cooling" -> CoolingConfigs
    [] part = "pump" -> Bytes
    [] part = "boost" -> BoostConfigs
    [] part = "valves" -> VvtConfigs
    [] part = "idle" -> IdleConfigs
    [] part = "rules" -> Seq(RuleSettings)
    [] part = "nitrous" -> SpeedConfigs
    [] part = "limits" -> LimitConfigs
    [] part = "timer" -> TimerConfigs
    [] part = "comms" -> SerialConfigs
    [] part = "can" -> CanConfigs
    [] part \in CorrectionParts -> CorrConfigs
    [] part \in SensorParts -> SensorConfigs
    [] OTHER -> STRING

ASSUME ControlLoopAssumption ==
  /\ LaunchTunes \subseteq SpeedConfigs
  /\ DOMAIN Tunes \subseteq Followed
  /\ DOMAIN Tunes \subseteq DOMAIN SpeedsRead /\ DOMAIN Tunes \subseteq DOMAIN Watched
  /\ \A part \in DOMAIN Tunes :
       /\ FirstReading[part] \in Sensors
       /\ Tunes[part] \subseteq Configs(part)
       /\ SpeedsRead[part] \subseteq Speeds
       /\ \A s \in DOMAIN Watched[part] : \A v \in Watched[part][s] :
            \A r \in Sensors : [r EXCEPT ![s] = v] \in Sensors

VARIABLE fitted  \* the part this behaviour follows

vars ==
  <<fitted, engineVars, coolingVars, pumpVars, boostVars, vvtVars, idleVars, ruleVars,
    nitrousLaunchVars, limitVars, testVars, timerVars, correctionVars, sensorVars, commsVars,
    loggerVars, canVars>>

-----------------------------------------------------------------------------
\* All parts but the one a step is of stay as they are.
Only(part) ==
  /\ fitted = part
  /\ UNCHANGED fitted
  /\ part # "cooling" => UNCHANGED coolingVars
  /\ part # "pump" => UNCHANGED pumpVars
  /\ part # "boost" => UNCHANGED boostVars
  /\ part # "valves" => UNCHANGED vvtVars
  /\ part # "idle" => UNCHANGED idleVars
  /\ part # "rules" => UNCHANGED ruleVars
  /\ part \notin SpeedParts => UNCHANGED nitrousLaunchVars
  /\ part # "limits" => UNCHANGED limitVars
  /\ part \notin {"test", "calibration"} => UNCHANGED testVars
  /\ part # "timer" => UNCHANGED timerVars
  /\ part \notin CorrectionParts => UNCHANGED correctionVars
  /\ part \notin SensorParts => UNCHANGED sensorVars
  /\ part # "comms" => UNCHANGED <<commsVars, loggerVars>>
  /\ part # "can" => UNCHANGED canVars

\* The tunes of a part; one that is not followed has any tune.
tunes(part, all) == IF part = fitted THEN Tunes[part] ELSE {CHOOSE c \in all : TRUE}

NoSerial == [protocol |-> "OFF", secondTaken |-> "no", sent |-> [p \in Ports |-> {}], most |-> 1]
NoLimits ==
  [protect |-> FALSE, oilPressure |-> FALSE, boostCutEnabled |-> FALSE, wideband |-> FALSE,
   afrProtectEnabled |-> "OFF", hardRevMode |-> "OFF", afrProtectReactivationTPS |-> 0,
   oilPressureProtTime |-> 0, afrProtectCutTime |-> 0]

NoCan ==
  [protocol |-> "OFF", wbo |-> "OFF", secondarySerial |-> FALSE, intcan |-> FALSE, available |-> FALSE,
   littleEndian |-> FALSE,
   channels |-> [i \in Channels |->
     [select |-> "none", selectLocal |-> "none", bit6 |-> FALSE, bit7 |-> FALSE, pinIsUsed |-> FALSE,
      address |-> "own", twoBytes |-> FALSE, startByte |-> 0]]]

Init ==
  /\ fitted \in DOMAIN Tunes
  /\ EngineInit /\ reading = FirstReading[fitted]
  /\ CoolingInit(tunes("cooling", CoolingConfigs))
  /\ FuelPumpInit(tunes("pump", {0}))
  /\ BoostInit(tunes("boost", BoostConfigs))
  /\ VvtInit(tunes("valves", VvtConfigs))
  /\ IdleInit(tunes("idle", IdleConfigs))
  /\ fitted # "idle" => valve = 0
  /\ RulesInit(tunes("rules", {<<>>}))
  /\ NitrousLaunchInit(IF fitted = "limits" THEN LaunchTunes ELSE tunes("nitrous", SpeedConfigs))
  /\ LimitsInit(tunes("limits", {NoLimits}))
  /\ TestInit
  /\ TimerInit(tunes("timer", TimerConfigs))
  /\ CorrectionsInit(IF fitted \in CorrectionParts THEN Tunes[fitted] ELSE {CHOOSE c \in CorrConfigs : TRUE})
  /\ SensorsInit(IF fitted \in SensorParts THEN Tunes[fitted] ELSE {CHOOSE c \in SensorConfigs : TRUE})
  /\ CommsInit(tunes("comms", {NoSerial}))
  /\ CanInit(tunes("can", {NoCan}))

-----------------------------------------------------------------------------
(* The engine, as every part sees it.                                      *)

\* The head of a pass while teeth come: the speed, and the pump with it.
TakeSpeed ==
  /\ \E r \in SpeedsRead[fitted] :
       /\ setRpm(r)
       /\ IF fitted = "pump" THEN PumpTurning(r) ELSE UNCHANGED pumpVars
  /\ UNCHANGED <<fitted, coolingVars, boostVars, vvtVars, idleVars, ruleVars, nitrousLaunchVars,
                 limitVars, testVars, timerVars, correctionVars, sensorVars, commsVars, loggerVars, canVars>>

\* No tooth for too long: one branch puts back whatever the engine drove, and
\* does so again in every pass until there is a tooth.
Stall ==
  /\ StoppedTurning
  /\ IF fitted = "pump" THEN PumpStopped ELSE UNCHANGED pumpVars
  /\ IF fitted = "idle" THEN IdleStopped ELSE UNCHANGED idleVars
  /\ IF fitted = "valves" THEN VvtStopped ELSE UNCHANGED vvtVars
  /\ IF fitted = "boost" THEN BoostStopped ELSE UNCHANGED boostVars
  /\ IF fitted \in SensorParts THEN SensorsStopped ELSE UNCHANGED sensorVars
  /\ IF fitted \in CorrectionParts THEN CorrectionsStopped ELSE UNCHANGED correctionVars
  /\ IF fitted = "comms" THEN LoggersStopped ELSE UNCHANGED loggerVars
  /\ UNCHANGED <<fitted, coolingVars, ruleVars, nitrousLaunchVars, limitVars, testVars, timerVars,
                 commsVars, canVars>>

\* With sync and a speed: the state of the engine, and the fan with it.
TellRotation ==
  /\ SetRotationStatus
  /\ IF fitted = "cooling" THEN fanOffWhenCranking ELSE UNCHANGED coolingVars
  /\ UNCHANGED <<fitted, pumpVars, boostVars, vvtVars, idleVars, ruleVars, nitrousLaunchVars,
                 limitVars, testVars, timerVars, correctionVars, sensorVars, commsVars, loggerVars, canVars>>

\* Only what a part looks at changes while it is followed.
SensorsChange ==
  /\ \E s \in DOMAIN Watched[fitted] : ReadSensor(s, Watched[fitted][s])
  /\ UNCHANGED <<fitted, coolingVars, pumpVars, boostVars, vvtVars, idleVars, ruleVars, nitrousLaunchVars,
                 limitVars, testVars, timerVars, correctionVars, sensorVars, commsVars, loggerVars, canVars>>

\* The run time counts for the corrections; with the timer it is its own.
EngineSecond == \E part \in CorrectionParts : Only(part) /\ RunSecond /\ UNCHANGED correctionVars

-----------------------------------------------------------------------------
(* The steps of the parts.                                                 *)

Fan == Only("cooling") /\ fanControl /\ UNCHANGED engineVars
FanTimer == Only("cooling") /\ fanInterrupt /\ UNCHANGED engineVars
AirCon == Only("cooling") /\ airConControl /\ UNCHANGED engineVars

Second == Only("pump") /\ PumpSecond /\ UNCHANGED engineVars
PowerSwitch == Only("pump") /\ onPowerSourceSwitch /\ UNCHANGED engineVars
Connect == Only("pump") /\ resetSecl /\ UNCHANGED engineVars

Boost == Only("boost") /\ boostControl /\ UNCHANGED engineVars
BoostTune == Only("boost") /\ BoostSwitched /\ UNCHANGED engineVars
BoostTimer == Only("boost") /\ boostInterrupt /\ UNCHANGED engineVars

Valves == Only("valves") /\ vvtControl /\ UNCHANGED engineVars
WaterInjection == Only("valves") /\ wmiControl /\ UNCHANGED engineVars
ValveTimer == Only("valves") /\ VvtTick /\ UNCHANGED engineVars

IdleControl == Only("idle") /\ \E tenHz, airCon \in BOOLEAN : idleControl(tenHz, airCon) /\ UNCHANGED engineVars
IdlePower == Only("idle") /\ IdlePowered /\ UNCHANGED engineVars
IdleTimer == Only("idle") /\ idleInterrupt /\ UNCHANGED engineVars
StepTime == Only("idle") /\ StepTimePasses /\ UNCHANGED engineVars
IdleTune == Only("idle") /\ IdleAlgorithmChanged(Algorithms) /\ UNCHANGED engineVars

Rules == Only("rules") /\ checkProgrammableIO /\ UNCHANGED engineVars

Nitrous == Only("nitrous") /\ nitrousControl /\ UNCHANGED engineVars
LaunchAndShift ==
  \E part \in SpeedParts : Only(part) /\ checkLaunchAndFlatShift /\ UNCHANGED <<engineVars, limitVars>>

Protect == Only("limits") /\ ProtectionPass /\ UNCHANGED <<engineVars, nitrousLaunchVars>>
LimitClock == Only("limits") /\ LimitTime /\ UNCHANGED <<engineVars, nitrousLaunchVars>>
ProtectTune == Only("limits") /\ ProtectionSwitched /\ UNCHANGED <<engineVars, nitrousLaunchVars>>

Button == Only("test") /\ TestCommand /\ UNCHANGED engineVars
Calibrate == Only("calibration") /\ VssCommand /\ UNCHANGED engineVars
Pulses ==
  \E thirtyHz, oneKHz \in BOOLEAN :
    Only("test") /\ pulsedCommandController(thirtyHz, oneKHz) /\ UNCHANGED engineVars

Millisecond == Only("timer") /\ oneMSInterval
Pass == Only("timer") /\ TakeTimers /\ UNCHANGED engineVars
CoilCharges == Only("timer") /\ tachoOutputOn /\ UNCHANGED engineVars

Correct == \E part \in CorrectionParts : Only(part) /\ \E t \in PassTimes : CorrectionsPass(t) /\ UNCHANGED engineVars
CorrectUnsynced == \E part \in CorrectionParts : Only(part) /\ \E t \in PassTimes : CorrectionsUnsynced(t) /\ UNCHANGED engineVars
Knock == Only("knock") /\ knockPulse /\ UNCHANGED engineVars
Spark == \E part \in CorrectionParts : Only(part) /\ IgnitionEvent /\ UNCHANGED <<limits, knock>> /\ UNCHANGED engineVars
TimePasses == \E part \in CorrectionParts : Only(part) /\ CorrectionTime /\ UNCHANGED engineVars

Sample == Only("manifold") /\ readMAP /\ UNCHANGED engineVars
Turn == Only("manifold") /\ (Revolution \/ IgnitionCounted) /\ UNCHANGED engineVars
Throttle == Only("throttle") /\ readTPS /\ UNCHANGED engineVars
Analog == Only("analog") /\ readFiltered /\ UNCHANGED engineVars
Baro == Only("baro") /\ (readBaro \/ HalfSecond) /\ UNCHANGED engineVars
SpeedSensor == Only("speed") /\ (vssPulse \/ VssTime \/ readGap \/ readSpeedAndGear) /\ UNCHANGED engineVars
FlexSensor == Only("flex") /\ (flexPulse \/ flexSecond) /\ UNCHANGED engineVars

Send == Only("comms") /\ \E port \in Ports : HostSends(port) /\ UNCHANGED engineVars
Silence == Only("comms") /\ TimeoutPasses /\ UNCHANGED engineVars
Transmit == Only("comms") /\ serialTransmit /\ UNCHANGED engineVars
Receive(caller) == Only("comms") /\ serialReceive(caller) /\ UNCHANGED engineVars
SecondPort == Only("comms") /\ secondserial_Command /\ UNCHANGED engineVars
Trigger == Only("comms") /\ \E pin \in TriggerPins : CommsTrigger(pin) /\ UNCHANGED engineVars
LogCleared == Only("comms") /\ CommsLogCleared /\ UNCHANGED engineVars

Broadcast == Only("can") /\ \E f \in {10, 15, 30, 50} : sendCANBroadcast(f) /\ UNCHANGED engineVars
ReadBus == Only("can") /\ CanReceive /\ UNCHANGED engineVars
AskChannel == Only("can") /\ readAuxInputs /\ UNCHANGED engineVars

Next ==
  \/ TakeSpeed \/ Stall \/ TellRotation \/ SensorsChange \/ EngineSecond
  \/ Fan \/ FanTimer \/ AirCon
  \/ Second \/ PowerSwitch \/ Connect
  \/ Boost \/ BoostTune \/ BoostTimer
  \/ Valves \/ WaterInjection \/ ValveTimer
  \/ IdleControl \/ IdlePower \/ IdleTimer \/ StepTime \/ IdleTune
  \/ Rules
  \/ Nitrous \/ LaunchAndShift
  \/ Protect \/ LimitClock \/ ProtectTune
  \/ Button \/ Calibrate \/ Pulses
  \/ Millisecond \/ Pass \/ CoilCharges
  \/ Correct \/ CorrectUnsynced \/ Knock \/ Spark \/ TimePasses
  \/ Sample \/ Turn \/ Throttle \/ Analog \/ Baro \/ SpeedSensor \/ FlexSensor
  \/ Send \/ Silence \/ Transmit \/ (\E caller \in Ports : Receive(caller))
  \/ SecondPort \/ Trigger \/ LogCleared
  \/ Broadcast \/ ReadBus \/ AskChannel

Spec == Init /\ [][Next]_vars

\* The main loop goes round and the timers tick.  A tooth, a byte or a button
\* may never come.
StillStopped == rpm = 0 /\ Stall
Fairness ==
  /\ WF_vars(StillStopped) /\ WF_vars(AirCon) /\ WF_vars(Fan) /\ WF_vars(Nitrous)
  /\ WF_vars(IdleControl) /\ WF_vars(StepTime) /\ WF_vars(Millisecond)
  /\ WF_vars(Silence) /\ WF_vars(Receive("Serial")) /\ WF_vars(LogCleared)

FairSpec == Spec /\ Fairness

-----------------------------------------------------------------------------
\* What is reported of an output is what its pin and its timer do.
OutputsAgree == FanAgrees /\ (fitted = "pump" => PumpAgrees) /\ BoostAgrees /\ IdleAgrees /\ NitrousAgrees

\* The pulses made in interrupts are those the main loop has asked for.
PulsesKept == PulsesMatchDuties /\ StepsCounted

\* What has to wait has waited, and what has to end has ended.
TimesKept ==
  /\ CompressorWaits /\ RulesTimed /\ TestsEnd /\ TachoEnds
  /\ OverrunTimed /\ EgoWaits /\ AseEnds /\ KnockRecovers /\ LimitsTimed

\* What goes out on a line is what belongs there.
MessagesKept == SentInOrder /\ HeaterAlone /\ AnswersKept

\* The engine stands: compressor, fan, valves, nitrous and idle valve are off
\* and the tachometer's pin is back, but for a half-speed pulse cut short and
\* the sweep at power up.
AtRest ==
  /\ ~aircon.turningOn /\ ~aircon.compressor
  /\ coolingConfig.fanEnable = 1 /\ ~coolingConfig.fanWhenOff => ~fan.pin
  /\ ~vvt.timer /\ pulse.pin = <<FALSE, FALSE>>
  /\ ~nitrous.stage1 /\ ~nitrous.stage2
  /\ idle.fresh /\ idleConfig.iacAlgorithm = "PWM_OL" /\ ~idleConfig.idleUpEnabled =>
       ~pwm.timer /\ ~pwm.energised
  /\ ~timerConfig.halfSpeed /\ ~tacho.sweep => ~tacho.low

\* When the engine stands for good all this comes to rest and stays there,
\* though the main loop goes on to call every part.  The tune of the idle
\* valve is left alone by then.
Rests == <>[](rpm = 0 /\ (fitted = "idle" => idle.fresh)) => <>[]AtRest
=============================================================================
