-------------------------------- MODULE Cooling --------------------------------
(***************************************************************************)
(* fanController.cpp and airconController.cpp.  The air conditioning asks  *)
(* for the radiator fan; the fan is looked at once a second in the timer   *)
(* interrupt, the compressor ten times a second in the main loop.          *)
(***************************************************************************)
EXTENDS EngineStatus

VARIABLES
  coolingConfig,  \* configPage2, 6 and 15: the fields below
  fan,            \* fan controller: status, duty, pin, timer
  aircon,         \* the air conditioning's flags and counters
  airconCalls     \* history: calls since a thing the compressor must wait for

coolingVars == <<coolingConfig, fan, aircon, airconCalls>>

CoolingConfigs ==
  [fanEnable : 0..2, fanWhenOff : BOOLEAN, fanWhenCranking : BOOLEAN,
   airConTurnsFanOn : BOOLEAN, pwmAvailable : BOOLEAN, airConEnable : BOOLEAN, acStandAloneFan : BOOLEAN]

fanOnTemp == 3
fanOffTemp == 1
fullDuty == 2
airConPwmFanMinDuty == 1
airConClTempCut == 3
airConTPSCutTime == 1
airConRPMCutTime == 1
airConAfterStartDelay == 1
airConCompOnDelay == 2
airConRPMs == 4..5   \* between airConMinRPMdiv10 and airConMaxRPMdiv100
LongAgo == 2         \* bound of the history

-----------------------------------------------------------------------------
(* The fan.                                                                *)

initialiseFan == [on |-> FALSE, duty |-> 0, pin |-> FALSE, timer |-> FALSE, pwmState |-> FALSE]

fanPermit == coolingConfig.fanWhenOff \/ rotationStatus = "Running"
fanForbidden == rotationStatus = "Cranking" /\ ~coolingConfig.fanWhenCranking
airConWantsFan == coolingConfig.airConTurnsFanOn /\ aircon.turningOn

switchFan(on) == [fan EXCEPT !.on = on, !.pin = on]

onOffFan ==
  IF fanPermit /\ (reading.coolant >= fanOnTemp \/ airConWantsFan) THEN switchFan(~fanForbidden)
  ELSE IF reading.coolant <= fanOffTemp \/ ~fanPermit THEN switchFan(FALSE)
  ELSE fan

fanPWMTable == [c \in 0..4 |-> IF c <= 1 THEN 0 ELSE IF c <= 3 THEN 1 ELSE fullDuty]

wantedDuty ==
  IF ~fanPermit \/ fanForbidden THEN 0
  ELSE IF airConWantsFan /\ fanPWMTable[reading.coolant] < airConPwmFanMinDuty
  THEN airConPwmFanMinDuty
  ELSE fanPWMTable[reading.coolant]

\* The timer runs between the extremes only; the pin is left to it.  Without
\* a timer to spare any duty is all on.
pwmFan ==
  LET d == wantedDuty
      timed == coolingConfig.pwmAvailable /\ d \in 1..fullDuty - 1
  IN [fan EXCEPT !.duty = d, !.on = d > 0, !.timer = timed,
                 !.pin = IF timed THEN @ ELSE d > 0]

fanControl ==
  /\ coolingConfig.fanEnable >= 1
  /\ fan' = IF coolingConfig.fanEnable = 1 THEN onOffFan ELSE pwmFan
  /\ UNCHANGED <<coolingConfig, aircon, airconCalls>>

fanInterrupt ==
  /\ fan.timer
  /\ fan' = [fan EXCEPT !.pin = ~fan.pwmState, !.pwmState = ~fan.pwmState]
  /\ UNCHANGED <<coolingConfig, aircon, airconCalls>>

\* The main loop sees the engine crank: the pin is dropped, the status is not.
fanOffWhenCranking ==
  /\ fan' = IF isCrankingSpeed /\ ~coolingConfig.fanWhenCranking
            THEN [fan EXCEPT !.pin = FALSE] ELSE fan
  /\ UNCHANGED <<coolingConfig, aircon, airconCalls>>

-----------------------------------------------------------------------------
(* The air conditioning.                                                   *)

initialiseAirCon ==
  [waitedAfterCranking |-> FALSE, acAfterEngineStartDelay |-> 0, acStartDelay |-> 0,
   acTPSLockoutDelay |-> 0, acRPMLockoutDelay |-> 0, cltLockout |-> FALSE,
   tpsLockout |-> FALSE, rpmLockout |-> FALSE, turningOn |-> FALSE,
   compressor |-> FALSE, fan |-> FALSE]

checkAfterStart(a) ==
  IF rotationStatus # "Running"
  THEN [a EXCEPT !.acAfterEngineStartDelay = 0, !.waitedAfterCranking = FALSE]
  ELSE IF a.acAfterEngineStartDelay >= airConAfterStartDelay
  THEN [a EXCEPT !.waitedAfterCranking = TRUE]
  ELSE [a EXCEPT !.acAfterEngineStartDelay = @ + 1]

checkAirConCoolantLockout(a) ==
  [a EXCEPT !.cltLockout = \/ reading.coolant > airConClTempCut
                           \/ @ /\ reading.coolant >= airConClTempCut - 1]

\* Over the limit the lock-out starts, and its delay with it; afterwards it
\* ends when as many calls have been counted.
checkAirConTPSLockout(a) ==
  CASE reading.tps = 1 -> [a EXCEPT !.tpsLockout = TRUE, !.acTPSLockoutDelay = 0]
    [] reading.tps = 0 /\ ~a.tpsLockout -> [a EXCEPT !.acTPSLockoutDelay = 0]
    [] OTHER -> IF a.acTPSLockoutDelay >= airConTPSCutTime
                THEN [a EXCEPT !.tpsLockout = FALSE]
                ELSE [a EXCEPT !.acTPSLockoutDelay = @ + 1]

checkAirConRPMLockout(a) ==
  IF rpm \notin airConRPMs THEN [a EXCEPT !.rpmLockout = TRUE, !.acRPMLockoutDelay = 0]
  ELSE IF a.acRPMLockoutDelay >= airConRPMCutTime THEN [a EXCEPT !.rpmLockout = FALSE]
  ELSE [a EXCEPT !.acRPMLockoutDelay = @ + 1]

MutantTurnOff(a) == [a EXCEPT !.turningOn = FALSE, !.fan = FALSE, !.compressor = FALSE]

turnOff(a) ==
  [a EXCEPT !.turningOn = FALSE, !.fan = FALSE, !.compressor = FALSE, !.acStartDelay = 0]

switchAirCon(a) ==
  LET fanOn == coolingConfig.acStandAloneFan IN
  IF /\ reading.request = 1
     /\ a.waitedAfterCranking /\ ~a.tpsLockout /\ ~a.rpmLockout /\ ~a.cltLockout
  THEN IF a.acStartDelay >= airConCompOnDelay
       THEN [a EXCEPT !.turningOn = TRUE, !.fan = fanOn, !.compressor = TRUE]
       ELSE [a EXCEPT !.turningOn = TRUE, !.fan = fanOn, !.acStartDelay = @ + 1]
  ELSE turnOff(a)

Since(happened, n) == IF happened THEN 0 ELSE IF n < LongAgo THEN n + 1 ELSE n

airConControl ==
  /\ coolingConfig.airConEnable
  /\ aircon' = switchAirCon(checkAirConRPMLockout(checkAirConTPSLockout(
                 checkAirConCoolantLockout(checkAfterStart(aircon)))))
  /\ airconCalls' =
       [start |-> Since(rotationStatus # "Running", airconCalls.start),
        tps |-> Since(reading.tps = 1, airconCalls.tps),
        rpm |-> Since(rpm \notin airConRPMs, airconCalls.rpm),
        idleUp |-> Since(~aircon.turningOn, airconCalls.idleUp)]
  /\ UNCHANGED <<coolingConfig, fan>>

-----------------------------------------------------------------------------
CoolingInit(configs) ==
  /\ coolingConfig \in configs
  /\ fan = initialiseFan
  /\ aircon = initialiseAirCon
  /\ airconCalls = [start |-> 0, tps |-> LongAgo, rpm |-> LongAgo, idleUp |-> 0]

\* What the status says of the fan is what its pin does: with no duty nothing
\* is left to switch it on again, and at full duty nothing switches it off.
FanAgrees ==
  /\ coolingConfig.fanEnable = 1 => (fan.pin => fan.on)
  /\ coolingConfig.fanEnable = 2 => /\ fan.duty = 0 => ~fan.pin /\ ~fan.timer
                                    /\ fan.duty = fullDuty => ~fan.timer

\* The compressor has waited: for the engine to run, for the throttle and the
\* speed to have been in range, and for idle-up and fan to have come first.
CompressorWaits ==
  aircon.compressor =>
    /\ aircon.turningOn
    /\ airconCalls.start > airConAfterStartDelay
    /\ airconCalls.tps > airConTPSCutTime
    /\ airconCalls.rpm > airConRPMCutTime
    /\ airconCalls.idleUp >= airConCompOnDelay
=============================================================================
