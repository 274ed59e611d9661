---------------------------- MODULE ProtectionLimits ----------------------------
(***************************************************************************)
(* The limits of engineProtection.cpp: oil pressure, boost, lean mixture,  *)
(* speed and coolant each raise a flag in a pass of the main loop, some    *)
(* after a delay; the flags, a launch and a flat shift lower the greatest  *)
(* speed; and where that is reached everything is cut.  Which channels a   *)
(* rolling cut takes is EngineProtection's, the launch NitrousLaunch's.    *)
(***************************************************************************)
EXTENDS NitrousLaunch

VARIABLES
  limitConfig,    \* configPage4, 6, 9 and 10: the fields below
  oilLeft,        \* time to oilProtEndTime, NotSet where that is 0
  afrLeft,        \* time to afrProtectedActivateTime, NotSet where that is 0
  afrActive,      \* checkAFRLimitActive
  engineProtect,  \* the flags
  cutStatus,      \* schedulerCutState.status
  seen            \* history: how long the checks have found the pressure low and
                  \* the mixture lean, and what the last pass went by

limitVars == <<limitConfig, oilLeft, afrLeft, afrActive, engineProtect, cutStatus, seen>>

\* protect: engineProtectType is not off; oilPressure: both of its switches.
LimitConfigs ==
  [protect : BOOLEAN, oilPressure : BOOLEAN, boostCutEnabled : BOOLEAN, wideband : BOOLEAN,
   afrProtectEnabled : {"OFF", "FIXED", "TABLE"}, hardRevMode : {"OFF", "FIXED", "COOLANT"},
   afrProtectReactivationTPS : 0..1, oilPressureProtTime : Nat, afrProtectCutTime : Nat]

NotSet == -1
HardRevLim == 5
SoftRevLimit == 4
UnlimitedRPM == 7       \* UINT8_MAX, in hundreds
engineProtectMaxRPM == 4
oilPressureProtMins == IF rpm >= 4 THEN 1 ELSE 0
coolantProtRPM == IF reading.coolant <= 1 THEN 4 ELSE 5
boostLimit == 1
afrProtectDeviation == 2

Flags == [rpm : BOOLEAN, coolant : BOOLEAN, boostCut : BOOLEAN, oil : BOOLEAN, afr : BOOLEAN]
NoFlags == [rpm |-> FALSE, coolant |-> FALSE, boostCut |-> FALSE, oil |-> FALSE, afr |-> FALSE]
reduces(flags) == flags.boostCut \/ flags.oil \/ flags.afr

-----------------------------------------------------------------------------
(* checkEngineProtection.                                                  *)

checksOil == limitConfig.protect /\ limitConfig.oilPressure

\* The first low pressure starts the time, a good one ends it; a flag that is
\* up stays up while the pressure is low.
oilTimer(low) ==
  CASE ~checksOil -> oilLeft
    [] checksOil /\ ~low -> NotSet
    [] OTHER -> IF oilLeft = NotSet THEN limitConfig.oilPressureProtTime ELSE oilLeft

checkOilPressureLimit(low) == checksOil /\ low /\ (oilTimer(low) = 0 \/ engineProtect.oil)

canApplyAfrLimit ==
  limitConfig.protect /\ limitConfig.afrProtectEnabled # "OFF" /\ limitConfig.wideband

\* Lean under load: each of the sensors is where the limit applies.
isAfrLimitConditionActive(afrTarget) ==
  /\ reading.map >= 1 /\ rpm >= 4 /\ reading.tps >= 1
  /\ reading.O2 >= afrProtectDeviation + IF limitConfig.afrProtectEnabled = "TABLE" THEN afrTarget ELSE 0

reactivated == reading.tps <= limitConfig.afrProtectReactivationTPS

\* The first lean mixture starts the time; only a closed throttle ends it.
afrTimer(lean) ==
  CASE canApplyAfrLimit /\ reactivated -> NotSet
    [] canApplyAfrLimit /\ ~reactivated /\ lean /\ afrLeft = NotSet -> limitConfig.afrProtectCutTime
    [] OTHER -> afrLeft

checkAFRLimit(lean) ==
  /\ canApplyAfrLimit /\ ~reactivated
  /\ IF lean THEN afrTimer(lean) = 0 ELSE afrActive

checkCoolantLimit == limitConfig.hardRevMode = "COOLANT" /\ rpm > coolantProtRPM

\* lateSoft: the speed has been soft limited for longer than SoftLimMax.
checkRpmLimit(lateSoft) ==
  limitConfig.hardRevMode = "FIXED" /\ (rpm >= HardRevLim \/ (lateSoft /\ rpm >= SoftRevLimit))

checkEngineProtection(low, lean, lateSoft) ==
  IF ~limitConfig.protect THEN NoFlags
  ELSE [rpm |-> checkCoolantLimit \/ checkRpmLimit(lateSoft), coolant |-> checkCoolantLimit,
        boostCut |-> limitConfig.boostCutEnabled /\ reading.map > boostLimit,
        oil |-> checkOilPressureLimit(low), afr |-> checkAFRLimit(lean)]

-----------------------------------------------------------------------------
(* getMaxRpm, and what calculateFuelIgnitionChannelCut makes of it.        *)

getHardRevLimit ==
  CASE limitConfig.hardRevMode = "FIXED" -> HardRevLim
    [] limitConfig.hardRevMode = "COOLANT" -> coolantProtRPM
    [] OTHER -> UnlimitedRPM

applyEngineProtectionRevLimit(limit, flags) ==
  IF reduces(flags) THEN Least(limit, engineProtectMaxRPM) ELSE limit
applyHardLaunchRevLimit(limit) == IF launch.launchingHard THEN Least(limit, lnchHardLim) ELSE limit
applyFlatShiftRevLimit(limit) ==
  IF launch.flatShiftingHard THEN Least(limit, launch.clutchEngagedRPM) ELSE limit

getMaxRpm(flags) ==
  applyFlatShiftRevLimit(applyHardLaunchRevLimit(applyEngineProtectionRevLimit(getHardRevLimit, flags)))

\* starting: without sync, or before StgCycles revolutions.
zoneOf(flags, starting) ==
  CASE starting -> "starting"
    [] ~starting /\ limitConfig.protect /\ rpm >= getMaxRpm(flags) -> "above"
    [] /\ ~starting /\ limitConfig.protect /\ speedConfig.rolling
       /\ rpm < getMaxRpm(flags) /\ rpm > getMaxRpm(flags) + rollingProtRPMDelta -> "window"
    [] OTHER -> "below"

\* Within the window the cut stays what it is until the dice are rolled.
cutsIn(zone) ==
  CASE zone \in {"starting", "above"} -> {"Full"}
    [] zone = "window" -> {cutStatus, "Rolling"}
    [] OTHER -> {"None"}

\* A pass with sync and a speed.  Without a cut all flags are lowered again.
ProtectionPass ==
  /\ rpm > 0
  /\ \E oilPressure \in 0..1, afrTarget \in 0..1, lateSoft, starting \in BOOLEAN :
       LET low == oilPressure < oilPressureProtMins
           lean == isAfrLimitConditionActive(afrTarget)
           flags == checkEngineProtection(low, lean, lateSoft)
           zone == zoneOf(flags, starting)
       IN /\ oilLeft' = oilTimer(low)
          /\ afrLeft' = afrTimer(lean)
          /\ afrActive' = IF limitConfig.protect THEN flags.afr ELSE afrActive
          /\ cutStatus' \in cutsIn(zone)
          /\ engineProtect' = IF cutStatus' = "None" THEN NoFlags ELSE flags
          /\ seen' = [lowFor |-> CASE ~checksOil -> seen.lowFor
                                   [] checksOil /\ ~low -> NotSet
                                   [] OTHER -> IF seen.lowFor = NotSet THEN 0 ELSE seen.lowFor,
                      leanFor |-> CASE canApplyAfrLimit /\ reactivated -> NotSet
                                    [] canApplyAfrLimit /\ ~reactivated /\ lean /\ seen.leanFor = NotSet -> 0
                                    [] OTHER -> seen.leanFor,
                      zone |-> zone, at |-> rpm,
                      limited |-> launch.launchingHard \/ launch.flatShiftingHard,
                      onLimit |-> limitConfig.hardRevMode = "COOLANT" /\ rpm = coolantProtRPM]
  /\ UNCHANGED limitConfig

-----------------------------------------------------------------------------
\* A unit of the clock, which is far from its wrap; the history stops to count
\* when its time is over.
LimitTime ==
  /\ oilLeft' = IF oilLeft > 0 THEN oilLeft - 1 ELSE oilLeft
  /\ afrLeft' = IF afrLeft > 0 THEN afrLeft - 1 ELSE afrLeft
  /\ seen' = [seen EXCEPT
       !.lowFor = IF @ # NotSet /\ @ < limitConfig.oilPressureProtTime THEN @ + 1 ELSE @,
       !.leanFor = IF @ # NotSet /\ @ < limitConfig.afrProtectCutTime THEN @ + 1 ELSE @]
  /\ UNCHANGED <<limitConfig, afrActive, engineProtect, cutStatus>>

\* The tuning program switches the protection off or on again: no timer and no
\* flag knows of it before the next pass.
ProtectionSwitched ==
  /\ limitConfig' = [limitConfig EXCEPT !.protect = ~@]
  /\ UNCHANGED <<oilLeft, afrLeft, afrActive, engineProtect, cutStatus, seen>>

LimitsInit(configs) ==
  /\ limitConfig \in configs
  /\ oilLeft = NotSet /\ afrLeft = NotSet /\ afrActive = FALSE
  /\ engineProtect = NoFlags /\ cutStatus = "None"
  /\ seen = [lowFor |-> NotSet, leanFor |-> NotSet, zone |-> "below", at |-> 0,
             limited |-> FALSE, onLimit |-> FALSE]

-----------------------------------------------------------------------------
\* A flag that waits has waited: every check for its whole time found the
\* pressure low; the first lean one is that long ago, and the throttle has not
\* been closed since.  While a flag that lowers the speed is up, a pass above
\* that speed cuts everything; and what a pass cuts at the greatest speed has a
\* flag, a launch or a shift to tell why, but for the coolant's own limit, which
\* cuts from the speed its flag is only raised above.
LimitsTimed ==
  /\ engineProtect.oil => seen.lowFor >= limitConfig.oilPressureProtTime
  /\ engineProtect.afr => seen.leanFor >= limitConfig.afrProtectCutTime
  /\ reduces(engineProtect) /\ seen.at >= engineProtectMaxRPM => seen.zone \in {"starting", "above"}
  /\ seen.zone = "above" => engineProtect.rpm \/ reduces(engineProtect) \/ seen.limited \/ seen.onLimit
=============================================================================
