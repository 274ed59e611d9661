------------------------------ MODULE BoostControl ------------------------------
(***************************************************************************)
(* boostController.cpp: the duty of the boost solenoid, from a table or    *)
(* from a PID loop, and the interrupt that makes pulses of it.  Duties are *)
(* classes from 0, off, to fullDuty, always on; what a table or the loop   *)
(* yields is any of them.                                                  *)
(***************************************************************************)
EXTENDS EngineStatus

VARIABLES
  boostConfig,  \* configPage2, 4, 6, 9 and 15: the fields below
  boost         \* duty, target, counter, timer, and the pin

boostVars == <<boostConfig, boost>>

fullBoost == 3
BoostDuties == 0..fullBoost
BoostTargets == 0..1

BoostConfigs ==
  [boostEnabled : BOOLEAN, openLoop : BOOLEAN, boostByGearEnabled : 0..2,
   externalVss : BOOLEAN, flexEnabled : BOOLEAN, boostDCWhenDisabled : BoostDuties]

\* configPage9.boostByGear1 to 6, as classes of duty or target.
boostByGear == [g \in 1..6 |-> g % 2]

initialiseBoost ==
  [duty |-> 0, target |-> 0, counter |-> 0, timer |-> FALSE, pin |-> FALSE,
   pwmState |-> FALSE, fresh |-> TRUE]

MutantBoostDisable(b) == [b EXCEPT !.duty = 0, !.timer = FALSE]

boostDisable(b) == [b EXCEPT !.duty = 0, !.timer = FALSE, !.pin = FALSE]

boostThreshold == 1
boostWanted == reading.map >= boostThreshold

\* By gear the table is scaled (1) or not looked at (2); in a gear that has no
\* value nothing changes.
lookedUp(old, table) ==
  LET byGear == boostConfig.boostByGearEnabled > 0 /\ boostConfig.externalVss
  IN IF ~byGear THEN table
     ELSE IF reading.gear \notin 1..6 THEN old
     ELSE IF boostConfig.boostByGearEnabled = 1 THEN table * boostByGear[reading.gear]
     ELSE boostByGear[reading.gear]

openLoopBoost(b, table) == [b EXCEPT !.duty = lookedUp(b.duty, table)]

closedLoopTarget(b, table, flexCorrection) ==
  IF b.counter # 1 THEN b
  ELSE LET t == lookedUp(b.target, table) + (IF boostConfig.flexEnabled THEN flexCorrection ELSE 0)
       IN [b EXCEPT !.target = IF t > 1 THEN 1 ELSE t]

\* Below the threshold a fixed duty builds boost; above it the loop decides,
\* and keeps the old duty until its interval has passed.
closedLoopBoost(b, output) ==
  CASE ~boostWanted /\ boostConfig.boostDCWhenDisabled = 0 -> boostDisable(b)
    [] ~boostWanted /\ boostConfig.boostDCWhenDisabled > 0 ->
         [b EXCEPT !.duty = boostConfig.boostDCWhenDisabled, !.timer = TRUE]
    [] boostWanted /\ b.target = 0 -> boostDisable(b)
    [] OTHER -> [b EXCEPT !.duty = output]

\* No duty: timer and pin off.  Full duty: timer off, pin on.
boostDrive(b) ==
  CASE b.duty = 0 -> [b EXCEPT !.timer = FALSE, !.pin = FALSE]
    [] b.duty >= fullBoost -> [b EXCEPT !.timer = FALSE, !.pin = TRUE]
    [] OTHER -> [b EXCEPT !.timer = TRUE]

\* Switched off by the tune, the timer stops and the pin stays as it is.
boostControl ==
  /\ \E table \in IF boostConfig.openLoop THEN BoostDuties ELSE 0..1,
        flexCorrection \in IF boostConfig.flexEnabled THEN BoostTargets ELSE {0},
        output \in IF boostConfig.openLoop THEN {0} ELSE BoostDuties :
       LET b == IF ~boostConfig.boostEnabled THEN [boost EXCEPT !.timer = FALSE]
                ELSE IF boostConfig.openLoop THEN boostDrive(openLoopBoost(boost, table))
                ELSE boostDrive(closedLoopBoost(
                       closedLoopTarget(boost, IF table > 0 THEN 1 ELSE 0, flexCorrection),
                       output))
       IN boost' = [b EXCEPT !.counter = (@ + 1) % 8, !.fresh = TRUE]
  /\ UNCHANGED boostConfig

\* The tuning program changes configPage6.boostEnabled.
BoostSwitched ==
  /\ boostConfig' = [boostConfig EXCEPT !.boostEnabled = ~@]
  /\ boost' = [boost EXCEPT !.fresh = FALSE]

boostInterrupt ==
  /\ boost.timer
  /\ boost' = [boost EXCEPT !.pin = ~boost.pwmState, !.pwmState = ~boost.pwmState]
  /\ UNCHANGED boostConfig

BoostStopped ==
  /\ boost' = boostDisable(boost)
  /\ UNCHANGED boostConfig

-----------------------------------------------------------------------------
BoostInit(configs) ==
  /\ boostConfig \in configs
  /\ boost = initialiseBoost

\* The solenoid follows the duty that is reported: without a duty it is off
\* and no interrupt will switch it on, at full duty it is on for good.
BoostAgrees ==
  boost.fresh /\ boostConfig.boostEnabled =>
    /\ boost.duty = 0 => ~boost.timer /\ ~boost.pin
    /\ boost.duty = fullBoost => ~boost.timer /\ boost.pin
    /\ boost.duty \in 1..fullBoost - 1 => boost.timer
=============================================================================
