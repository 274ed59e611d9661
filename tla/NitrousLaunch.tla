------------------------------ MODULE NitrousLaunch ------------------------------
(***************************************************************************)
(* nitrous.cpp and launchController.cpp: the two stages of nitrous, each   *)
(* in its window of speeds, and the speed limits of a launch and of a      *)
(* shift with open throttle, which hang on when the clutch was pressed.    *)
(***************************************************************************)
EXTENDS EngineStatus

VARIABLES
  speedConfig,  \* configPage2, 6 and 10: the fields below
  nitrous,      \* status, and the two pins
  launch        \* the clutch, the speed at which it was pressed, the cuts

nitrousLaunchVars == <<speedConfig, nitrous, launch>>

SpeedConfigs ==
  [n2o_enable : 0..2, launchEnabled : BOOLEAN, flatSEnable : BOOLEAN, rolling : BOOLEAN]

Stage1 == {3, 4}      \* between n2o_stage1_minRPM and maxRPM
Stage2 == {4, 5}
flatSArm == 4
lnchHardLim == 3
rollingProtRPMDelta == -2
n2o_minCLT == 2

initialiseNitrous == [status |-> {}, stage1 |-> FALSE, stage2 |-> FALSE]

\* Armed, warm, throttle open, neither lean nor boosted.
nitrousReady ==
  /\ reading.request = 1 /\ reading.coolant > n2o_minCLT
  /\ reading.tps = 1 /\ reading.map < 2

MutantLowered(n) == [n EXCEPT !.stage1 = FALSE]
lowered(n) == [n EXCEPT !.stage1 = FALSE, !.stage2 = FALSE]

\* A stage's pin rises when it is in its window; pins fall when no stage is.
nitrousControl ==
  LET ready == speedConfig.n2o_enable > 0 /\ nitrousReady
      status == {s \in 1..2 : ready /\ IF s = 1 THEN rpm \in Stage1
                                       ELSE speedConfig.n2o_enable = 2 /\ rpm \in Stage2}
      raised == [status |-> status, stage1 |-> nitrous.stage1 \/ 1 \in status,
                 stage2 |-> nitrous.stage2 \/ 2 \in status]
  IN /\ nitrous' = IF status = {} /\ speedConfig.n2o_enable > 0 THEN lowered(raised) ELSE raised
     /\ UNCHANGED <<speedConfig, launch>>

initialiseLaunch ==
  [clutchTrigger |-> FALSE, previousClutchTrigger |-> FALSE, clutchEngagedRPM |-> 0,
   launchingHard |-> FALSE, flatShiftingHard |-> FALSE]

\* The flags start off; a launch that is possible excludes the flat shift.
checkLaunchAndFlatShift ==
  LET reads == speedConfig.launchEnabled \/ speedConfig.flatSEnable
      trigger == IF reads THEN reading.request = 1 ELSE launch.clutchTrigger
      engaged == IF trigger /\ ~launch.clutchTrigger THEN rpm ELSE launch.clutchEngagedRPM
      delta == IF speedConfig.rolling THEN rollingProtRPMDelta ELSE 0
      launching == /\ speedConfig.launchEnabled /\ trigger
                   /\ engaged < flatSArm /\ reading.tps = 1
      slow == reading.gear < 2     \* no speed sensor, or below its limit
  IN /\ launch' = [clutchTrigger |-> trigger, previousClutchTrigger |-> launch.clutchTrigger,
                   clutchEngagedRPM |-> engaged,
                   launchingHard |-> launching /\ slow /\ rpm > lnchHardLim + delta,
                   flatShiftingHard |-> /\ ~launching /\ speedConfig.flatSEnable /\ trigger
                                        /\ engaged >= flatSArm /\ rpm > engaged + delta]
     /\ UNCHANGED <<speedConfig, nitrous>>

NitrousLaunchInit(configs) ==
  /\ speedConfig \in configs
  /\ nitrous = initialiseNitrous
  /\ launch = initialiseLaunch

\* With no stage active both pins are low, whatever came before; an active
\* stage has its pin high.
NitrousAgrees ==
  /\ nitrous.status = {} => ~nitrous.stage1 /\ ~nitrous.stage2
  /\ 1 \in nitrous.status => nitrous.stage1
  /\ 2 \in nitrous.status => nitrous.stage2
=============================================================================
