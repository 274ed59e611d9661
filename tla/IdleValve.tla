------------------------------- MODULE IdleValve -------------------------------
(***************************************************************************)
(* idle.cpp: the idle air valve, which is switched, pulsed or moved by a   *)
(* stepper motor, open loop, closed loop or both.  Loads are classes from  *)
(* 0, closed, to fullLoad, open; steps are counted from the closed end.    *)
(* What the PID loop yields is any value within its output limits.         *)
(***************************************************************************)
EXTENDS EngineStatus, FiniteSets

CONSTANTS
  HomeSteps,  \* configPage6.iacStepHome * 3
  MaxSteps    \* configPage9.iacMaxSteps * 3

ASSUME IdleAssumption == MaxSteps \in Nat /\ HomeSteps \in Nat /\ MaxSteps < HomeSteps

VARIABLES
  idleConfig,  \* configPage2, 6 and 9: the fields below
  idle,        \* what both kinds of valve use: taper, load, idle-up, flags
  pwm,         \* the pulsed valve: target, timer, state and whether it is energised
  stepper,     \* idleStepper, its pins, and whether its interval has elapsed
  valve        \* the steps the motor has really made from the closed end

idleVars == <<idleConfig, idle, pwm, stepper, valve>>

PwmAlgorithms == {"PWM_OL", "PWM_CL", "PWM_OLCL"}
StepAlgorithms == {"STEP_OL", "STEP_CL", "STEP_OLCL"}
IdleConfigs ==
  [iacAlgorithm : PwmAlgorithms \union StepAlgorithms \union {"NONE", "ONOFF"},
   iacPWMrun : BOOLEAN, iacStepHyster : 0..1, iacStepperPower : BOOLEAN, idleUpEnabled : BOOLEAN]

fullLoad == 3
iacFastTemp == 2
idleTaperTime == 1
idleUpAdder == 1
airConIdleSteps == 1
Warm == reading.coolant >= iacFastTemp
iacCrankDutyTable == IF Warm THEN 0 ELSE 2
iacPWMTable == IF Warm THEN 1 ELSE 3
iacCrankStepsTable == IF Warm THEN 1 ELSE MaxSteps
iacStepTable == IF Warm THEN 0 ELSE MaxSteps \div 2
CLSteps == 0..MaxSteps

Between(a, b) == IF a < b THEN a..b ELSE b..a
isPwmIac == idleConfig.iacAlgorithm \in PwmAlgorithms
isStepperIac == idleConfig.iacAlgorithm \in StepAlgorithms

-----------------------------------------------------------------------------
(* The stepper motor.                                                      *)

\* Each rising edge of the step pin moves the motor, up to the closed end.
Edge(w, direction) ==
  IF w.stepper.pin THEN w.valve
  ELSE IF w.valve + direction \in 0..HomeSteps THEN w.valve + direction ELSE w.valve

Pulse(w, direction) ==
  [w EXCEPT !.valve = Edge(w, direction), !.idle.idleOn = TRUE,
            !.stepper = [@ EXCEPT !.enabled = TRUE, !.pin = TRUE, !.status = "STEPPING",
                                  !.elapsed = FALSE]]

MutantCheckForStepping(w) ==
  IF ~w.stepper.elapsed THEN w
  ELSE IF w.stepper.status = "STEPPING"
  THEN [w EXCEPT !.stepper = [@ EXCEPT !.status = "SOFF", !.elapsed = FALSE]]
  ELSE [w EXCEPT !.stepper.status = "SOFF"]

\* A pulse, then the time the pin must be low.  The driver loses its power
\* when the target is reached.
checkForStepping(w) ==
  LET s == w.stepper
      near == Between(s.curIdleStep, s.targetIdleStep)
      reached == Cardinality(near) - 1 <= idleConfig.iacStepHyster
  IN CASE s.status = "STEPPING" /\ s.elapsed ->
            [w EXCEPT !.stepper = [s EXCEPT !.pin = FALSE, !.status = "COOLING", !.elapsed = FALSE]]
       [] s.status = "COOLING" /\ s.elapsed ->
            [w EXCEPT !.stepper = [s EXCEPT !.status = "SOFF",
               !.enabled = @ /\ ~(idleConfig.iacStepperPower /\ reached)]]
       [] OTHER -> w

isStepping(w) == w.stepper.status # "SOFF"

doStep(w) ==
  LET s == w.stepper
      error == s.targetIdleStep - s.curIdleStep
      step(direction) == Pulse([w EXCEPT !.stepper.curIdleStep = @ + direction], direction)
  IN CASE error > idleConfig.iacStepHyster -> step(1)
       [] error < -idleConfig.iacStepHyster -> step(-1)
       [] OTHER -> w

isHomed(w) == w.stepper.completedHomeSteps >= HomeSteps

homeStep(w) == Pulse([w EXCEPT !.stepper.completedHomeSteps = @ + 1], -1)

\* What follows a step, or homing, runs when the motor is ready for it.
WhenReady(w, then(_)) ==
  LET c == checkForStepping(w)
  IN IF isStepping(c) THEN {c} ELSE IF ~isHomed(c) THEN {homeStep(c)} ELSE then(c)

limited(n) == Least(n, MaxSteps)

stepperTargets(w, tenHz, airCon) ==
  LET up == IF w.idle.idleUpActive THEN idleUpAdder ELSE 0
      extra == up + (IF airCon THEN airConIdleSteps ELSE 0)
      tapering == w.idle.idleTaper < idleTaperTime
      openLoop == idleConfig.iacAlgorithm = "STEP_OL"
  IN CASE rotationStatus # "Running" -> {limited(iacCrankStepsTable + up)}
       [] rotationStatus = "Running" /\ openLoop /\ ~(tenHz /\ rpm > 0) ->
            {limited(w.stepper.targetIdleStep)}
       [] rotationStatus = "Running" /\ openLoop /\ tenHz /\ rpm > 0 ->
            {limited(n + extra) : n \in IF tapering THEN Between(iacCrankStepsTable, iacStepTable)
                                                    ELSE {iacStepTable}}
       [] OTHER -> {limited(n + extra) : n \in CLSteps}

stepperControl(w, tenHz, airCon) ==
  WhenReady(w, LAMBDA c :
    LET taper == IF rotationStatus # "Running" THEN 0
                 ELSE IF tenHz /\ rpm > 0 /\ c.idle.idleTaper < idleTaperTime
                 THEN c.idle.idleTaper + 1 ELSE c.idle.idleTaper
    IN {doStep([c EXCEPT !.stepper.targetIdleStep = n, !.idle.idleTaper = taper,
                         !.idle.idleLoad = 0]) : n \in stepperTargets(c, tenHz, airCon)})

-----------------------------------------------------------------------------
(* The pulsed valve.                                                       *)

\* Both the zero load and the stall come here.  The valve pulsed by open and
\* closed loop together is not among those that are switched off.
disableIdle(w) ==
  CASE idleConfig.iacAlgorithm \in {"PWM_CL", "PWM_OL"} ->
         {[w EXCEPT !.pwm.timer = FALSE, !.pwm.energised = FALSE, !.idle.idleLoad = 0]}
    [] isStepperIac ->
         WhenReady(w, LAMBDA c : {[c EXCEPT !.stepper.targetIdleStep =
           limited(iacCrankStepsTable + (IF c.idle.idleUpActive THEN idleUpAdder ELSE 0))]})
    [] OTHER -> {[w EXCEPT !.idle.idleLoad = 0]}

\* The load of each algorithm and state of the engine; where none is computed
\* the last one stays, to which open loop adds the idle-up again.
newLoads(w, airCon) ==
  LET up == IF w.idle.idleUpActive THEN idleUpAdder ELSE 0
      ac == IF airCon THEN airConIdleSteps ELSE 0
      openLoop == idleConfig.iacAlgorithm = "PWM_OL"
      running == rotationStatus = "Running"
      held == IF rotationStatus = "Cranking" \/ idleConfig.iacPWMrun
              THEN iacCrankDutyTable ELSE w.idle.idleLoad
  IN CASE ~running -> {held + (IF openLoop THEN up ELSE 0)}
       [] running /\ openLoop ->
            {n + ac + up : n \in IF w.idle.idleTaper < idleTaperTime
                                 THEN Between(iacCrankDutyTable, iacPWMTable) ELSE {iacPWMTable}}
       [] OTHER -> {w.idle.idleLoad} \union 0..fullLoad

pwmDrive(w) ==
  CASE w.idle.idleLoad = fullLoad -> {[w EXCEPT !.pwm.timer = FALSE, !.pwm.energised = TRUE]}
    [] w.idle.idleLoad = 0 -> disableIdle(w)
    [] OTHER -> {[w EXCEPT !.pwm.timer = TRUE]}

pwmControl(w, tenHz, airCon) ==
  LET running == rotationStatus = "Running"
      openLoop == idleConfig.iacAlgorithm = "PWM_OL"
      taper == IF ~openLoop THEN w.idle.idleTaper
               ELSE IF rotationStatus = "Cranking" \/ (~running /\ idleConfig.iacPWMrun) THEN 0
               ELSE IF running /\ tenHz /\ w.idle.idleTaper < idleTaperTime
               THEN w.idle.idleTaper + 1 ELSE w.idle.idleTaper
      loaded(n) == [w EXCEPT !.idle = [@ EXCEPT !.idleLoad = Least(n, fullLoad), !.idleTaper = taper]]
  IN UNION {pwmDrive(loaded(n)) : n \in newLoads(w, airCon)}

-----------------------------------------------------------------------------
onOffControl(w) ==
  CASE ~Warm -> [w EXCEPT !.pwm.energised = TRUE, !.idle = [@ EXCEPT !.idleOn = TRUE, !.idleLoad = fullLoad]]
    [] Warm /\ w.idle.idleOn ->
         [w EXCEPT !.pwm.energised = FALSE, !.idle = [@ EXCEPT !.idleOn = FALSE, !.idleLoad = 0]]
    [] OTHER -> w

\* The timer is off; open loop switches it on.  A stepper motor homes if it is
\* forced to, whether or not a pulse is under way.
initialiseIdle(w, forcehoming) ==
  LET a == idleConfig.iacAlgorithm
      cold == a = "ONOFF" /\ ~Warm
  IN [w EXCEPT
        !.pwm = [w.pwm EXCEPT !.timer = a = "PWM_OL", !.energised = @ \/ cold],
        !.stepper = IF isStepperIac /\ forcehoming
                    THEN [w.stepper EXCEPT !.completedHomeSteps = 0, !.curIdleStep = 0, !.status = "SOFF"]
                    ELSE w.stepper,
        !.idle = [w.idle EXCEPT !.idleOn = @ \/ cold, !.initialised = a, !.idleLoad = 0, !.fresh = FALSE]]

World == [idle |-> idle, pwm |-> pwm, stepper |-> stepper, valve |-> valve]

Becomes(w) ==
  /\ idle' = w.idle /\ pwm' = w.pwm /\ stepper' = w.stepper /\ valve' = w.valve

\* The main loop, ten times a second for a pulsed valve, in every pass for a
\* stepper motor.
idleControl(tenHz, airCon) ==
  LET first == IF idle.initialised # idleConfig.iacAlgorithm THEN initialiseIdle(World, FALSE)
               ELSE World
      lit == IF isPwmIac /\ (rpm > 0 \/ idleConfig.iacPWMrun)
             THEN [first EXCEPT !.pwm.timer = TRUE] ELSE first
      w == [lit EXCEPT !.idle = [@ EXCEPT !.fresh = TRUE,
              !.idleUpActive = idleConfig.idleUpEnabled /\ reading.request = 1]]
  IN /\ \E after \in CASE isPwmIac -> pwmControl(w, tenHz, airCon)
                        [] isStepperIac -> stepperControl(w, tenHz, airCon)
                        [] idleConfig.iacAlgorithm = "ONOFF" -> {onOffControl(w)}
                        [] OTHER -> {w} :
          Becomes(after)
     \* A stepper algorithm clears iacPWMrun when it is initialised.
     /\ idleConfig' = IF idle.initialised # idleConfig.iacAlgorithm /\ isStepperIac
                      THEN [idleConfig EXCEPT !.iacPWMrun = FALSE] ELSE idleConfig

\* The stall branch of the main loop, unless the valve is run before cranking.
IdleStopped ==
  /\ IF idleConfig.iacPWMrun THEN UNCHANGED <<idle, pwm, stepper, valve>>
     ELSE \E w \in disableIdle(World) : Becomes(w)
  /\ UNCHANGED idleConfig

\* The battery has come on: the stepper motor homes again.
IdlePowered ==
  /\ isStepperIac
  /\ Becomes(initialiseIdle(World, TRUE))
  /\ idleConfig' = [idleConfig EXCEPT !.iacPWMrun = FALSE]

idleInterrupt ==
  /\ pwm.timer
  /\ pwm' = [pwm EXCEPT !.energised = ~pwm.state, !.state = ~pwm.state]
  /\ UNCHANGED <<idleConfig, idle, stepper, valve>>

\* iacStepTime or iacCoolTime has passed since the last change of the step pin.
StepTimePasses ==
  /\ stepper.status # "SOFF" /\ ~stepper.elapsed
  /\ stepper' = [stepper EXCEPT !.elapsed = TRUE]
  /\ UNCHANGED <<idleConfig, idle, pwm, valve>>

\* The tuning program chooses another algorithm.
IdleAlgorithmChanged(algorithms) ==
  /\ \E a \in algorithms : idleConfig' = [idleConfig EXCEPT !.iacAlgorithm = a]
  /\ idle' = [idle EXCEPT !.fresh = FALSE]
  /\ UNCHANGED <<pwm, stepper, valve>>

IdleInit(configs) ==
  /\ idleConfig \in configs
  /\ valve \in 0..MaxSteps
  /\ LET w == initialiseIdle(
           [idle |-> [idleTaper |-> 0, idleLoad |-> 0, idleOn |-> FALSE, idleUpActive |-> FALSE,
                      initialised |-> "NONE", fresh |-> FALSE],
            pwm |-> [timer |-> FALSE, state |-> FALSE, energised |-> FALSE],
            stepper |-> [curIdleStep |-> 0, targetIdleStep |-> 0, status |-> "SOFF",
                         completedHomeSteps |-> 0, pin |-> FALSE, enabled |-> FALSE,
                         elapsed |-> FALSE],
            valve |-> valve], TRUE)
     IN idle = w.idle /\ pwm = w.pwm /\ stepper = w.stepper

-----------------------------------------------------------------------------
\* Once homed, the step the program believes the valve to be at is the one it
\* is at, through stalls, changes of algorithm and homing again in the middle
\* of a pulse.
StepsCounted ==
  stepper.completedHomeSteps >= HomeSteps => stepper.curIdleStep = valve

\* The pulsed valve follows the load that is reported.
IdleAgrees ==
  idle.fresh /\ idleConfig.iacAlgorithm \in {"PWM_OL", "PWM_CL"} =>
    CASE idle.idleLoad = 0 -> ~pwm.timer /\ ~pwm.energised
      [] idle.idleLoad = fullLoad -> ~pwm.timer /\ pwm.energised
      [] OTHER -> pwm.timer
=============================================================================
