----------------------------- MODULE EngineStatus -----------------------------
(***************************************************************************)
(* What the controllers of the auxiliary outputs share: the speed the main *)
(* loop last read from the decoder, the state of the engine it derives     *)
(* from it, and what the sensors say.  Speeds are ordered classes: 0 is a  *)
(* standstill, crankRPM the end of cranking.                               *)
(***************************************************************************)
EXTENDS Integers

VARIABLES
  rpm,             \* currentStatus.RPM
  rotationStatus,  \* "Stopped", "Cranking" or "Running"
  runSecs,         \* seconds run since the start
  reading          \* the sensors and input pins a controller looks at

engineVars == <<rpm, rotationStatus, runSecs, reading>>

Speeds == 0..6
crankRPM == 3
CRANK_RUN_HYSTER == 1
Least(a, b) == IF a < b THEN a ELSE b

MaxRun == 2  \* cap of runSecs (255 in the code)

\* Sensors, and the classes of values the controllers tell apart.
Sensors ==
  [coolant : 0..4, tps : 0..1, map : 0..2, request : 0..1, gear : 0..7, angle : 0..3, O2 : 0..3]

EngineInit ==
  /\ rpm = 0
  /\ rotationStatus = "Stopped"
  /\ runSecs = 0
  /\ reading \in Sensors

EngineTypeOK ==
  /\ rpm \in Speeds
  /\ rotationStatus \in {"Stopped", "Cranking", "Running"}
  /\ runSecs \in 0..MaxRun
  /\ reading \in Sensors

-----------------------------------------------------------------------------
\* isEngineRunning holds: the speed is taken over, the state waits for sync.
setRpm(r) ==
  /\ rpm' = r
  /\ UNCHANGED <<rotationStatus, runSecs, reading>>

\* The time between teeth is too great: the engine has stopped.
StoppedTurning ==
  /\ rpm' = 0
  /\ rotationStatus' = "Stopped"
  /\ runSecs' = 0
  /\ UNCHANGED reading

\* With sync and a speed the loop tells cranking from running; the time an
\* engine has run begins with its last cranking.
isRunningSpeed == rpm > crankRPM
isCrankingSpeed ==
  /\ ~isRunningSpeed
  /\ rotationStatus # "Running" \/ rpm < crankRPM - CRANK_RUN_HYSTER

SetRotationStatus ==
  /\ rpm > 0
  /\ rotationStatus' = CASE isRunningSpeed -> "Running"
                         [] isCrankingSpeed -> "Cranking"
                         [] OTHER -> rotationStatus
  /\ runSecs' = IF isCrankingSpeed THEN 0 ELSE runSecs
  /\ UNCHANGED <<rpm, reading>>

\* Once a second, in the timer interrupt.
RunSecond ==
  /\ rotationStatus # "Stopped"
  /\ runSecs' = IF runSecs < MaxRun THEN runSecs + 1 ELSE runSecs
  /\ UNCHANGED <<rpm, rotationStatus, reading>>

\* A sensor changes, among the values that are watched.
ReadSensor(sensor, values) ==
  /\ \E v \in values : reading' = [reading EXCEPT ![sensor] = v]
  /\ UNCHANGED <<rpm, rotationStatus, runSecs>>
=============================================================================
