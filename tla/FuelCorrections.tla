---------------------------- MODULE FuelCorrections ----------------------------
(***************************************************************************)
(* corrections.cpp, the fuel: what is added or cut after a start, while    *)
(* cranking, on a movement of the throttle, on the overrun and by the      *)
(* oxygen sensor.  Each correction keeps its own count, in tenths of a     *)
(* second, in ignition events or in time, and is worked out once a pass    *)
(* while the engine turns with sync.                                       *)
(***************************************************************************)
EXTENDS EngineStatus

VARIABLES
  corrConfig,  \* configPage2, 4, 6, 9 and 10: the fields below
  enrich,      \* warm up, after start and cranking enrichment
  accel,       \* acceleration enrichment
  dfco,        \* fuel cut on the overrun, and its history
  ego          \* closed loop, ignitionCount, and their history

fuelCorrVars == <<corrConfig, enrich, accel, dfco, ego>>

CorrConfigs ==
  [aseTaperTime : 0..2, aeMode : {"NONE", "MAP", "TPS"}, dfcoEnabled : BOOLEAN,
   dfcoTaperEnable : BOOLEAN, egoAlgorithm : {"NONE", "SIMPLE", "PID"},
   knock_mode : {"OFF", "DIGITAL", "ANALOG"}, softLimit : BOOLEAN, idleAdv : BOOLEAN,
   spark2Switched : BOOLEAN]

NO_FUEL_CORRECTION == 100
ASE_COMPLETE == 4      \* 255 in the code: a taper of 25.5 s would look complete
AseSecs == 1
crankTaperTime == 1
warmCoolant == 3
aeTime == 2
aeTaperMax == 5
decelAmount == 80
dfcoRPM == 3
dfcoHyst == 1
dfcoDelay == 1
dfcoTaperTime == 2
egoCount == 2
egoLimit == 1
IgnitionModulus == 8   \* of the 16 bits of ignitionCount
Ever == 3              \* bound of the histories

Magnitude(d) == IF d < 0 THEN -d ELSE d
NextTenth(n, timers) == IF "10HZ" \in timers THEN n + 1 ELSE n

-----------------------------------------------------------------------------
\* Warm up: looked up when the coolant is read.
correctionWUE(e, timers) ==
  IF "CLT" \notin timers THEN e
  ELSE [e EXCEPT !.wueIsActive = reading.coolant < warmCoolant,
                 !.wueCorrection = NO_FUEL_CORRECTION + (IF reading.coolant < warmCoolant THEN 10 ELSE 0)]

correctionCranking(e, timers) ==
  CASE rotationStatus = "Cranking" -> [e EXCEPT !.crankingEnrichTaper = 0]
    [] rotationStatus # "Cranking" /\ e.crankingEnrichTaper < crankTaperTime ->
         [e EXCEPT !.crankingEnrichTaper = NextTenth(@, timers)]
    [] OTHER -> e

\* After start: full for a time that depends on the coolant, then tapered.
afterStart(e) ==
  CASE e.aseTaper = 0 /\ runSecs < AseSecs ->
         [e EXCEPT !.aseIsActive = TRUE, !.ASEValue = NO_FUEL_CORRECTION + 20]
    [] (e.aseTaper # 0 \/ runSecs >= AseSecs) /\ e.aseTaper < corrConfig.aseTaperTime ->
         [e EXCEPT !.aseIsActive = TRUE, !.ASEValue = NO_FUEL_CORRECTION + 10, !.aseTaper = @ + 1]
    [] OTHER ->
         [e EXCEPT !.aseIsActive = FALSE, !.ASEValue = NO_FUEL_CORRECTION, !.aseTaper = ASE_COMPLETE]

correctionASE(e, timers) ==
  CASE rotationStatus = "Cranking" ->
         [e EXCEPT !.aseIsActive = FALSE, !.ASEValue = NO_FUEL_CORRECTION, !.aseTaper = 0]
    [] rotationStatus # "Cranking" /\ e.aseTaper = ASE_COMPLETE ->
         [e EXCEPT !.ASEValue = NO_FUEL_CORRECTION]
    [] OTHER -> IF "10HZ" \in timers THEN afterStart(e) ELSE e

-----------------------------------------------------------------------------
accelEnrichmentOff(a) == [a EXCEPT !.accelerating = FALSE, !.decelerating = FALSE]
isAccelEnrichmentOn(a) == a.accelerating \/ a.decelerating

\* Nothing above the range of speeds, more when the engine is cold.
accelAmount(dot) ==
  IF rpm > aeTaperMax THEN 0
  ELSE IF reading.coolant < warmCoolant THEN 20 * dot ELSE 10 * dot

startAccel(a, dot) ==
  [a EXCEPT !.accelerating = dot > 0, !.decelerating = dot < 0, !.age = 0,
            !.amount = IF dot < 0 THEN decelAmount ELSE NO_FUEL_CORRECTION + accelAmount(dot),
            !.activatedReading = Magnitude(dot)]

\* One that runs ends with its time, or gives way to a greater movement.
correctionAccel(a, dot) ==
  LET ends == isAccelEnrichmentOn(a) /\ a.age >= aeTime
      resets == isAccelEnrichmentOn(a) /\ ~ends /\ Magnitude(dot) > a.activatedReading
      runs == isAccelEnrichmentOn(a) /\ ~ends /\ ~resets
  IN CASE runs -> a
       [] ~runs /\ dot # 0 /\ ~ends -> startAccel(a, dot)
       [] OTHER -> [accelEnrichmentOff(a) EXCEPT !.amount = NO_FUEL_CORRECTION]

\* Worked out when its sensor has been read, with the change since last time.
accelAfter(timers) ==
  IF corrConfig.aeMode = "NONE" \/ corrConfig.aeMode \notin timers THEN {accel}
  ELSE {correctionAccel(accel, dot) : dot \in -2..2}

-----------------------------------------------------------------------------
floodClear == rotationStatus = "Cranking" /\ reading.tps = 1

\* The overrun, while fuel flows: warm, fast, closed and not after a start.
overrun(aseIsActive) ==
  /\ reading.tps = 0 /\ reading.coolant >= warmCoolant
  /\ rpm > dfcoRPM + dfcoHyst /\ ~aseIsActive

correctionDFCO(d, aseIsActive, timers) ==
  CASE ~corrConfig.dfcoEnabled -> [d EXCEPT !.isDFCOActive = FALSE]
    [] corrConfig.dfcoEnabled /\ d.isDFCOActive ->
         LET stays == rpm > dfcoRPM /\ reading.tps = 0
         IN [d EXCEPT !.isDFCOActive = stays, !.dfcoDelay = IF stays THEN @ ELSE 0]
    [] OTHER ->
         IF ~overrun(aseIsActive) THEN [d EXCEPT !.dfcoDelay = 0]
         ELSE IF d.dfcoDelay < dfcoDelay THEN [d EXCEPT !.dfcoDelay = NextTenth(@, timers)]
         ELSE [d EXCEPT !.isDFCOActive = TRUE]

\* Fuel tapers off before it is cut; the taper is wound up while fuel flows.
correctionDFCOfuel(d, timers) ==
  LET tapers == corrConfig.dfcoTaperEnable /\ d.dfcoTaper # 0
  IN CASE ~d.isDFCOActive -> [d EXCEPT !.dfcoTaper = dfcoTaperTime, !.cut = FALSE]
       [] d.isDFCOActive /\ tapers ->
            [d EXCEPT !.dfcoTaper = IF "10HZ" \in timers THEN @ - 1 ELSE @, !.cut = FALSE]
       [] OTHER -> [d EXCEPT !.cut = TRUE]

Longer(n, happens, tenth) == IF ~happens THEN 0 ELSE IF tenth THEN Least(n + 1, Ever) ELSE n

\* How long the overrun had lasted when the cut began, and the cut since.
overrunHistory(before, d, aseIsActive, timers) ==
  LET tenth == "10HZ" \in timers
  IN [d EXCEPT !.heldFor = IF before.isDFCOActive /\ d.isDFCOActive THEN @
                           ELSE Longer(@, overrun(aseIsActive) /\ ~before.isDFCOActive, tenth),
               !.activeFor = Longer(@, d.isDFCOActive, tenth)]

-----------------------------------------------------------------------------

isAfrCorrectionEnabled == corrConfig.egoAlgorithm # "NONE" /\ ~dfco.isDFCOActive

isAfrClosedLoopOperational ==
  /\ reading.coolant > 1 /\ rpm > 2 /\ reading.tps = 0
  /\ reading.O2 # 0 /\ runSecs > 0 /\ reading.map < 2

Authority == NO_FUEL_CORRECTION - egoLimit .. NO_FUEL_CORRECTION + egoLimit

\* The count of ignition events and the next cycle wrap alike.
nextAfrCycleHasStarted(e) ==
  (e.ignitionCount - e.AFRnextCycle) % IgnitionModulus < IgnitionModulus \div 2

\* A step of one per cent towards the target, or what the PID controller says.
computeAFRCorrection(correction) ==
  IF corrConfig.egoAlgorithm = "PID" THEN Authority
  ELSE {CASE reading.O2 = 3 -> Least(correction + 1, NO_FUEL_CORRECTION + egoLimit)
          [] reading.O2 = 1 /\ correction > NO_FUEL_CORRECTION - egoLimit -> correction - 1
          [] OTHER -> correction}

correctionAFRClosedLoop ==
  IF ~isAfrCorrectionEnabled THEN {[ego EXCEPT !.correction = NO_FUEL_CORRECTION]}
  ELSE IF ~nextAfrCycleHasStarted(ego) THEN {ego}
  ELSE {[ego EXCEPT !.AFRnextCycle = (ego.ignitionCount + egoCount) % IgnitionModulus,
                    !.correction = c, !.waited = ego.since, !.since = 0] :
         c \in IF isAfrClosedLoopOperational THEN computeAFRCorrection(ego.correction)
               ELSE {NO_FUEL_CORRECTION}}

-----------------------------------------------------------------------------
\* The fuel side of a pass with sync, which has found these timers due.  What
\* cuts on the overrun is decided last: the oxygen sensor sees the pass before.
correctionsFuel(timers) ==
  LET e == correctionCranking(correctionASE(correctionWUE(enrich, timers), timers), timers)
      d == correctionDFCOfuel(correctionDFCO(dfco, e.aseIsActive, timers), timers)
  IN /\ enrich' = e
     /\ accel' \in accelAfter(timers)
     /\ ego' \in correctionAFRClosedLoop
     /\ dfco' = overrunHistory(dfco, d, e.aseIsActive, timers)

\* A coil has fired.
IgnitionEvent ==
  /\ rpm > 0 /\ corrConfig.egoAlgorithm # "NONE"
  /\ ego' = [ego EXCEPT !.ignitionCount = (@ + 1) % IgnitionModulus,
                        !.since = Least(@ + 1, egoCount)]
  /\ UNCHANGED <<corrConfig, enrich, accel, dfco>>

\* The stall: initialiseCorrections, and flags that end with the engine.
fuelCorrectionsReset ==
  /\ enrich' = [enrich EXCEPT !.wueIsActive = FALSE, !.wueCorrection = NO_FUEL_CORRECTION,
                              !.aseIsActive = FALSE, !.ASEValue = NO_FUEL_CORRECTION]
  /\ accel' = accelEnrichmentOff(accel)
  /\ ego' = [ego EXCEPT !.correction = NO_FUEL_CORRECTION, !.AFRnextCycle = 0,
                        !.ignitionCount = 0, !.since = egoCount, !.waited = egoCount]

FuelCorrectionsInit(configs) ==
  /\ corrConfig \in configs
  /\ enrich = [wueIsActive |-> FALSE, wueCorrection |-> NO_FUEL_CORRECTION,
               aseIsActive |-> FALSE, aseTaper |-> 0, ASEValue |-> NO_FUEL_CORRECTION,
               crankingEnrichTaper |-> 0]
  /\ accel = [accelerating |-> FALSE, decelerating |-> FALSE, amount |-> 0, age |-> 0,
              activatedReading |-> 0]
  /\ dfco = [isDFCOActive |-> FALSE, dfcoDelay |-> 0, dfcoTaper |-> 0, cut |-> FALSE,
             heldFor |-> 0, activeFor |-> 0]
  /\ ego = [correction |-> NO_FUEL_CORRECTION, AFRnextCycle |-> 0, ignitionCount |-> 0,
            since |-> egoCount, waited |-> egoCount]

\* Fuel is cut on an overrun that has lasted for its delay without a break,
\* and after the taper where there is one.
OverrunTimed ==
  /\ dfco.isDFCOActive => dfco.heldFor >= dfcoDelay
  /\ dfco.cut /\ corrConfig.dfcoTaperEnable => dfco.activeFor >= dfcoTaperTime

\* The closed loop takes its steps egoCount ignition events apart, over any
\* number of wraps, and stays within its authority.
EgoWaits == ego.waited >= egoCount /\ ego.correction \in Authority

\* When the enrichment after a start is over it no longer counts as active,
\* which would keep the overrun from being cut.
AseEnds == enrich.aseTaper = ASE_COMPLETE => ~enrich.aseIsActive /\ enrich.ASEValue = NO_FUEL_CORRECTION
=============================================================================
