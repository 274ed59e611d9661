-------------------------------- MODULE Sensors --------------------------------
(***************************************************************************)
(* sensors.cpp: the manifold pressure in its four ways of sampling, the    *)
(* throttle, the ambient pressure, the road speed and gear from the pulses *)
(* of an interrupt, the filtered inputs, and the flex fuel sensor of the   *)
(* timer interrupt.  An analog converter has five readings here, of which  *)
(* the lowest and the highest are invalid for a pressure.                  *)
(***************************************************************************)
EXTENDS EngineStatus

VARIABLES
  sensorConfig,  \* configPage2, 4 and 6: the fields below
  manifold,      \* mapAlgorithmState and MAP; the readings since the last update
  counts,        \* startRevolutions and ignitionCount, in their low bits
  throttle,      \* tpsADC, TPS, TPSlast and CTPSActive
  filtered,      \* the inputs that are only filtered
  ambient,       \* baro, whether it was saved, and how long ago a tooth passed
  vss,           \* vssTimes, the read of their gaps, speed and gear
  flex           \* flexCounter, pulse start and ethanolPct

sensorVars ==
  <<sensorConfig, manifold, counts, throttle, filtered, ambient, vss, flex>>

SensorConfigs ==
  [mapSample : {"Instantaneous", "CycleAverage", "CycleMinimum", "IgnitionEventAverage"},
   ADCFILTER : {0, 128}, tpsReversed : BOOLEAN, useExtBaro : BOOLEAN,
   vssMode : {"OFF", "INTERNAL_PIN", "EXTERNAL"}, flexEnabled : BOOLEAN, egoType : BOOLEAN]

Readings == 0..4
ValidReadings == 1..3
mapMin == -10
mapMax == 90
mapSwitchPoint == 2
RevModulus == 4    \* of the byte that revolutions and ignitions are cast to
RevTop == 7        \* startRevolutions goes on in its low bits after this
MaxSamples == 3    \* bound: readings in a cycle
VSS_SAMPLES == 4
ClockModulus == 8  \* of micros(), for the speed sensor
MaxGap == 2        \* bound: time between two pulses of the speed sensor

Smaller(a, b) == IF a < b THEN a ELSE b
Larger(a, b) == IF a > b THEN a ELSE b
clamp(x, low, high) == Smaller(Larger(x, low), high)

LOW_PASS_FILTER(input, alpha, prior) == (input * (256 - alpha) + prior * alpha) \div 256
fastMap10Bit(value, rangeMin, rangeMax) == rangeMin + (value * (rangeMax - rangeMin)) \div 4
mapADCToMAP(adc) == Larger(0, fastMap10Bit(adc, mapMin, mapMax))

-----------------------------------------------------------------------------
\* A manifold pressure out of its range leaves the reading before.
validateFilterMapSensorReading(raw, prior) ==
  IF raw \in ValidReadings THEN LOW_PASS_FILTER(raw, sensorConfig.ADCFILTER, prior) ELSE prior

canUseCycleAverage(synced) == rpm > mapSwitchPoint /\ synced /\ counts.revolutions > 1

\* Two revolutions, by the low byte: the index after the last is never met.
isCycleCurrent(m) == counts.revolutions % RevModulus \in {m.start, m.start + 1}
isIgnitionEventCurrent(m) == m.start = counts.ignitions
isIgnitionEventValid(m) == m.start < counts.ignitions

\* A sampler says whether there is a new value, which it leaves in adc.
notYet(m) == [m EXCEPT !.valid = FALSE]
asItIs(m) == [m EXCEPT !.valid = TRUE]

accumulate(m) == notYet([m EXCEPT !.total = @ + m.adc, !.count = @ + 1])

startIndex ==
  IF sensorConfig.mapSample = "IgnitionEventAverage" THEN counts.ignitions
  ELSE counts.revolutions % RevModulus

MutantRestart(m, raw) ==
  [m EXCEPT !.start = startIndex, !.total = @ + raw, !.count = 1, !.low = raw]

\* The next cycle begins with the reading that ended the last.
restart(m, raw) ==
  [m EXCEPT !.start = startIndex, !.total = raw, !.count = 1, !.low = raw]

endCycle(m, adc) == asItIs(restart([m EXCEPT !.adc = adc], m.adc))

cycleAverageMAPReading(m, usable) ==
  CASE ~canUseCycleAverage(usable) -> endCycle(m, m.adc)
    [] canUseCycleAverage(usable) /\ isCycleCurrent(m) -> accumulate(m)
    [] OTHER -> endCycle(m, IF m.total # 0 THEN m.total \div m.count ELSE m.adc)

cycleMinimumMAPReading(m) ==
  CASE rpm <= mapSwitchPoint -> endCycle(m, m.adc)
    [] rpm > mapSwitchPoint /\ isCycleCurrent(m) -> notYet([m EXCEPT !.low = Smaller(@, m.adc)])
    [] OTHER -> endCycle(m, m.low)

\* After the last of the byte's values comes 0, which is not later.
eventAverageMAPReading(m, usable) ==
  CASE ~canUseCycleAverage(usable) -> endCycle(m, m.adc)
    [] canUseCycleAverage(usable) /\ isIgnitionEventCurrent(m) -> accumulate(m)
    [] OTHER -> endCycle(m, IF m.total # 0 /\ isIgnitionEventValid(m)
                            THEN m.total \div m.count ELSE m.adc)

applyMapAlgorithm(m, usable) ==
  CASE sensorConfig.mapSample = "CycleAverage" -> cycleAverageMAPReading(m, usable)
    [] sensorConfig.mapSample = "CycleMinimum" -> cycleMinimumMAPReading(m)
    [] sensorConfig.mapSample = "IgnitionEventAverage" -> eventAverageMAPReading(m, usable)
    [] OTHER -> asItIs(m)

\* The value is taken over, and the one before kept for its rate of change.
setMAPValuesFromReadings(m) == [m EXCEPT !.lastMAP = m.MAP, !.MAP = mapADCToMAP(m.adc)]

\* History: the span of the readings since an update, and whether it held MAP.
spanned(m, adc, after) ==
  LET low == Smaller(m.from, adc)
      high == Larger(m.to, adc)
  IN IF ~after.valid THEN [after EXCEPT !.from = low, !.to = high]
     ELSE [after EXCEPT !.from = adc, !.to = adc,
                        !.spans = after.MAP \in mapADCToMAP(low)..mapADCToMAP(high)]

\* usable: in sync, and no protection cuts sparks (for the ignition events).
readMAPOf(m, raw, usable) ==
  LET adc == validateFilterMapSensorReading(raw, m.adc)
      after == applyMapAlgorithm([m EXCEPT !.adc = adc], usable)
  IN spanned(m, adc, IF after.valid THEN setMAPValuesFromReadings(after) ELSE after)

readMAP ==
  /\ manifold.count < MaxSamples
  /\ \E raw \in Readings, usable \in BOOLEAN : manifold' = readMAPOf(manifold, raw, usable)
  /\ UNCHANGED <<sensorConfig, counts, throttle, filtered, ambient, vss, flex>>

\* Counted in the interrupts.
Revolution ==
  /\ rpm > 0
  /\ counts' = [revolutions |-> IF counts.revolutions < RevTop THEN counts.revolutions + 1
                                ELSE RevTop - RevModulus + 1,
                ignitions |-> counts.ignitions]
  /\ ambient' = [ambient EXCEPT !.sinceTooth = 0]
  /\ UNCHANGED <<sensorConfig, manifold, throttle, filtered, vss, flex>>

IgnitionCounted ==
  /\ rpm > 0
  /\ counts' = [counts EXCEPT !.ignitions = (@ + 1) % RevModulus]
  /\ UNCHANGED <<sensorConfig, manifold, throttle, filtered, ambient, vss, flex>>

-----------------------------------------------------------------------------
\* A throttle sensor wired backwards counts down: both ends are reversed.
tpsOf(adc) ==
  LET top == 4
      value == IF sensorConfig.tpsReversed THEN top - adc ELSE adc
  IN ((clamp(value, 1, 3) - 1) * 200) \div 2

readTPS ==
  /\ \E raw \in Readings, ctps \in BOOLEAN :
       LET adc == LOW_PASS_FILTER(raw, sensorConfig.ADCFILTER, throttle.tpsADC)
       IN throttle' = [tpsADC |-> adc, TPS |-> tpsOf(adc), TPSlast |-> throttle.TPS, CTPSActive |-> ctps]
  /\ UNCHANGED <<sensorConfig, manifold, counts, filtered, ambient, vss, flex>>

\* The temperatures, the oxygen sensor, which is only read when there is one,
\* the battery and the two pressures, which are held to their range: each is
\* read at a rate of its own.
filteredOf(raw, prior) == LOW_PASS_FILTER(raw, sensorConfig.ADCFILTER, prior)

readCLT(raw) == [filtered EXCEPT !.cltADC = filteredOf(raw, @)]
readIAT(raw) == [filtered EXCEPT !.iatADC = filteredOf(raw, @)]
readO2(raw) == [filtered EXCEPT !.O2ADC = IF sensorConfig.egoType THEN filteredOf(raw, @) ELSE 0]
readBat(raw) == [filtered EXCEPT !.battery10 = clamp(filteredOf(raw, @), 0, 4)]
updateFuelPressure(raw) == [filtered EXCEPT !.fuelPressure = clamp(filteredOf(raw, @), 0, 3)]
updateOilPressure(raw) == [filtered EXCEPT !.oilPressure = clamp(filteredOf(raw, @), 0, 3)]

readFiltered ==
  /\ \E raw \in Readings :
       filtered' \in {readCLT(raw), readIAT(raw), readO2(raw), readBat(raw),
                     updateFuelPressure(raw), updateOilPressure(raw)}
  /\ UNCHANGED <<sensorConfig, manifold, counts, throttle, ambient, vss, flex>>

-----------------------------------------------------------------------------
\* Without a sensor of its own the ambient pressure is that of the manifold
\* when the speed is zero and no tooth passed, not now but a second ago: one
\* that passed within half a second does not count, and a stall forgets it.
\* Ages are in half seconds: of the last tooth, or 3 when it is forgotten.
isEngineRunningASecondAgo == ambient.sinceTooth = 2
isValidBaro(pressure) == pressure \in 30..70

readBaro ==
  /\ \E raw \in Readings :
       LET value == mapADCToMAP(raw)
           fromMAP == rpm = 0 /\ ~isEngineRunningASecondAgo /\ isValidBaro(value)
       IN ambient' = IF sensorConfig.useExtBaro
                     THEN LET adc == LOW_PASS_FILTER(raw, sensorConfig.ADCFILTER, ambient.baroADC)
                          IN [ambient EXCEPT !.baroADC = adc, !.baro = mapADCToMAP(adc)]
                     ELSE IF fromMAP
                          THEN [ambient EXCEPT !.baro = value, !.lastBaro = IF ambient.saved THEN @ ELSE value,
                                               !.saved = TRUE]
                          ELSE ambient
  /\ UNCHANGED <<sensorConfig, manifold, counts, throttle, filtered, vss, flex>>

HalfSecond ==
  /\ ambient.sinceTooth = 0
  /\ ambient' = [ambient EXCEPT !.sinceTooth = 1]
  /\ UNCHANGED <<sensorConfig, manifold, counts, throttle, filtered, vss, flex>>

-----------------------------------------------------------------------------
\* The speed sensor's interrupt writes the next place of a ring of times.
vssPulse ==
  /\ sensorConfig.vssMode = "EXTERNAL"
  /\ LET next == (vss.index + 1) % VSS_SAMPLES
     IN vss' = [vss EXCEPT !.index = next, !.times[next] = vss.now,
                           !.pulses = Smaller(@ + 1, VSS_SAMPLES), !.age = 0]
  /\ vss.age > 0
  /\ UNCHANGED <<sensorConfig, manifold, counts, throttle, filtered, ambient, flex>>

VssTime ==
  /\ sensorConfig.vssMode = "EXTERNAL"
  /\ vss.age < MaxGap
  /\ vss' = [vss EXCEPT !.now = (@ + 1) % ClockModulus, !.age = @ + 1]
  /\ UNCHANGED <<sensorConfig, manifold, counts, throttle, filtered, ambient, flex>>

\* With interrupts off: the gap before the pulse so many pulses ago.
vssGetPulseGap(history) ==
  LET index == IF vss.index < history THEN vss.index - history + VSS_SAMPLES ELSE vss.index - history
  IN IF index > 0 THEN (vss.times[index] - vss.times[index - 1]) % ClockModulus
     ELSE (vss.times[0] - vss.times[VSS_SAMPLES - 1]) % ClockModulus

\* Three gaps are added up, and a pulse may come between two of them.
readGap ==
  /\ sensorConfig.vssMode = "EXTERNAL" /\ vss.read < VSS_SAMPLES - 1
  /\ LET gap == vssGetPulseGap(vss.read)
     IN vss' = [vss EXCEPT !.read = @ + 1, !.total = @ + gap,
                           !.gapsReal = vss.pulses < VSS_SAMPLES \/ (@ /\ gap \in 1..MaxGap)]
  /\ UNCHANGED <<sensorConfig, manifold, counts, throttle, filtered, ambient, flex>>

\* A speed class of 2 is nonsense, which leaves the speed as it was; before the
\* first gaps the time is zero, and what is divided by it is undefined.
getSpeed ==
  CASE sensorConfig.vssMode = "OFF" -> {0}
    [] sensorConfig.vssMode = "INTERNAL_PIN" -> 0..1
    [] OTHER -> IF vss.total = 0 THEN {0, 1} ELSE {0, IF vss.total > 4 THEN 1 ELSE vss.speed}

\* A speed without revolutions divides by zero; a gear that fits no ratio
\* leaves the last.
getGear(speed) == IF speed = 0 THEN {0} ELSE {vss.gear} \union 1..2

readSpeedAndGear ==
  /\ sensorConfig.vssMode = "EXTERNAL" => vss.read = VSS_SAMPLES - 1
  /\ \E speed \in getSpeed :
       \E gear \in getGear(speed) :
         vss' = [vss EXCEPT !.speed = speed, !.gear = gear, !.read = 0, !.total = 0]
  /\ UNCHANGED <<sensorConfig, manifold, counts, throttle, filtered, ambient, flex>>

-----------------------------------------------------------------------------
flexFreqLow == 2
flexFreqHigh == 5
flexErrorBand == 2   \* 19 pulses in the code: above it the sensor has failed
MaxPulses == 9       \* bound: pulses in a second
pureEthanol == flexFreqHigh - flexFreqLow

flexPulse ==
  /\ sensorConfig.flexEnabled /\ flex.counter < MaxPulses
  /\ flex' = [flex EXCEPT !.counter = @ + 1]
  /\ UNCHANGED <<sensorConfig, manifold, counts, throttle, filtered, ambient, vss>>

\* The frequency of the pulses is the percentage.
ethanolOf(counter) ==
  CASE counter < flexFreqLow -> 0
    [] counter > flexFreqHigh + 1 ->
         IF counter < flexFreqLow + flexErrorBand THEN pureEthanol ELSE 0
    [] OTHER -> IF counter - flexFreqLow = 1 THEN 0 ELSE counter - flexFreqLow

flexSecond ==
  /\ sensorConfig.flexEnabled
  /\ flex' = [counter |-> 0, last |-> flex.counter, sample |-> ethanolOf(flex.counter),
              ethanolPct |-> LOW_PASS_FILTER(ethanolOf(flex.counter), sensorConfig.ADCFILTER, flex.ethanolPct)]
  /\ UNCHANGED <<sensorConfig, manifold, counts, throttle, filtered, ambient, vss>>

-----------------------------------------------------------------------------
\* The stall: the samplers are cleared, and the reading that follows in the same
\* pass restarts them, here with the value that was there.
stopped(m) == [m EXCEPT !.start = 0, !.total = m.adc, !.count = 1, !.low = m.adc]

SensorsStopped ==
  /\ counts' = [revolutions |-> 0, ignitions |-> 0]
  /\ manifold' = spanned(manifold, manifold.adc, setMAPValuesFromReadings(asItIs(stopped(manifold))))
  /\ ambient' = [ambient EXCEPT !.sinceTooth = 3]
  /\ UNCHANGED <<sensorConfig, throttle, filtered, vss, flex>>

\* With the first reading, which comes long before the engine turns.
SensorsInit(configs) ==
  /\ sensorConfig \in configs
  /\ manifold = [adc |-> 2, MAP |-> mapADCToMAP(2), lastMAP |-> 0, start |-> 0, total |-> 2,
                 count |-> 1, low |-> 2, valid |-> TRUE, from |-> 2, to |-> 2, spans |-> TRUE]
  /\ counts = [revolutions |-> 0, ignitions |-> 0]
  /\ throttle = [tpsADC |-> 0, TPS |-> tpsOf(0), TPSlast |-> 0, CTPSActive |-> FALSE]
  /\ filtered = [cltADC |-> 0, iatADC |-> 0, O2ADC |-> 0, battery10 |-> 0,
                 fuelPressure |-> 0, oilPressure |-> 0]
  /\ ambient = [baroADC |-> 0, baro |-> 50, lastBaro |-> 50, saved |-> FALSE, sinceTooth |-> 3]
  /\ vss = [times |-> [i \in 0..VSS_SAMPLES - 1 |-> 0], index |-> 0, now |-> 0, age |-> 1,
            pulses |-> 0, read |-> 0, total |-> 0, gapsReal |-> TRUE, speed |-> 0, gear |-> 0]
  /\ flex = [counter |-> 0, last |-> 0, sample |-> 0, ethanolPct |-> 0]

\* The manifold pressure is never outside what was read since it was last
\* updated, however its samples are gathered, in whatever revolution or
\* ignition event the counters wrap; and once the ring of pulse times is full
\* every gap that is added up is one that was there, though pulses come while
\* the gaps are read.
ReadingsAreSampled == manifold.spans /\ vss.gapsReal

=============================================================================
