---------------------------- MODULE MillisecondTimer ----------------------------
(***************************************************************************)
(* timers.cpp: the interrupt that comes every millisecond.  It counts out  *)
(* the rates at which the main loop works, makes the tachometer's pulses,  *)
(* keeps the run times and primes the injectors.                           *)
(***************************************************************************)
EXTENDS EngineStatus

CONSTANTS
  Rates,         \* the rates, apart from the 1 kHz one
  Period,        \* by rate: its period in milliseconds
  MsModulus,     \* of the byte that ms_counter is cast to
  tachoDuration  \* configPage2.tachoDuration

ASSUME TimerAssumption ==
  /\ {"10HZ", "1HZ"} \subseteq Rates /\ Period \in [Rates -> Nat \ {0}]
  /\ MsModulus \in Nat /\ tachoDuration \in 1..MsModulus - 1

VARIABLES
  timerConfig,  \* half-speed tachometer, sweep at power up
  clock,        \* ms_counter, cast; by rate: its loop counter; the TIMER_mask
  tacho,        \* flag, pin, end time, alternation, sweep
  runTime       \* runSecsX10 and the seconds until priming, capped

timerVars == <<timerConfig, clock, tacho, runTime>>

TimerConfigs == [halfSpeed : BOOLEAN, sweep : BOOLEAN]

startOfPulse(t, ms) ==
  IF timerConfig.halfSpeed /\ ~t.alt THEN [t EXCEPT !.flag = "INACTIVE", !.alt = TRUE]
  ELSE [t EXCEPT !.low = TRUE, !.endTime = (ms + tachoDuration) % MsModulus,
                 !.flag = "ACTIVE", !.alt = ~@, !.lowFor = 0]

tachoOutput(t, ms) ==
  CASE t.flag = "READY" -> startOfPulse(t, ms)
    [] t.flag = "ACTIVE" /\ ms = t.endTime -> [t EXCEPT !.low = FALSE, !.flag = "INACTIVE", !.lowFor = 0]
    [] OTHER -> t

\* At power up the needle sweeps until the engine turns or the time is over:
\* whenever the accumulator rolls over a pulse is due.
tachoSweep(t) ==
  IF ~t.sweep THEN {t}
  ELSE IF rotationStatus # "Stopped" THEN {[t EXCEPT !.sweep = FALSE]}
  ELSE {t, [t EXCEPT !.flag = "READY"], [t EXCEPT !.sweep = FALSE]}

Capped(n) == IF n < MaxRun THEN n + 1 ELSE n

run10Hz(r) ==
  LET primes == ~r.injPrimed /\ r.seclx10 >= 1 /\ rpm = 0
  IN [r EXCEPT !.runSecsX10 = IF rotationStatus = "Running" THEN Capped(@) ELSE 0,
               !.injPrimed = @ \/ primes,
               !.seclx10 = Capped(@)]

oneMSInterval ==
  LET ms == (clock.ms + 1) % MsModulus
      due == {r \in Rates : clock.counter[r] + 1 = Period[r]}
  IN /\ clock' = [ms |-> ms,
                  counter |-> [r \in Rates |-> IF r \in due THEN 0 ELSE clock.counter[r] + 1],
                  mask |-> clock.mask \union due \union {"1KHZ"}]
     /\ \E t \in tachoSweep(tacho) :
          tacho' = tachoOutput([t EXCEPT !.lowFor = IF t.low /\ @ <= tachoDuration THEN @ + 1 ELSE @], ms)
     /\ runTime' = IF "10HZ" \in due THEN run10Hz(runTime) ELSE runTime
     /\ IF "1HZ" \in due /\ rotationStatus # "Stopped" THEN RunSecond ELSE UNCHANGED engineVars
     /\ UNCHANGED timerConfig

\* The start of a main loop pass: the flags are taken and cleared in one.
TakeTimers ==
  /\ clock' = [clock EXCEPT !.mask = {}]
  /\ UNCHANGED <<timerConfig, tacho, runTime>>

\* A coil begins to charge.
tachoOutputOn ==
  /\ rotationStatus # "Stopped"
  /\ tacho' = [tacho EXCEPT !.flag = "READY"]
  /\ UNCHANGED <<timerConfig, clock, runTime>>

TimerInit(configs) ==
  /\ timerConfig \in configs
  /\ clock = [ms |-> 0, counter |-> [r \in Rates |-> 0], mask |-> {}]
  /\ tacho = [flag |-> "INACTIVE", low |-> FALSE, endTime |-> 0, alt |-> FALSE,
              sweep |-> timerConfig.sweep, lowFor |-> 0]
  /\ runTime = [runSecsX10 |-> 0, seclx10 |-> 0, injPrimed |-> FALSE]

\* At full speed each pulse ends after its duration, though the next one may
\* begin before it does.
TachoEnds ==
  ~timerConfig.halfSpeed /\ tacho.flag # "READY" =>
    /\ tacho.low <=> tacho.flag = "ACTIVE"
    /\ tacho.low => tacho.lowFor < tachoDuration
=============================================================================
